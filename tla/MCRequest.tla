----------------------------- MODULE MCRequest -----------------------------
(* Every helper, every answer and every failure of one call, with listings  *)
(* long enough for a name before the wanted one and another after it, and   *)
(* messages with blanks in front, between and behind.                       *)
EXTENDS Request
=============================================================================
