----------------------------- MODULE MCTransfer -----------------------------
(* All five entry points, headers and bodies of up to three pieces and two  *)
(* headers of the caller: enough for a piece, and for a NUL byte, in the    *)
(* middle, and for a list lost before and between the caller's headers.     *)
EXTENDS Transfer

AllMethods == {"GET", "POST", "DELETE", "MULTIPART", "HEAD"}
=============================================================================
