------------------------------ MODULE ApiCall ------------------------------
(***************************************************************************)
(* What a client may rely on: a call of the library is one step from what  *)
(* it was given, and what the server answered, to one of the outcomes of   *)
(* CallResults.                                                            *)
(***************************************************************************)
EXTENDS CallResults

VARIABLES
  call,   \* [kind, usable, named, links, answer, message, listing, wanted]
  outcome \* NULL while the call runs, then a result, or Crashed

vars == <<call, outcome>>

Init == outcome = NULL

\* The call returns, or does not survive.
Return ==
  /\ outcome = NULL
  /\ outcome' \in CallOutcomes(call)
  /\ UNCHANGED call

Spec == Init /\ [][Return]_vars
=============================================================================
