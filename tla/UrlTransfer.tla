---------------------------- MODULE UrlTransfer ----------------------------
(***************************************************************************)
(* What a caller of curl_action.c may rely on: one call is one transfer,   *)
(* it either fails, reports an error and hands nothing over, or succeeds   *)
(* and hands over what the server sent, as a C string, or nothing.  Called *)
(* without a driver or a provider it stops the program.                    *)
(***************************************************************************)
EXTENDS TransferResults

CONSTANT Crashed

VARIABLES
  named,   \* neither driver nor provider is NULL
  answer,  \* what the server sends: [body |-> ..., header |-> ...], <<>> empty
  errors,  \* the error numbers of the entry point that is called
  outcome  \* NULL while the call runs, then [ret, data, header, error]

vars == <<named, answer, errors, outcome>>

Init == outcome = NULL

\* The call returns, or does not survive.
Return ==
  /\ outcome = NULL
  /\ outcome' \in IF named THEN Outcomes(answer, errors) ELSE {Crashed}
  /\ UNCHANGED <<named, answer, errors>>

Spec == Init /\ [][Return]_vars
=============================================================================
