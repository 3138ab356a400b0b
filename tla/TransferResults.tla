-------------------------- MODULE TransferResults --------------------------
(***************************************************************************)
(* The results a transfer of curl_action.c can have, in the terms of its   *)
(* callers: UrlTransfer states the contract with them and Request calls    *)
(* transfers through them.                                                 *)
(***************************************************************************)
EXTENDS Integers

CONSTANTS
  None, \* no error
  NULL  \* an output the call did not set

(* Texts are C strings: a caller sees no further than the first NUL byte of *)
(* what the server sent.  <<>> is that nothing was sent.                    *)
\* A copy of text, or nothing if there was none or no memory to copy it.
CopyOf(text) == IF text = <<>> THEN {NULL} ELSE {text, NULL}

\* A failed transfer hands nothing over and reports one of errors.
Failed(errors) == [ret : {-1}, data : {NULL}, header : {NULL}, error : errors]

\* A successful one hands over the whole of what was sent, or nothing.
Succeeded(sent) ==
  [ret : {0}, data : CopyOf(sent.body), header : CopyOf(sent.header) \cup {NULL},
   error : {None}]

Outcomes(sent, errors) == Failed(errors) \cup Succeeded(sent)
=============================================================================
