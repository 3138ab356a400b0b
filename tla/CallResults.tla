---------------------------- MODULE CallResults ----------------------------
(***************************************************************************)
(* What a call of the library comes to, in the terms of its client: what   *)
(* it was given, what the server answered, and the results it may have.    *)
(* ApiCall states the contract of the request helpers with them, Request   *)
(* implements it, and InstanceService makes its calls through them.        *)
(***************************************************************************)
EXTENDS TransferResults, SequencesExt

CONSTANTS
  Unknown, \* the text "Unknown error"
  Crashed  \* the outcome of a call that dereferenced NULL

(* The helpers, by what they do: fetch a list, an item by its id, a blob by *)
(* its name in a bucket or an instance by its name; post parameters to a    *)
(* link, or to an address made from one; delete; post an action.            *)
Kinds == {"get", "get_by_id", "get_blob", "get_by_name", "create", "post", "destroy", "action"}

Fetching == {"get", "get_by_id", "get_blob", "get_by_name"}

\* The helpers that search the links of the api, or the actions of an instance.
Linked == {"get", "get_by_name", "create", "post", "action"}

(* The server's answer, up to its first NUL byte: what was asked for, an    *)
(* error document that starts with "<error", anything else (the page of a   *)
(* proxy, an error after an XML declaration: no status code is looked at),  *)
(* or nothing.                                                              *)
Answers == {"good", "error", "other", "none"}

\* The helpers that allocate something before their transfer.
Building == {"get_by_id", "get_blob", "create", "post"}

\* The error a transfer or a refusal is reported with.
ErrcodeOf(kind) ==
  CASE kind \in {"create", "post", "action"} -> "POST_URL"
    [] kind = "destroy"                      -> "DELETE_URL"
    [] OTHER                                 -> "GET_URL"

-----------------------------------------------------------------------------
Inked(text) == {i \in DOMAIN text : text[i] = "ink"}

\* A text without the blanks around it.
Trimmed(text) ==
  IF Inked(text) = {} THEN <<>> ELSE SubSeq(text, Min(Inked(text)), Max(Inked(text)))

\* Where a listing first has the name that is wanted.
Places(listing) == {i \in DOMAIN listing : listing[i] = "wanted"}

Failures(errors, texts, lost) ==
  [ret : {-1}, error : errors, details : texts, output : {"untouched", NULL},
   found : {0}, headers : {FALSE}, lost : lost]

Successes(outputs, places, headers, lost) ==
  [ret : {0}, error : {None}, details : {None}, output : outputs,
   found : places, headers : headers, lost : lost]

(* A fetch succeeds with the whole of a good answer; a lookup by name with  *)
(* the first instance that has it, or it says that there is none.           *)
Fetched(c) ==
  IF c.answer # "good" \/ (c.kind = "get_by_name" /\ Places(c.listing) = {}) THEN {}
  ELSE Successes({"parsed"}, {IF c.kind = "get_by_name" THEN Min(Places(c.listing)) ELSE 0},
                 {FALSE}, {FALSE})

(* A change succeeds unless an error document is seen: one can be lost      *)
(* between libcurl's buffer and its copy.                                   *)
Changed(c) ==
  Successes(IF "data" \in c.wanted THEN {"untouched", "data", NULL} ELSE {"untouched"},
            {0}, IF "headers" \in c.wanted THEN BOOLEAN ELSE {FALSE},
            IF c.answer = "error" THEN {TRUE} ELSE BOOLEAN)

(* A call that got as far as a transfer: a failure has one of a few errors, *)
(* and the details of a refusal are its message, trimmed.                   *)
Refusals(c) ==
  Failures({"OOM", ErrcodeOf(c.kind)} \cup (IF c.kind \in Fetching THEN {"XML"} ELSE {})
             \cup (IF c.kind = "get_by_name" /\ Places(c.listing) = {} THEN {"NAME_NOT_FOUND"} ELSE {}),
           {None} \cup IF c.answer = "error" THEN {Trimmed(c.message), Unknown} ELSE {},
           BOOLEAN)

\* strcmp() of the name of an instance, and strdup() of the server's message.
Crashes(c) ==
  IF c.answer = "error" \/ (c.kind = "get_by_name" /\ c.listing # <<>>) THEN {Crashed} ELSE {}

\* A call that does not get as far as an answer: strcat() of the driver or of
\* the provider of an api that has none.
Unsent(c) ==
  {Crashed} \cup IF c.kind \in Building THEN Failures({"OOM"}, {None}, {FALSE}) ELSE {}

CallOutcomes(c) ==
  CASE ~c.usable -> Failures({"INVALID_ARGUMENT"}, {None}, {FALSE})
    [] c.usable /\ c.kind \in Linked /\ c.links = "missing" ->
         Failures({"URL_DOES_NOT_EXIST"}, {None}, {FALSE})
    [] c.usable /\ c.kind \in Linked /\ c.links = "nameless" -> {Crashed}
    [] c.usable /\ (c.kind \in Linked => c.links = "there") /\ ~c.named -> Unsent(c)
    [] OTHER -> Refusals(c) \cup Crashes(c)
                  \cup (IF c.kind \in Fetching THEN Fetched(c) ELSE Changed(c))
=============================================================================
