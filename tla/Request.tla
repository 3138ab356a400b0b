------------------------------ MODULE Request ------------------------------
(***************************************************************************)
(* The request helpers of common.c that every entry point of the library   *)
(* is built on, internal_get, internal_get_by_id, internal_create and      *)
(* internal_post, and internal_destroy, with the entry points that build   *)
(* an address around them, and the two of instance.c that call a transfer  *)
(* themselves, instance_action and deltacloud_get_instance_by_name: one    *)
(* call from its argument checks to its cleanup label.  The transfer is    *)
(* the contract of UrlTransfer, which Transfer implements; the call as a   *)
(* whole implements ApiCall.                                               *)
(*                                                                         *)
(* heap holds the names of the allocations the call owns; what it hands to *)
(* its caller leaves heap.  error is what the call hands to set_error():   *)
(* whether the slot of the thread could take it is ErrorSlot's.            *)
(***************************************************************************)
EXTENDS CallResults

CONSTANTS
  MaxListing, \* bound on the instances of a listing
  MaxMessage  \* bound on the length of an error message

ASSUME BoundsAssumption == MaxListing \in Nat /\ MaxMessage \in Nat

\* A pointer that is NULL points at no output and at no body.
ASSUME OutputsAssumption == NULL \notin {"untouched", "parsed", "data"} \cup Answers

VARIABLES
  pc,
  kind,       \* the helper called
  usable,     \* the api structure is initialised, no argument is NULL
  named,      \* ... and has its driver and its provider
  links,      \* the link, or the instance's action: there, or not, or one
              \* without a name is in front of it
  answer,     \* what the server's answer is
  message,    \* the text of its error document, <<>> if it has none
  listing,    \* the names of the instances it lists
  wanted,     \* the outputs internal_post's caller asked for
  data,       \* the body the transfer handed over
  heap,       \* the allocations of the call
  lost,       \* the answer had a body, and the transfer could not copy it
  cursor,     \* the instance of the listing that is looked at
  output,     \* what the caller's output points at
  gotHeaders, \* the response headers are the caller's
  ret, error, details

vars == <<pc, kind, usable, named, links, answer, message, listing, wanted, data, heap,
          lost, cursor, output, gotHeaders, ret, error, details>>
callVars == <<kind, usable, named, links, answer, message, listing, wanted>>
resultVars == <<output, gotHeaders, ret>>
workVars == <<data, heap, lost, cursor>>

Errors == {"INVALID_ARGUMENT", "URL_DOES_NOT_EXIST", "OOM", "XML", "NAME_NOT_FOUND",
           "GET_URL", "POST_URL", "DELETE_URL"}
Names == {"bucketurl", "href", "safeid", "url", "stream", "param_string", "data", "headers"}
Labels == {"check", "link", "address", "build", "transfer", "classify", "explain", "parse",
           "search", "cleanup", "leave", "done", "crashed"}
Messages == BoundedSeq({"blank", "ink"}, MaxMessage)
Listings == BoundedSeq({"wanted", "other", NULL}, MaxListing)

(* The types; in particular the errors are those the helpers report.        *)
TypeOK ==
  /\ pc \in Labels
  /\ kind \in Kinds
  /\ usable \in BOOLEAN /\ named \in BOOLEAN
  /\ links \in {"there", "missing", "nameless"}
  /\ answer \in Answers
  /\ message \in Messages /\ listing \in Listings
  /\ wanted \subseteq {"data", "headers"}
  /\ data \in (Answers \ {"none"}) \cup {NULL}
  /\ heap \subseteq Names
  /\ lost \in BOOLEAN
  /\ cursor \in 0..(Len(listing) + 1)
  /\ output \in {"untouched", "parsed", "data", NULL}
  /\ gotHeaders \in BOOLEAN
  /\ ret \in {-1, 0}
  /\ error \in Errors \cup {None}
  /\ details \in Messages \cup {Unknown, None}

Init ==
  /\ pc = "check"
  /\ kind \in Kinds
  /\ usable \in BOOLEAN
  /\ named \in BOOLEAN
  /\ links \in IF kind \in Linked THEN {"there", "missing", "nameless"} ELSE {"there"}
  /\ answer \in Answers
  /\ message \in IF answer = "error" THEN Messages ELSE {<<>>}
  /\ listing \in IF kind = "get_by_name" /\ answer = "good" THEN Listings ELSE {<<>>}
  /\ wanted \in IF kind = "create" THEN SUBSET {"data", "headers"} ELSE {{}}
  /\ data = NULL
  /\ heap = {}
  /\ lost = FALSE
  /\ cursor = 0
  /\ output = "untouched"
  /\ gotHeaders = FALSE
  /\ ret = -1
  /\ error = None
  /\ details = None

\* Mutant: delete_url reports the error of another method.
errcodeSwapped == IF kind = "destroy" THEN "MULTIPART_POST_URL" ELSE ErrcodeOf(kind)

\* The error a transfer or a refusal is reported with.
errcode == ErrcodeOf(kind)

Goto(label) == pc' = label /\ UNCHANGED <<error, details>>

\* set_error(), with a text of its own.
FailAt(label, e) == pc' = label /\ error' = e /\ details' = None

-----------------------------------------------------------------------------
(* valid_api() and valid_arg().                                             *)
CheckApi ==
  /\ pc = "check"
  /\ IF usable THEN Goto("link") ELSE FailAt("done", "INVALID_ARGUMENT")
  /\ UNCHANGED <<callVars, workVars, resultVars>>

(* api_find_link(), or the search through instance->actions: a link without *)
(* a rel does not survive the comparison.  The others have their address.   *)
FindLink ==
  /\ pc = "link"
  /\ \/ (kind \in Linked => links = "there") /\ Goto("address")
     \/ kind \in Linked /\ links = "missing" /\ FailAt("done", "URL_DOES_NOT_EXIST")
     \/ kind \in Linked /\ links = "nameless" /\ Goto("crashed")
  /\ UNCHANGED <<callVars, workVars, resultVars>>

\* What the entry point allocates around the helper.
Address == [k \in {"get_blob", "post"} |-> IF k = "post" THEN "href" ELSE "bucketurl"]

BuildAddress ==
  /\ pc = "address"
  /\ \/ kind \notin DOMAIN Address /\ Goto("build") /\ UNCHANGED heap
     \/ kind \in DOMAIN Address /\ heap' = {Address[kind]} /\ Goto("build")
     \/ kind \in DOMAIN Address /\ FailAt("done", "OOM") /\ UNCHANGED heap
  /\ UNCHANGED <<callVars, data, lost, cursor, resultVars>>

NothingToBuild ==
  /\ pc = "build"
  /\ kind \in {"get", "get_by_name", "destroy", "action"}
  /\ Goto("transfer")
  /\ UNCHANGED <<callVars, workVars, resultVars>>

\* The escaped id and the url made from it.
BuildUrl ==
  /\ pc = "build"
  /\ kind \in {"get_by_id", "get_blob"}
  /\ \/ heap' = heap /\ FailAt("leave", "OOM")
     \/ heap' = heap \cup {"safeid"} /\ FailAt("cleanup", "OOM")
     \/ heap' = heap \cup {"safeid", "url"} /\ Goto("transfer")
  /\ UNCHANGED <<callVars, data, lost, cursor, resultVars>>

\* internal_post's stream: open_memstream, the escaped values, fclose.
BuildParams ==
  /\ pc = "build"
  /\ kind \in {"create", "post"}
  /\ \/ heap' = heap /\ FailAt("leave", "OOM")
     \/ heap' = heap \cup {"stream", "param_string"} /\ FailAt("cleanup", "OOM")
     \/ heap' = heap \cup {"param_string"} /\ Goto("transfer")
  /\ UNCHANGED <<callVars, data, lost, cursor, resultVars>>

-----------------------------------------------------------------------------
(* The transfer, by its contract: it fails with an error of its own, or it  *)
(* hands over the body and, to a create that asked for them, the headers.   *)
Sent(hdr) == [body |-> IF answer = "none" THEN <<>> ELSE <<answer>>, header |-> hdr]

Transfer ==
  /\ pc = "transfer" /\ named
  /\ \E hdr \in IF "headers" \in wanted THEN {<<>>, <<"headers">>} ELSE {<<>>} :
     \E result \in Outcomes(Sent(hdr), {errcode, "OOM"}) :
       IF result.ret # 0
         THEN /\ FailAt("cleanup", result.error)
              /\ UNCHANGED <<data, heap, lost>>
         ELSE /\ Goto("classify")
              /\ data' = IF result.data = NULL THEN NULL ELSE result.data[1]
              /\ heap' = heap \cup (IF result.data = NULL THEN {} ELSE {"data"})
                              \cup (IF result.header = NULL THEN {} ELSE {"headers"})
              /\ lost' = (result.data = NULL /\ answer # "none")
  /\ UNCHANGED <<callVars, cursor, resultVars>>

\* The transfer of an api without a driver or a provider.
TransferCrashes ==
  /\ pc = "transfer" /\ ~named
  /\ Goto("crashed")
  /\ UNCHANGED <<callVars, workVars, resultVars>>

(* Is there a body, and is it the server's error document?  A lookup by     *)
(* name does not reset its output; a list does, and then parses into it.    *)
ClassifyFetched ==
  /\ pc = "classify"
  /\ kind \in Fetching
  /\ \/ data = NULL /\ FailAt("cleanup", errcode)
     \/ data = "error" /\ Goto("explain")
     \/ data \in {"good", "other"} /\ Goto("parse")
  /\ UNCHANGED <<callVars, workVars, resultVars>>

\* A create, a destroy or an action succeeds unless it can see an error.
ClassifyAnswer ==
  /\ pc = "classify"
  /\ kind \notin Fetching
  /\ IF data = "error"
       THEN Goto("explain") /\ UNCHANGED <<heap, resultVars>>
       ELSE /\ Goto("cleanup")
            /\ ret' = 0
            /\ gotHeaders' = ("headers" \in heap)
            /\ heap' = heap \ {"headers"}
            /\ output' \in IF "data" \in wanted /\ data # NULL THEN {"data", NULL} ELSE {output}
  /\ UNCHANGED <<callVars, data, lost, cursor>>

-----------------------------------------------------------------------------
strip_trailing_whitespace(text) ==
  LET upto[i \in 0..Len(text)] ==
        IF i = 0 \/ text[i] # "blank" THEN SubSeq(text, 1, i) ELSE upto[i - 1]
  IN upto[Len(text)]

strip_leading_whitespace(text) ==
  LET from[i \in 1..(Len(text) + 1)] ==
        IF i > Len(text) \/ text[i] # "blank" THEN SubSeq(text, i, Len(text)) ELSE from[i + 1]
  IN from[1]

\* Mutant: the headers survive an error document.
SetXmlErrorKeepingHeaders ==
  /\ pc = "explain"
  /\ details' = Unknown /\ error' = errcode /\ pc' = "cleanup"
  /\ UNCHANGED <<callVars, workVars, resultVars>>

(* set_xml_error(): the message of the document, with its blanks stripped,  *)
(* or "Unknown error" if it has none or cannot be parsed; without memory    *)
(* for either, set_error() copies NULL.                                     *)
SetXmlError ==
  /\ pc = "explain"
  /\ \/ /\ message # <<>>
        /\ details' = strip_leading_whitespace(strip_trailing_whitespace(message))
        /\ error' = errcode /\ pc' = "cleanup"
     \/ details' = Unknown /\ error' = errcode /\ pc' = "cleanup"
     \/ pc' = "crashed" /\ UNCHANGED <<error, details>>
  /\ heap' = heap \ {"headers"}
  /\ UNCHANGED <<callVars, data, lost, cursor, resultVars>>

(* internal_xml_parse: only a document with the expected root gets as far   *)
(* as its callback, and not when libxml2 runs out of memory.                *)
Parse ==
  /\ pc = "parse"
  /\ output' = IF kind = "get" THEN NULL ELSE output
  /\ \/ data = "good" /\ Goto("search")
     \/ FailAt("cleanup", "XML")
  /\ cursor' = IF pc' = "search" THEN 1 ELSE cursor
  /\ UNCHANGED <<callVars, data, heap, lost, gotHeaders, ret>>

\* parse_one_instance(), or the parser of another resource, fills the output.
Parsed == output' = "parsed" /\ ret' = 0 /\ Goto("cleanup")

\* The callback of a list or of a single item, which may run out of memory.
ParseAll ==
  /\ pc = "search"
  /\ kind # "get_by_name"
  /\ Parsed \/ (FailAt("cleanup", "OOM") /\ UNCHANGED <<output, ret>>)
  /\ cursor' = 0
  /\ UNCHANGED <<callVars, data, heap, lost, gotHeaders>>

\* Mutant: the loop does not break at the first match.
FindAndParseInstanceOnwards ==
  /\ pc = "search"
  /\ kind = "get_by_name"
  /\ IF cursor > Len(listing)
       THEN FailAt("cleanup", "NAME_NOT_FOUND") /\ UNCHANGED <<cursor, output>>
       ELSE /\ cursor' = cursor + 1
            /\ output' = IF listing[cursor] = "wanted" THEN "parsed" ELSE output
            /\ Goto("search")
  /\ UNCHANGED <<callVars, data, heap, lost, gotHeaders, ret>>

(* find_and_parse_instance(): the instances in turn, up to the first with   *)
(* the name.  A name that is missing, or could not be copied, is compared.  *)
FindAndParseInstance ==
  /\ pc = "search"
  /\ kind = "get_by_name"
  /\ \/ /\ cursor > Len(listing)
        /\ FailAt("cleanup", "NAME_NOT_FOUND") /\ UNCHANGED <<cursor, output, ret>>
     \/ /\ cursor <= Len(listing)
        /\ Goto("crashed") /\ UNCHANGED <<cursor, output, ret>>
     \/ /\ cursor <= Len(listing) /\ listing[cursor] = "wanted"
        /\ Parsed \/ (FailAt("cleanup", "OOM") /\ UNCHANGED <<output, ret>>)
        /\ UNCHANGED cursor
     \/ /\ cursor <= Len(listing) /\ listing[cursor] = "other"
        /\ cursor' = cursor + 1
        /\ Goto("search") /\ UNCHANGED <<output, ret>>
  /\ UNCHANGED <<callVars, data, heap, lost, gotHeaders>>

\* The cleanup labels, each freeing what its own function allocated.
Cleanup ==
  /\ pc = "cleanup"
  /\ heap' = heap \ ({"data"} \cup
       CASE kind \in {"get_by_id", "get_blob"} -> {"safeid", "url"}
         [] kind \in {"create", "post"}        -> {"stream", "param_string"}
         [] OTHER                              -> {})
  /\ data' = NULL
  /\ Goto("leave")
  /\ UNCHANGED <<callVars, lost, cursor, resultVars>>

\* The entry point frees the address it built.
Leave ==
  /\ pc = "leave"
  /\ heap' = heap \ {"bucketurl", "href"}
  /\ Goto("done")
  /\ UNCHANGED <<callVars, data, lost, cursor, resultVars>>

\* The call has returned, or the program is gone.
Returned == pc \in {"done", "crashed"} /\ UNCHANGED vars

Next ==
  \/ CheckApi \/ FindLink \/ BuildAddress \/ NothingToBuild \/ BuildUrl \/ BuildParams
  \/ Transfer \/ TransferCrashes \/ ClassifyFetched \/ ClassifyAnswer \/ SetXmlError
  \/ Parse \/ ParseAll \/ FindAndParseInstance \/ Cleanup \/ Leave \/ Returned

Spec == Init /\ [][Next]_vars

-----------------------------------------------------------------------------
(* Whatever fails, and wherever, the call frees all it allocated and has    *)
(* not handed over, the response headers of a refused create included.      *)
TemporariesFreed ==
  pc = "done" => heap = {} /\ (ret = -1 => ~gotHeaders /\ output # "data")

(* The contract: -1 comes with an error and 0 without one; a fetch that     *)
(* returns 0 parsed what was asked for, a lookup by name the first instance *)
(* that has it; a change the server refused in an error document is a       *)
(* success only when the document was lost between libcurl's buffer and its *)
(* copy; the details of a refusal are its message without the blanks around *)
(* it; and only a name, a link, a message, a driver or a provider that is   *)
(* NULL stops the program: the last two every call that reaches a transfer. *)
Call == [kind |-> kind, usable |-> usable, named |-> named, links |-> links,
         answer |-> answer, message |-> message, listing |-> listing, wanted |-> wanted]

Outcome ==
  CASE pc = "done"    -> [ret |-> ret, error |-> error, details |-> details, output |-> output,
                          found |-> IF ret = 0 THEN cursor ELSE 0,
                          headers |-> gotHeaders, lost |-> lost]
    [] pc = "crashed" -> Crashed
    [] OTHER          -> NULL

Contract == INSTANCE ApiCall WITH call <- Call, outcome <- Outcome

CallPromised == Contract!Spec
=============================================================================
