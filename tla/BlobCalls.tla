----------------------------- MODULE BlobCalls -----------------------------
(***************************************************************************)
(* The calls on a blob of bucket.c that talk to the server themselves:     *)
(* create_blob_from_file, update_metadata, get_content and get_metadata,   *)
(* one call from its argument checks to its return.  The transfer is the   *)
(* contract of UrlTransfer.                                                *)
(*                                                                         *)
(* A metadata entry is a member of a small set that says what the code can *)
(* tell apart: when it is sent, whether it has a value; when it is read,   *)
(* what the header line does to fgets() and to the regular expression.     *)
(* heap holds the names of the allocations the call owns; error is what it *)
(* hands to set_error(): whether the slot took it is ErrorSlot's.          *)
(***************************************************************************)
EXTENDS TransferResults, SequencesExt

CONSTANT MaxEntries \* bound on the metadata entries of a call

Kinds == {"create", "update", "content", "metadata"}
Sent == {"valued", "valueless"}

(* "plain" is a metadata header of one line and one colon; "colon" has a    *)
(* second ": " in its value; "long" does not fit the 1024 bytes of header,  *)
(* and "other" is not a metadata header at all.                             *)
Lines == {"plain", "colon", "long", "other"}

(* The body of an answer: a content of the blob without a NUL byte in it,   *)
(* one with a NUL byte, an error document, or none; and what of it is a C   *)
(* string: all of it, but for what is behind the NUL byte.                  *)
Answers == {"content", "binary", "error", "none"}
CStringOf == [content |-> "content", binary |-> "cut", error |-> "error"]

Errors == {"INVALID_ARGUMENT", "URL_DOES_NOT_EXIST", "OOM", "INTERNAL",
           "GET_URL", "POST_URL", "DELETE_URL", "MULTIPART_POST_URL"}

\* What a name or a value of the metadata can be.
Strings == {"plain", "shifted", "plain CR", "rest CR", NULL}
Parameter == [name : Strings, value : Strings \cup {"garbage"}]

ASSUME ConstantsAssumption ==
  /\ MaxEntries \in Nat
  /\ None \notin Errors
  /\ NULL \notin Seq(Parameter)

VARIABLES
  pc,
  kind,     \* the entry point
  entries,  \* the client's parameters, or the header lines the server sends
  answer,   \* the body of the answer
  i,        \* the entries gone through
  posted,   \* the entries in the form, or in the header list
  strings,  \* the header strings printed and not freed
  stranded, \* a header list was given up
  heap,     \* the other allocations of the call
  data,     \* the body the transfer handed over
  output,   \* the client's pointer to the content
  params,   \* the client's pointer to the metadata, an array or NULL
  count,    \* *params_length
  ret, error

vars == <<pc, kind, entries, answer, i, posted, strings, stranded, heap, data,
          output, params, count, ret, error>>
callVars == <<kind, entries, answer>>
sendVars == <<posted, strings, stranded>>
readVars == <<params, count>>

(* The types; in particular no entry beyond the last is looked at.          *)
TypeOK ==
  /\ pc \in {"check", "link", "build", "entries", "href", "transfer", "classify", "open",
             "cleanup", "done", "crashed"}
  /\ kind \in Kinds
  /\ entries \in BoundedSeq(IF kind = "metadata" THEN Lines ELSE Sent, MaxEntries)
  /\ answer \in Answers
  /\ i \in 0..Len(entries)
  /\ posted \in BoundedSeq(Sent, MaxEntries)
  /\ strings \in 0..MaxEntries
  /\ stranded \in BOOLEAN
  /\ heap \subseteq {"url", "form", "list", "data", "headers", "file", "regex"}
  /\ data \in {"content", "cut", "error", NULL}
  /\ output \in {"earlier", "content", "cut", "error", NULL}
  /\ params = NULL \/ params \in Seq(Parameter)
  /\ count \in 0..MaxEntries \cup {NULL}
  /\ ret \in {-1, 0}
  /\ error \in Errors \cup {None}

(* The client's pointer to the content may be one it used before: output is *)
(* documented as an out parameter.                                          *)
Init ==
  /\ pc = "check"
  /\ kind \in Kinds
  /\ entries \in CASE kind = "metadata" -> BoundedSeq(Lines, MaxEntries)
                   [] kind = "content"  -> {<<>>}
                   [] OTHER             -> BoundedSeq(Sent, MaxEntries)
  /\ answer \in IF kind = "metadata" THEN {"none"} ELSE Answers
  /\ i = 0
  /\ posted = <<>>
  /\ strings = 0
  /\ stranded = FALSE
  /\ heap = {}
  /\ data = NULL
  /\ output \in IF kind = "content" THEN {"earlier", NULL} ELSE {NULL}
  /\ params = NULL
  /\ count = NULL
  /\ ret = -1
  /\ error = None

Goto(label) == pc' = label /\ UNCHANGED error

FailAt(label, e) == pc' = label /\ error' = e

-----------------------------------------------------------------------------
\* valid_api(), valid_arg(), and params_length >= 0 of a create.
CheckArguments ==
  /\ pc = "check"
  /\ Goto("link") \/ FailAt("done", "INVALID_ARGUMENT")
  /\ UNCHANGED <<callVars, i, sendVars, heap, data, output, readVars, ret>>

\* A link in front of the one wanted may be without a rel to compare.
FindLink ==
  /\ pc = "link"
  /\ Goto("build") \/ FailAt("done", "URL_DOES_NOT_EXIST") \/ Goto("crashed")
  /\ UNCHANGED <<callVars, i, sendVars, heap, data, output, readVars, ret>>

BuildUrl ==
  /\ pc = "build"
  /\ kind # "create"
  /\ \/ heap' = {} /\ FailAt("done", "OOM")
     \/ heap' = {"url"} /\ Goto(IF kind = "update" THEN "entries" ELSE "transfer")
  /\ UNCHANGED <<callVars, i, sendVars, data, output, readVars, ret>>

(* The fields of the form that are always there: the file, the id and the   *)
(* number of entries.                                                       *)
BuildForm ==
  /\ pc = "build"
  /\ kind = "create"
  /\ \/ heap' = {} /\ FailAt("done", "OOM")
     \/ heap' = {"form"} /\ (FailAt("cleanup", "OOM") \/ Goto("entries"))
  /\ UNCHANGED <<callVars, i, sendVars, data, output, readVars, ret>>

MoreEntries == pc = "entries" /\ i < Len(entries)

(* The name and the value of an entry as fields of the form; curl_formadd() *)
(* takes no NULL.                                                           *)
AddField ==
  /\ MoreEntries
  /\ kind = "create"
  /\ \/ /\ entries[i + 1] = "valued"
        /\ posted' = Append(posted, entries[i + 1])
        /\ i' = i + 1
        /\ Goto("entries")
     \/ FailAt("cleanup", "OOM") /\ UNCHANGED <<i, posted>>
  /\ UNCHANGED <<callVars, strings, stranded, heap, data, output, readVars, ret>>

\* An entry without a value is left out.
SkipHeader ==
  /\ MoreEntries
  /\ kind = "update"
  /\ entries[i + 1] = "valueless"
  /\ i' = i + 1
  /\ Goto("entries")
  /\ UNCHANGED <<callVars, sendVars, heap, data, output, readVars, ret>>

\* Mutant: a failing append is not looked at.
AddHeaderUnchecked ==
  /\ MoreEntries
  /\ kind = "update"
  /\ entries[i + 1] = "valued"
  /\ strings' = strings + 1
  /\ i' = i + 1
  /\ Goto("entries")
  /\ \/ posted' = Append(posted, entries[i + 1]) /\ heap' = heap \cup {"list"} /\ UNCHANGED stranded
     \/ posted' = <<>> /\ heap' = heap \ {"list"} /\ stranded' = ("list" \in heap)
  /\ UNCHANGED <<callVars, data, output, readVars, ret>>

(* asprintf() of a header and curl_slist_append(), which copies the string  *)
(* and whose NULL replaces the list built so far.                           *)
AddHeader ==
  /\ MoreEntries
  /\ kind = "update"
  /\ entries[i + 1] = "valued"
  /\ \/ /\ strings' = strings + 1
        /\ posted' = Append(posted, entries[i + 1])
        /\ heap' = heap \cup {"list"}
        /\ i' = i + 1
        /\ Goto("entries")
        /\ UNCHANGED stranded
     \/ /\ strings' = strings + 1
        /\ posted' = <<>>
        /\ stranded' = ("list" \in heap)
        /\ heap' = heap \ {"list"}
        /\ UNCHANGED i
        /\ FailAt("cleanup", "OOM")
     \/ FailAt("cleanup", "OOM") /\ UNCHANGED <<i, sendVars, heap>>
  /\ UNCHANGED <<callVars, data, output, readVars, ret>>

EntriesBuilt ==
  /\ pc = "entries"
  /\ i = Len(entries)
  /\ kind \in {"create", "update"}
  /\ Goto(IF kind = "create" THEN "href" ELSE "transfer")
  /\ UNCHANGED <<callVars, i, sendVars, heap, data, output, readVars, ret>>

BuildHref ==
  /\ pc = "href"
  /\ \/ heap' = heap \cup {"url"} /\ Goto("transfer")
     \/ FailAt("cleanup", "OOM") /\ UNCHANGED heap
  /\ UNCHANGED <<callVars, i, sendVars, data, output, readVars, ret>>

-----------------------------------------------------------------------------
\* The error of the transfer: post, multipart post, get or head.
errcode ==
  CASE kind = "create" -> "MULTIPART_POST_URL"
    [] kind = "update" -> "POST_URL"
    [] OTHER           -> "GET_URL"

Reply == [body   |-> IF answer = "none" THEN <<>> ELSE <<CStringOf[answer]>>,
          header |-> IF kind = "metadata" THEN <<entries>> ELSE <<>>]

(* A failure goes to the cleanup label, but for get_content, which returns. *)
TransferFails ==
  /\ pc = "transfer"
  /\ \E result \in Failed({errcode, "OOM"}) :
       FailAt(IF kind = "content" THEN "done" ELSE "cleanup", result.error)
  /\ UNCHANGED <<callVars, i, sendVars, heap, data, output, readVars, ret>>

\* The driver or the provider of the api is NULL.
TransferCrashes ==
  /\ pc = "transfer"
  /\ Goto("crashed")
  /\ UNCHANGED <<callVars, i, sendVars, heap, data, output, readVars, ret>>

(* What get_url() does with no body is nothing: the pointer it was given,   *)
(* the client's own in get_content, keeps its value.                        *)
TransferSucceeds ==
  /\ pc = "transfer"
  /\ \E result \in Succeeded(Reply) :
       LET body == IF result.data = NULL THEN NULL ELSE result.data[1] IN
       /\ IF kind = "content"
            THEN /\ output' = IF answer = "none" THEN output ELSE body
                 /\ UNCHANGED <<data, heap>>
            ELSE /\ data' = body
                 /\ heap' = heap \cup (IF body = NULL THEN {} ELSE {"data"})
                                 \cup (IF result.header = NULL THEN {} ELSE {"headers"})
                 /\ UNCHANGED output
  /\ Goto(IF kind = "metadata" THEN "open" ELSE "classify")
  /\ UNCHANGED <<callVars, i, sendVars, readVars, ret>>

\* The error a refusal is reported with.
refusal ==
  CASE kind = "create" -> "DELETE_URL"
    [] kind = "update" -> "POST_URL"
    [] OTHER           -> "GET_URL"

(* The body, if there is one, is the server's error document or it is not;  *)
(* set_xml_error() copies a message it had no memory for as NULL.           *)
ClassifyAnswer ==
  /\ pc = "classify"
  /\ kind \in {"create", "update"}
  /\ IF data = "error"
       THEN FailAt("cleanup", refusal) /\ UNCHANGED ret
       ELSE Goto("cleanup") /\ ret' = 0
  /\ UNCHANGED <<callVars, i, sendVars, heap, data, output, readVars>>

RefusalCrashes ==
  /\ pc = "classify"
  /\ IF kind = "content" THEN output = "error" ELSE data = "error"
  /\ Goto("crashed")
  /\ UNCHANGED <<callVars, i, sendVars, heap, data, output, readVars, ret>>

\* Mutant: a missing body is taken for an empty content.
ClassifyContentSilently ==
  /\ pc = "classify"
  /\ kind = "content"
  /\ \/ /\ output = "error" /\ FailAt("cleanup", refusal) /\ output' = NULL
        /\ UNCHANGED ret
     \/ /\ output = NULL /\ Goto("cleanup") /\ UNCHANGED <<output, ret>>
     \/ /\ output \notin {NULL, "error"} /\ Goto("cleanup") /\ ret' = 0
        /\ UNCHANGED output
  /\ UNCHANGED <<callVars, i, sendVars, heap, data, readVars>>

ClassifyContent ==
  /\ pc = "classify"
  /\ kind = "content"
  /\ IF output \in {NULL, "error"}
       THEN FailAt("cleanup", refusal) /\ output' = NULL /\ UNCHANGED ret
       ELSE Goto("cleanup") /\ ret' = 0 /\ UNCHANGED output
  /\ UNCHANGED <<callVars, i, sendVars, heap, data, readVars>>

-----------------------------------------------------------------------------
(* The headers as a file and the regular expression.  strlen() of headers   *)
(* that were not copied is undefined; the build dies of it.                 *)
OpenHeaders ==
  /\ pc = "open"
  /\ IF "headers" \notin heap
       THEN Goto("crashed") /\ UNCHANGED heap
       ELSE \/ FailAt("cleanup", "OOM") /\ UNCHANGED heap
            \/ FailAt("cleanup", "INTERNAL") /\ heap' = heap \cup {"file"}
            \/ Goto("entries") /\ heap' = heap \cup {"file", "regex"}
  /\ UNCHANGED <<callVars, i, sendVars, data, output, readVars, ret>>

SkipLine ==
  /\ MoreEntries
  /\ kind = "metadata"
  /\ entries[i + 1] \in {"long", "other"}
  /\ i' = i + 1
  /\ Goto("entries")
  /\ UNCHANGED <<callVars, sendVars, heap, data, output, readVars, ret>>

\* The entries read so far.
Read == IF params = NULL THEN <<>> ELSE params

\* The first subexpression takes as much as it can, the second one what is
\* left before the newline, the carriage return of the header included.
NameOf(line) == IF line = "colon" THEN "shifted" ELSE "plain"
ValueOf(line) == IF line = "colon" THEN "rest CR" ELSE "plain CR"

\* Mutant: the array is written from its start for every line.
ReadLineOver ==
  /\ MoreEntries
  /\ kind = "metadata"
  /\ entries[i + 1] \in {"plain", "colon"}
  /\ params' = <<[name |-> NameOf(entries[i + 1]), value |-> ValueOf(entries[i + 1])]>>
  /\ i' = i + 1
  /\ Goto("entries")
  /\ UNCHANGED <<callVars, sendVars, heap, data, output, count, ret>>

(* realloc(), whose NULL replaces the array, strndup() of the name and      *)
(* strndup() of the value, after which it is the name that is looked at.    *)
(* Where the name fails, the value is what realloc() left there.            *)
ReadLine ==
  /\ MoreEntries
  /\ kind = "metadata"
  /\ entries[i + 1] \in {"plain", "colon"}
  /\ LET line == entries[i + 1] IN
     \/ /\ \E value \in {ValueOf(line), NULL} :
             params' = Append(Read, [name |-> NameOf(line), value |-> value])
        /\ i' = i + 1
        /\ Goto("entries")
        /\ UNCHANGED heap
     \/ /\ params' \in {NULL, Append(Read, [name |-> NULL, value |-> "garbage"])}
        /\ heap' = heap \ {"regex"}
        /\ FailAt("cleanup", "OOM")
        /\ UNCHANGED i
  /\ UNCHANGED <<callVars, sendVars, data, output, count, ret>>

\* Mutant: the number of parameters is off by one.
LinesReadOneMore ==
  /\ pc = "entries"
  /\ i = Len(entries)
  /\ kind = "metadata"
  /\ count' = Len(Read) + 1
  /\ heap' = heap \ {"regex"}
  /\ ret' = 0
  /\ Goto("cleanup")
  /\ UNCHANGED <<callVars, i, sendVars, data, output, params>>

LinesRead ==
  /\ pc = "entries"
  /\ i = Len(entries)
  /\ kind = "metadata"
  /\ count' = Len(Read)
  /\ heap' = heap \ {"regex"}
  /\ ret' = 0
  /\ Goto("cleanup")
  /\ UNCHANGED <<callVars, i, sendVars, data, output, params>>

\* Mutant: the form, or the header list, is not freed.
CleanupShort ==
  /\ pc = "cleanup"
  /\ heap' = heap \ {"data", "url", "headers", "file"}
  /\ data' = NULL
  /\ Goto("done")
  /\ UNCHANGED <<callVars, i, sendVars, output, readVars, ret>>

\* The cleanup labels, each freeing what its own function allocated.
Cleanup ==
  /\ pc = "cleanup"
  /\ heap' = heap \ ({"url"} \cup
       CASE kind = "create"   -> {"data", "form"}
         [] kind = "update"   -> {"data", "list"}
         [] kind = "metadata" -> {"file", "headers"}
         [] OTHER             -> {})
  /\ data' = NULL
  /\ Goto("done")
  /\ UNCHANGED <<callVars, i, sendVars, output, readVars, ret>>

\* The call has returned, or the program is no more.
Ended == pc \in {"done", "crashed"} /\ UNCHANGED vars

Next ==
  \/ CheckArguments \/ FindLink \/ BuildUrl \/ BuildForm \/ AddField \/ SkipHeader
  \/ AddHeader \/ EntriesBuilt \/ BuildHref
  \/ TransferFails \/ TransferCrashes \/ TransferSucceeds
  \/ ClassifyAnswer \/ RefusalCrashes \/ ClassifyContent \/ OpenHeaders \/ SkipLine \/ ReadLine
  \/ LinesRead \/ Cleanup \/ Ended

Spec == Init /\ [][Next]_vars

-----------------------------------------------------------------------------
\* The elements of S among the first n of s, in their order.
Kept(s, S, n) ==
  LET kept[k \in 0..Len(s)] ==
        IF k = 0 THEN <<>>
        ELSE IF s[k] \in S THEN Append(kept[k - 1], s[k]) ELSE kept[k - 1]
  IN kept[n]

(* A blob is created, and its metadata updated, with every entry that has a *)
(* value and in the client's order, or nothing is sent at all, wherever the *)
(* form or the header list stops growing.                                   *)
PostedWhole ==
  pc = "transfer" /\ kind \in {"create", "update"} =>
    posted = Kept(entries, {"valued"}, Len(entries))

(* A successful get_metadata gives one parameter for each metadata header   *)
(* that is plain, none for other headers, and the number of them.           *)
PlainMetadataRead ==
  pc = "done" /\ kind = "metadata" /\ ret = 0 /\ ToSet(entries) \subseteq {"plain", "other"} =>
    /\ [n \in DOMAIN Read |-> Read[n].name] = Kept(entries, {"plain"}, Len(entries))
    /\ count = Len(Read)

(* Whatever fails, the form, the header list in use, the answer, the stream *)
(* and the compiled expression are freed; the url is too, but when the      *)
(* transfer of get_content fails.  Header strings outlive no call but       *)
(* update_metadata, and a header list only one that failed.                 *)
TemporariesFreed ==
  pc = "done" =>
    /\ heap \subseteq IF kind = "content" /\ ret = -1 THEN {"url"} ELSE {}
    /\ strings > 0 => kind = "update"
    /\ stranded => kind = "update" /\ ret = -1

(* -1 comes with an error to ask for and 0 without one, in every call.      *)
FailureReported == pc = "done" => (ret = -1 <=> error # None)

(* "output A pointer to an memory location to store the blob contents"      *)
(* (bucket.c:528): what a successful get_content leaves there comes from    *)
(* this answer, it is not what an earlier call left.                        *)
ContentFresh ==
  pc = "done" /\ kind = "content" /\ ret = 0 => answer # "none" /\ output # "earlier"
=============================================================================
