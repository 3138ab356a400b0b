------------------------------ MODULE Transfer ------------------------------
(***************************************************************************)
(* One call of curl_action.c: do_get_post_url, delete_url,                 *)
(* do_multipart_post_url or head_url, through internal_curl_setup, the     *)
(* callbacks libcurl makes while it performs the transfer, and the cleanup.*)
(* Every allocation and every libcurl call may fail.  The texts the server *)
(* sends are sequences of the pieces libcurl delivers them in, one of      *)
(* which may be a NUL byte.  error is what is handed to set_error(), whose *)
(* own allocation is ErrorSlot's.                                          *)
(***************************************************************************)
EXTENDS TransferResults, SequencesExt

CONSTANTS
  Methods,          \* which of the five entry points are called
  MaxPieces,        \* bound on the pieces of a body or of the headers
  MaxInHeaders,     \* bound on the headers the caller adds (inheader)
  Garbage,          \* the content of a struct memory before its memset
  Crashed           \* the outcome of a call that dereferenced NULL

ASSUME BoundsAssumption ==
  /\ Methods \subseteq {"GET", "POST", "DELETE", "MULTIPART", "HEAD"}
  /\ MaxPieces \in Nat
  /\ MaxInHeaders \in Nat

VARIABLES
  pc,           \* where the call is
  method,       \* the entry point
  inheaders,    \* the number of headers the caller gave
  named,        \* neither driver nor provider is NULL
  response,     \* the pieces the server will send
  curl,         \* the easy handle is open
  curr,         \* the caller's headers gone through
  headers,      \* the header list *headers points at
  orphans,      \* list entries allocated that nothing points at
  listdata,     \* strdup'd header lines that nothing frees
  chunk,        \* body received so far, <<>> for a NULL buffer
  header_chunk, \* headers received so far
  sent,         \* the header list the request went out with
  ret, error, returndata, returnheader

vars == <<pc, method, inheaders, named, response, curl, curr, headers, orphans, listdata,
          chunk, header_chunk, sent, ret, error, returndata, returnheader>>
outVars == <<ret, error, returndata, returnheader>>
callVars == <<method, inheaders, named, response>>
listVars == <<curr, headers, orphans, listdata>>

-----------------------------------------------------------------------------
DefaultHeaders == <<"Accept", "X-Deltacloud-Driver", "X-Deltacloud-Provider">>

AppendPc == <<"append1", "append2", "append3">>

WantsBody == method # "HEAD"
WantsHeader == method \in {"GET", "POST", "HEAD"}
ReturnsHeader == method \in {"POST", "HEAD"}

errcode ==
  CASE method = "POST"      -> "POST_URL"
    [] method = "DELETE"    -> "DELETE_URL"
    [] method = "MULTIPART" -> "MULTIPART_POST_URL"
    [] OTHER                -> "GET_URL"

\* What a call of this entry point reports.
Reported == {errcode, "OOM"}

Errors == {"GET_URL", "POST_URL", "DELETE_URL", "MULTIPART_POST_URL", "OOM"}

\* A text in its pieces, with a NUL byte between two of them or without one.
Nul == <<"nul", 0>>
Pieces(kind) ==
  {[i \in 1..n |-> IF i = z THEN Nul ELSE <<kind, i>>] : n, z \in 0..MaxPieces}

(* A buffer as the C string strdup() takes it for: memory_callback puts a   *)
(* NUL byte behind what it received, and the first one is where it ends.    *)
(* There is no buffer, and no string, as long as nothing was received.      *)
CString(text) ==
  LET buffer == Append(text, Nul)
  IN IF text = <<>> THEN <<>>
     ELSE SubSeq(buffer, 1, Min({i \in DOMAIN buffer : buffer[i] = Nul}))
CStrings(kind) == {CString(text) : text \in Pieces(kind)}

ASSUME GarbageAssumption == Garbage \notin Pieces("body") \cup Pieces("header")

(* The types; no counter exceeds what the call can allocate.                *)
TypeOK ==
  /\ pc \in {"init", "url", "append1", "append2", "append3", "check",
             "options", "unwind", "inheader", "method",
             "perform", "copy", "cleanup", "done", "crashed"}
  /\ method \in Methods
  /\ inheaders \in 0..MaxInHeaders
  /\ named \in BOOLEAN
  /\ response \in [header : Pieces("header"), body : Pieces("body")]
  /\ curl \in BOOLEAN
  /\ curr \in 0..inheaders
  /\ headers \in Seq({DefaultHeaders[i] : i \in 1..3} \cup {"inheader"})
  /\ orphans \in 0..(3 + inheaders)
  /\ listdata \in 0..inheaders
  /\ chunk \in Pieces("body") \cup {Garbage}
  /\ header_chunk \in Pieces("header") \cup {Garbage}
  /\ ret \in {-1, 0}
  /\ error \in Errors \cup {None}
  /\ returndata \in CStrings("body") \cup {NULL}
  /\ returnheader \in CStrings("header") \cup {NULL}

(* A call: only post_url_with_headers() passes inheader, and a HEAD request *)
(* has no body to receive.  The driver and the provider are those of an api *)
(* that deltacloud_initialize() may have left without them.                 *)
Init ==
  /\ pc = "init"
  /\ method \in Methods
  /\ inheaders \in IF method = "POST" THEN 0..MaxInHeaders ELSE {0}
  /\ named \in BOOLEAN
  /\ response \in [header : Pieces("header"),
                   body : IF method = "HEAD" THEN {<<>>} ELSE Pieces("body")]
  /\ curl = FALSE
  /\ curr = 0
  /\ headers = <<>>
  /\ orphans = 0
  /\ listdata = 0
  /\ chunk = Garbage
  /\ header_chunk = Garbage
  /\ sent = <<>>
  /\ ret = -1
  /\ error = None
  /\ returndata = NULL
  /\ returnheader = NULL

(* The call as its callers see it: the texts the server sends it as far as  *)
(* C strings hold them, and what it left them once it has returned.         *)
answerBar == [body |-> CString(response.body), header |-> CString(response.header)]

outcomeBar ==
  CASE pc = "done"    -> [ret |-> ret, data |-> returndata, header |-> returnheader,
                          error |-> error]
    [] pc = "crashed" -> Crashed
    [] OTHER          -> NULL

Contract == INSTANCE UrlTransfer
              WITH answer <- answerBar, errors <- Reported, outcome <- outcomeBar

-----------------------------------------------------------------------------
\* The call reports error e and goes on at label.
FailAt(label, e) ==
  /\ error' = e
  /\ pc' = label
  /\ UNCHANGED <<ret, returndata, returnheader>>

Goto(label) ==
  /\ pc' = label
  /\ UNCHANGED outVars

-----------------------------------------------------------------------------
(* internal_curl_setup                                                      *)
\* strcat() of the name of the driver, then of the provider.
NameDriverMissing ==
  /\ pc = "init" /\ ~named
  /\ Goto("crashed")
  /\ UNCHANGED <<callVars, curl, listVars, chunk, header_chunk, sent>>

EasyInit ==
  /\ pc = "init" /\ named
  /\ \/ curl' = TRUE /\ Goto("url")
     \/ curl' = FALSE /\ FailAt("done", errcode)
  /\ UNCHANGED <<callVars, listVars, chunk, header_chunk, sent>>

SetUrl ==
  /\ pc = "url"
  /\ Goto("append1") \/ FailAt("unwind", errcode)
  /\ UNCHANGED <<callVars, curl, listVars, chunk, header_chunk, sent>>

(* curl_slist_append of one entry: without memory it returns NULL and       *)
(* leaves the old list alone, which is then unreachable.                    *)
AppendSucceeds(entry) ==
  /\ headers' = Append(headers, entry)
  /\ UNCHANGED orphans

AppendFails ==
  /\ headers' = <<>>
  /\ orphans' = orphans + Len(headers)

\* The three appends in turn: only the last result is looked at.
AppendHeader(i) ==
  /\ pc = AppendPc[i]
  /\ AppendSucceeds(DefaultHeaders[i]) \/ AppendFails
  /\ Goto(IF i < 3 THEN AppendPc[i + 1] ELSE "check")
  /\ UNCHANGED <<callVars, curl, curr, listdata, chunk, header_chunk, sent>>

CheckHeaders ==
  /\ pc = "check"
  /\ IF headers = <<>> THEN FailAt("unwind", errcode) ELSE Goto("options")
  /\ UNCHANGED <<callVars, curl, listVars, chunk, header_chunk, sent>>

\* Mutant: the buffers are not cleared.
SetOptionsOnly ==
  /\ pc = "options"
  /\ \/ Goto(IF inheaders > 0 THEN "inheader" ELSE "method")
     \/ \E e \in {errcode, "OOM"} : FailAt("unwind", e)
  /\ UNCHANGED <<callVars, curl, listVars, chunk, header_chunk, sent>>

\* CURLOPT_HTTPHEADER, the credentials and the callbacks.
SetOptions ==
  /\ pc = "options"
  /\ \/ /\ chunk' = IF WantsBody THEN <<>> ELSE chunk
        /\ header_chunk' = IF WantsHeader THEN <<>> ELSE header_chunk
        /\ Goto(IF inheaders > 0 THEN "inheader" ELSE "method")
     \/ /\ chunk' \in IF WantsBody THEN {chunk, <<>>} ELSE {chunk}
        /\ header_chunk' \in IF WantsHeader THEN {header_chunk, <<>>} ELSE {header_chunk}
        /\ \E e \in {errcode, "OOM"} : FailAt("unwind", e)
  /\ UNCHANGED <<callVars, curl, listVars, sent>>

\* The error label of internal_curl_setup.
Unwind ==
  /\ pc = "unwind"
  /\ headers' = <<>>
  /\ curl' = FALSE
  /\ Goto("done")
  /\ UNCHANGED <<callVars, curr, orphans, listdata, chunk, header_chunk, sent>>

-----------------------------------------------------------------------------
\* The header gone through was the caller's last.
AfterHeader == IF curr' = inheaders THEN "method" ELSE "inheader"

\* Mutant: a failing append is not looked at.
AddInHeaderUnchecked ==
  /\ pc = "inheader"
  /\ curr' = curr + 1
  /\ listdata' = listdata + 1
  /\ AppendSucceeds("inheader") \/ AppendFails
  /\ Goto(AfterHeader)
  /\ UNCHANGED <<callVars, curl, chunk, header_chunk, sent>>

\* Mutant: the loop goes through the caller's headers once too often.
AddInHeaderOnceMore ==
  /\ pc = "inheader"
  /\ curr' = curr + 1
  /\ listdata' = listdata + 1
  /\ AppendSucceeds("inheader")
  /\ Goto(IF curr = inheaders THEN "method" ELSE "inheader")
  /\ UNCHANGED <<callVars, curl, chunk, header_chunk, sent>>

\* Mutant: only the first of the caller's headers is added.
AddInHeaderFirst ==
  /\ pc = "inheader"
  /\ curr' = curr + 1
  /\ listdata' = listdata + 1
  /\ AppendSucceeds("inheader")
  /\ Goto("method")
  /\ UNCHANGED <<callVars, curl, chunk, header_chunk, sent>>

(* The entry points after the setup.                                        *)
\* One header of the caller: a strdup, which libcurl copies again.
AddInHeader ==
  /\ pc = "inheader"
  /\ \/ /\ curr' = curr + 1
        /\ listdata' = listdata + 1
        /\ AppendSucceeds("inheader")
        /\ Goto(AfterHeader)
     \/ /\ UNCHANGED listVars
        /\ FailAt("cleanup", "OOM")
     \/ /\ listdata' = listdata + 1
        /\ AppendFails
        /\ UNCHANGED curr
        /\ FailAt("cleanup", errcode)
  /\ UNCHANGED <<callVars, curl, chunk, header_chunk, sent>>

\* The options that make the request a POST, DELETE, multipart or HEAD.
SetMethod ==
  /\ pc = "method"
  /\ \/ sent' = headers /\ Goto("perform")
     \/ method # "GET" /\ FailAt("cleanup", errcode) /\ UNCHANGED sent
  /\ UNCHANGED <<callVars, curl, listVars, chunk, header_chunk>>

\* memory_callback on the header stream; libcurl delivers headers first.
ReceiveHeader ==
  /\ pc = "perform"
  /\ WantsHeader
  /\ Len(header_chunk) < Len(response.header)
  /\ \/ /\ header_chunk' = Append(header_chunk, response.header[Len(header_chunk) + 1])
        /\ UNCHANGED <<pc, outVars>>
     \/ /\ UNCHANGED header_chunk
        /\ FailAt("cleanup", errcode)
  /\ UNCHANGED <<callVars, curl, listVars, chunk, sent>>

HeadersReceived == WantsHeader => Len(header_chunk) = Len(response.header)

\* memory_callback on the body; without memory it makes libcurl give up.
ReceiveBody ==
  /\ pc = "perform"
  /\ WantsBody /\ HeadersReceived
  /\ Len(chunk) < Len(response.body)
  /\ \/ /\ chunk' = Append(chunk, response.body[Len(chunk) + 1])
        /\ UNCHANGED <<pc, outVars>>
     \/ /\ UNCHANGED chunk
        /\ FailAt("cleanup", errcode)
  /\ UNCHANGED <<callVars, curl, listVars, header_chunk, sent>>

\* curl_easy_perform fails: no connection, a reset, a truncated answer.
PerformFails ==
  /\ pc = "perform"
  /\ FailAt("cleanup", errcode)
  /\ UNCHANGED <<callVars, curl, listVars, chunk, header_chunk, sent>>

\* Mutant: the result of curl_easy_perform is not looked at.
PerformUnchecked ==
  /\ pc = "perform"
  /\ Goto("copy")
  /\ UNCHANGED <<callVars, curl, listVars, chunk, header_chunk, sent>>

PerformSucceeds ==
  /\ pc = "perform"
  /\ HeadersReceived
  /\ WantsBody => Len(chunk) = Len(response.body)
  /\ Goto("copy")
  /\ UNCHANGED <<callVars, curl, listVars, chunk, header_chunk, sent>>

\* strdup() of the buffers as C strings: either may fail, the call returns 0.
CopyResults ==
  /\ pc = "copy"
  /\ returndata' \in IF WantsBody THEN CopyOf(CString(chunk)) ELSE {NULL}
  /\ returnheader' \in IF ReturnsHeader THEN CopyOf(CString(header_chunk)) ELSE {NULL}
  /\ ret' = 0
  /\ pc' = "cleanup"
  /\ UNCHANGED <<callVars, curl, listVars, chunk, header_chunk, sent, error>>

\* Mutant: the headers received are not freed.
CleanupBodyOnly ==
  /\ pc = "cleanup"
  /\ chunk' = IF WantsBody THEN <<>> ELSE chunk
  /\ headers' = <<>>
  /\ curl' = FALSE
  /\ Goto("done")
  /\ UNCHANGED <<callVars, curr, orphans, listdata, header_chunk, sent>>

Cleanup ==
  /\ pc = "cleanup"
  /\ chunk' = IF WantsBody THEN <<>> ELSE chunk
  /\ header_chunk' = IF WantsHeader THEN <<>> ELSE header_chunk
  /\ headers' = <<>>
  /\ curl' = FALSE
  /\ Goto("done")
  /\ UNCHANGED <<callVars, curr, orphans, listdata, sent>>

\* The call has returned, or the program is gone.
Returned == pc \in {"done", "crashed"} /\ UNCHANGED vars

Next ==
  \/ NameDriverMissing \/ EasyInit \/ SetUrl \/ (\E i \in 1..3 : AppendHeader(i)) \/ CheckHeaders
  \/ SetOptions \/ Unwind
  \/ AddInHeader \/ SetMethod
  \/ ReceiveHeader \/ ReceiveBody \/ PerformFails \/ PerformSucceeds
  \/ CopyResults \/ Cleanup \/ Returned

Spec == Init /\ [][Next]_vars

-----------------------------------------------------------------------------
(* When a call returns, on whatever path, the handle is closed and neither  *)
(* the list in use nor a receive buffer is left behind.                     *)
Released ==
  pc = "done" =>
    /\ ~curl
    /\ headers = <<>>
    /\ chunk \in {<<>>, Garbage}
    /\ header_chunk \in {<<>>, Garbage}

(* cleanup frees only buffers that internal_curl_setup has initialised.     *)
BuffersInitialised ==
  pc \in {"inheader", "method", "perform", "copy", "cleanup"} =>
    /\ WantsBody => chunk # Garbage
    /\ WantsHeader => header_chunk # Garbage

(* Wherever an append fails, a request that is sent names its provider and  *)
(* carries every header the caller gave; what it may lack is the first or   *)
(* the first two of the library's own, lost by an append before the last.   *)
HeadersSent ==
  pc = "perform" =>
    \E k \in 1..3 : sent = SubSeq(DefaultHeaders, k, 3) \o [i \in 1..inheaders |-> "inheader"]

(* Every call is one transfer of the contract its callers rely on: what it  *)
(* hands over is what was sent, up to its first NUL byte, or nothing; its   *)
(* error is of its own method or of memory; and it stops the program when   *)
(* the api lost its driver or its provider, and only then.                  *)
TransferContract == Contract!Spec
=============================================================================
