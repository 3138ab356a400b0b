---------------------------- MODULE TransferProofs ----------------------------
(***************************************************************************)
(* Proofs about Transfer for answers in any number of pieces and any       *)
(* number of headers of the caller.                                        *)
(***************************************************************************)
EXTENDS Transfer, SequenceTheorems, TLAPS

(* A buffer of kind k, once libcurl has delivered some of text.             *)
Received(buffer, text, k) ==
  /\ buffer \in Pieces(k) /\ Len(buffer) <= Len(text)
  /\ \A i \in 1..Len(buffer) : buffer[i] = text[i]

Started == {"inheader", "method", "perform", "copy", "cleanup"}

(* What is in the buffers: nothing but what was sent, and all of it when    *)
(* the transfer has succeeded.                                              *)
BufferInv ==
  /\ method \in Methods
  /\ response.body \in Pieces("body") /\ response.header \in Pieces("header")
  /\ method = "HEAD" => response.body = <<>>
  /\ ~WantsBody => chunk = Garbage
  /\ ~WantsHeader => header_chunk = Garbage
  /\ pc \in Started =>
       /\ WantsBody => Received(chunk, response.body, "body")
       /\ WantsHeader => Received(header_chunk, response.header, "header")
  /\ pc = "copy" =>
       /\ WantsBody => Len(chunk) = Len(response.body)
       /\ WantsHeader => Len(header_chunk) = Len(response.header)
  /\ pc \notin Started => chunk \in {<<>>, Garbage} /\ header_chunk \in {<<>>, Garbage}

(* A call that has failed, and one that has succeeded, before it returns.   *)
HasFailed == ret = -1 /\ error \in Reported /\ returndata = NULL /\ returnheader = NULL
HasSucceeded ==
  /\ ret = 0 /\ error = None
  /\ returndata \in CopyOf(CString(response.body))
  /\ returnheader \in CopyOf(CString(response.header)) \cup {NULL}

OutcomeInv ==
  /\ pc \in {"cleanup", "unwind", "done"} => HasFailed \/ HasSucceeded
  /\ pc \notin {"cleanup", "unwind", "done"} =>
       ret = -1 /\ error = None /\ returndata = NULL /\ returnheader = NULL

HandleInv ==
  /\ pc = "init" => headers = <<>>
  /\ pc = "done" => ~curl /\ headers = <<>>

(* The header list.  While the library's own headers are appended it is     *)
(* what is left of them: a failing append loses those before it.  After     *)
(* that the list is only extended, until the request goes out with it.      *)
Stages == <<"append1", "append2", "append3", "check">>
Entries == {DefaultHeaders[i] : i \in 1..3} \cup {"inheader"}
CallerHeaders(n) == [i \in 1..n |-> "inheader"]
OwnLeft(i) == \E k \in 1..i : headers = SubSeq(DefaultHeaders, k, i - 1)
ListOf(n) == \E k \in 1..3 : headers = SubSeq(DefaultHeaders, k, 3) \o CallerHeaders(n)

HeadersInv ==
  /\ headers \in Seq(Entries)
  /\ \A i \in 1..4 : pc = Stages[i] => OwnLeft(i)
  /\ pc = "options" => \E k \in 1..3 : headers = SubSeq(DefaultHeaders, k, 3)
  /\ pc = "inheader" => ListOf(curr)
  /\ pc \in {"method", "perform"} => ListOf(inheaders)
  /\ pc = "perform" => sent = headers

(* No entry, lost or listed, was allocated but by an append, and the loop   *)
(* over the caller's headers stops at the last of them.                     *)
CountInv ==
  /\ orphans \in Nat /\ inheaders \in 0..MaxInHeaders
  /\ curr \in 0..inheaders /\ listdata \in 0..inheaders
  /\ pc \in {"init", "url"} => headers = <<>> /\ orphans = 0
  /\ \A i \in 1..4 : pc = Stages[i] => orphans + Len(headers) <= i - 1
  /\ orphans + Len(headers) <= 3 + listdata
  /\ pc \notin Started \cup {"done"} => curr = 0 /\ listdata = 0
  /\ pc = "inheader" => listdata = curr /\ curr < inheaders

(* Where a call can be, and what it never changes.                          *)
Labels == {"init", "url", "append1", "append2", "append3", "check", "options", "unwind",
           "inheader", "method", "perform", "copy", "cleanup", "done", "crashed"}
CallInv ==
  /\ pc \in Labels /\ curl \in BOOLEAN /\ named \in BOOLEAN
  /\ pc = "crashed" <=> ~named /\ pc # "init"
  /\ response \in [header : Pieces("header"), body : Pieces("body")]

IInv == BufferInv /\ OutcomeInv /\ HandleInv /\ HeadersInv /\ CountInv /\ CallInv

-----------------------------------------------------------------------------
(* A text is a sequence of no more than MaxPieces pieces.                   *)
LEMMA PiecesLength ==
  ASSUME NEW k, NEW p \in Pieces(k)
  PROVE  Len(p) \in 0..MaxPieces /\ p = [i \in 1..Len(p) |-> p[i]]
<1>1. PICK n \in 0..MaxPieces, z \in 0..MaxPieces :
        p = [i \in 1..n |-> IF i = z THEN Nul ELSE <<k, i>>]
  BY DEF Pieces
<1>2. n \in Nat
  BY BoundsAssumption
<1>3. Len(p) = n
  BY <1>1, <1>2
<1> QED BY <1>1, <1>3

(* All of a text is the text.                                               *)
LEMMA AllReceived ==
  ASSUME NEW k, NEW buffer, NEW text \in Pieces(k), Received(buffer, text, k),
         Len(buffer) = Len(text)
  PROVE  buffer = text
<1>1. buffer = [i \in 1..Len(buffer) |-> buffer[i]] /\ text = [i \in 1..Len(text) |-> text[i]]
  BY PiecesLength DEF Received
<1>2. \A i \in 1..Len(buffer) : buffer[i] = text[i]
  BY DEF Received
<1> QED BY <1>1, <1>2

(* One more piece of what is sent.                                          *)
LEMMA PieceReceived ==
  ASSUME NEW k, NEW buffer, NEW text \in Pieces(k), Received(buffer, text, k),
         Len(buffer) < Len(text)
  PROVE  Received(Append(buffer, text[Len(buffer) + 1]), text, k)
<1> DEFINE n == Len(buffer)
           piece(z, i) == IF i = z THEN Nul ELSE <<k, i>>
           more == Append(buffer, text[n + 1])
<1>1. PICK m \in 0..MaxPieces, z \in 0..MaxPieces : text = [i \in 1..m |-> piece(z, i)]
  BY DEF Pieces
<1>2. n \in Nat /\ m \in Nat /\ Len(text) = m /\ MaxPieces \in Nat
  BY <1>1, PiecesLength, BoundsAssumption DEF Received
<1>3. buffer = [i \in 1..n |-> piece(z, i)]
  <2>1. buffer = [i \in 1..n |-> buffer[i]]
    BY PiecesLength DEF Received
  <2>2. \A i \in 1..n : buffer[i] = text[i] /\ i \in 1..m
    BY <1>2 DEF Received
  <2>3. \A i \in 1..n : buffer[i] = piece(z, i)
    BY <1>1, <2>2
  <2> QED BY <2>1, <2>3
<1>4. text[n + 1] = piece(z, n + 1)
  BY <1>1, <1>2
<1> HIDE DEF piece
<1>5. more = [i \in 1..(n + 1) |-> piece(z, i)]
  BY <1>2, <1>3, <1>4
<1>6. more \in Pieces(k) /\ n + 1 \in 0..MaxPieces
  <2>1. n + 1 \in 0..MaxPieces
    BY <1>2
  <2> QED BY <1>5, <2>1 DEF Pieces, piece
<1>7. Len(more) = n + 1
  BY <1>2, <1>5
<1>8. ASSUME NEW i \in 1..(n + 1) PROVE more[i] = text[i]
  <2>1. i \in 1..m
    BY <1>2
  <2>2. more[i] = piece(z, i)
    BY <1>5
  <2>3. text[i] = piece(z, i)
    BY <1>1, <2>1
  <2> QED BY <2>2, <2>3
<1> QED BY <1>2, <1>6, <1>7, <1>8 DEF Received

(* No text is among the texts.                                              *)
LEMMA NoText == ASSUME NEW k PROVE <<>> \in Pieces(k)
<1>1. <<>> = [i \in 1..0 |-> IF i = 0 THEN Nul ELSE <<k, i>>] /\ 0 \in 0..MaxPieces
  BY BoundsAssumption
<1> QED BY <1>1 DEF Pieces

(* An empty buffer has received nothing yet.                                *)
LEMMA NothingReceived ==
  ASSUME NEW k, NEW text \in Pieces(k)
  PROVE  Received(<<>>, text, k)
<1>1. Len(<<>>) = 0 /\ Len(text) >= 0
  BY PiecesLength, BoundsAssumption
<1> QED BY <1>1, NoText DEF Received

(* The invariant holds before the call.                                     *)
LEMMA InvInit == Init => IInv
<1> SUFFICES ASSUME Init PROVE IInv
  OBVIOUS
<1>1. BufferInv
  <2>1. <<>> \in Pieces("body")
    BY NoText
  <2>2. /\ response.body \in Pieces("body") /\ response.header \in Pieces("header")
        /\ method = "HEAD" => response.body = <<>>
    BY <2>1 DEF Init
  <2> QED BY <2>2 DEF Init, BufferInv, Started
<1>2. OutcomeInv /\ HandleInv
  BY DEF Init, OutcomeInv, HandleInv
<1>3. HeadersInv /\ CountInv
  <2>1. /\ pc = "init" /\ headers = <<>> /\ orphans = 0 /\ curr = 0 /\ listdata = 0
        /\ inheaders \in 0..MaxInHeaders /\ MaxInHeaders \in Nat
    BY BoundsAssumption DEF Init
  <2> QED BY <2>1 DEF HeadersInv, CountInv, Stages, Started
<1>4. CallInv
  <2>1. <<>> \in Pieces("body")
    BY NoText
  <2> QED BY <2>1 DEF Init, CallInv, Labels
<1> QED BY <1>1, <1>2, <1>3, <1>4 DEF IInv

(* A transfer's error is one a caller knows.                                *)
LEMMA ErrcodeKnown == errcode \in Reported /\ "OOM" \in Reported /\ Reported \subseteq Errors
BY DEF errcode, Reported, Errors

(* No step changes what the call was given, or what the server will send.   *)
LEMMA CallKept ==
  [Next]_vars => UNCHANGED <<method, named, response, inheaders>> /\ Reported' = Reported
<1> SUFFICES ASSUME [Next]_vars
             PROVE  UNCHANGED <<method, named, response, inheaders>> /\ Reported' = Reported
  OBVIOUS
<1>1. UNCHANGED <<method, named, response, inheaders>>
  BY DEF Next, vars, NameDriverMissing, EasyInit, SetUrl, AppendHeader, CheckHeaders, SetOptions, Unwind, AddInHeader,
         SetMethod, ReceiveHeader, ReceiveBody, PerformFails, PerformSucceeds, CopyResults, Cleanup,
         Returned, callVars
<1> QED BY <1>1 DEF Reported, errcode

(* What every step but the three that fill or free buffers does to them.    *)
LEMMA BuffersKept ==
  ASSUME BufferInv, UNCHANGED <<method, response, chunk, header_chunk>>,
         pc \in Started <=> pc' \in Started, pc' = "copy" => pc = "copy"
  PROVE  BufferInv'
BY DEF BufferInv, Received, WantsBody, WantsHeader

(* Every step keeps what is known of the buffers.                           *)
LEMMA BufferNext == IInv /\ [Next]_vars => BufferInv'
<1> SUFFICES ASSUME IInv, [Next]_vars PROVE BufferInv'
  OBVIOUS
<1> USE DEF IInv
<1>1. CASE NameDriverMissing \/ EasyInit \/ SetUrl \/ CheckHeaders
  BY <1>1, BuffersKept DEF NameDriverMissing, EasyInit, SetUrl, CheckHeaders, Goto, FailAt, Started, callVars
<1>2. ASSUME NEW i \in 1..3, AppendHeader(i) PROVE BufferInv'
  <2>1. pc \notin Started /\ pc' \notin Started /\ pc' # "copy"
    BY <1>2 DEF AppendHeader, AppendPc, Goto, Started
  <2> QED BY <1>2, <2>1, BuffersKept DEF AppendHeader, callVars
<1>3. CASE SetOptions
  <2>1. pc = "options" /\ UNCHANGED <<method, response>>
    BY <1>3 DEF SetOptions, callVars
  <2>2. /\ WantsBody => chunk' \in {<<>>, chunk}
        /\ WantsHeader => header_chunk' \in {<<>>, header_chunk}
        /\ ~WantsBody => chunk' = chunk
        /\ ~WantsHeader => header_chunk' = header_chunk
    BY <1>3 DEF SetOptions
  <2>3. \/ pc' \in {"inheader", "method"} /\ (WantsBody => chunk' = <<>>) /\ (WantsHeader => header_chunk' = <<>>)
        \/ pc' = "unwind"
    BY <1>3 DEF SetOptions, Goto, FailAt
  <2>4. /\ (WantsBody' <=> WantsBody) /\ (WantsHeader' <=> WantsHeader)
        /\ chunk \in {<<>>, Garbage} /\ header_chunk \in {<<>>, Garbage}
    BY <2>1 DEF WantsBody, WantsHeader, BufferInv, Started
  <2>5. Received(<<>>, response.body, "body") /\ Received(<<>>, response.header, "header")
    BY NothingReceived DEF BufferInv
  <2>6. chunk' \in {<<>>, Garbage} /\ header_chunk' \in {<<>>, Garbage}
    BY <2>2, <2>4
  <2>7. pc' \in Started => (WantsBody' => Received(chunk', response'.body, "body"))
                        /\ (WantsHeader' => Received(header_chunk', response'.header, "header"))
    BY <2>1, <2>3, <2>4, <2>5 DEF Started
  <2>8. /\ method' \in Methods
        /\ response'.body \in Pieces("body") /\ response'.header \in Pieces("header")
        /\ method' = "HEAD" => response'.body = <<>>
        /\ ~WantsBody' => chunk' = Garbage
        /\ ~WantsHeader' => header_chunk' = Garbage
    BY <2>1, <2>2, <2>4 DEF BufferInv
  <2>9. pc' # "copy"
    BY <2>3
  <2> QED BY <2>6, <2>7, <2>8, <2>9 DEF BufferInv, Received
<1>4. CASE Unwind \/ AddInHeader \/ SetMethod \/ PerformFails
  BY <1>4, BuffersKept DEF Unwind, AddInHeader, AfterHeader, SetMethod, PerformFails, Goto, FailAt, Started,
                       callVars
<1>5. CASE ReceiveHeader
  <2>1. /\ pc = "perform" /\ pc' \in {"perform", "cleanup"} /\ WantsHeader
        /\ Len(header_chunk) < Len(response.header)
        /\ UNCHANGED <<method, response, chunk>>
    BY <1>5 DEF ReceiveHeader, FailAt, callVars
  <2>2. header_chunk' \in {header_chunk, Append(header_chunk, response.header[Len(header_chunk) + 1])}
    BY <1>5 DEF ReceiveHeader
  <2>3. Received(header_chunk, response.header, "header") /\ response.header \in Pieces("header")
    BY <2>1 DEF BufferInv, Started
  <2>4. Received(header_chunk', response.header, "header")
    BY <2>1, <2>2, <2>3, PieceReceived
  <2> QED BY <2>1, <2>4 DEF BufferInv, Started, WantsBody, WantsHeader, Received
<1>6. CASE ReceiveBody
  <2>1. /\ pc = "perform" /\ pc' \in {"perform", "cleanup"} /\ WantsBody
        /\ Len(chunk) < Len(response.body)
        /\ UNCHANGED <<method, response, header_chunk>>
    BY <1>6 DEF ReceiveBody, FailAt, callVars
  <2>2. chunk' \in {chunk, Append(chunk, response.body[Len(chunk) + 1])}
    BY <1>6 DEF ReceiveBody
  <2>3. Received(chunk, response.body, "body") /\ response.body \in Pieces("body")
    BY <2>1 DEF BufferInv, Started
  <2>4. Received(chunk', response.body, "body")
    BY <2>1, <2>2, <2>3, PieceReceived
  <2> QED BY <2>1, <2>4 DEF BufferInv, Started, WantsBody, WantsHeader, Received
<1>7. CASE PerformSucceeds
  <2>1. /\ pc = "perform" /\ pc' = "copy" /\ UNCHANGED <<method, response, chunk, header_chunk>>
        /\ WantsBody => Len(chunk) = Len(response.body)
        /\ WantsHeader => Len(header_chunk) = Len(response.header)
    BY <1>7 DEF PerformSucceeds, HeadersReceived, Goto, callVars
  <2> QED BY <2>1 DEF BufferInv, Started, WantsBody, WantsHeader, Received
<1>8. CASE CopyResults
  BY <1>8, BuffersKept DEF CopyResults, Started, callVars
<1>9. CASE Cleanup
  <2>1. /\ pc = "cleanup" /\ pc' = "done" /\ UNCHANGED <<method, response>>
        /\ chunk' = IF WantsBody THEN <<>> ELSE chunk
        /\ header_chunk' = IF WantsHeader THEN <<>> ELSE header_chunk
    BY <1>9 DEF Cleanup, Goto, callVars
  <2> QED BY <2>1 DEF BufferInv, Started, WantsBody, WantsHeader
<1>10. CASE UNCHANGED vars
  BY <1>10, BuffersKept DEF vars
<1> QED BY <1>1, <1>2, <1>3, <1>4, <1>5, <1>6, <1>7, <1>8, <1>9, <1>10 DEF Next, Returned

(* What succeeds hands over the C string of what was sent.                  *)
LEMMA CopyWhole ==
  ASSUME IInv, CopyResults
  PROVE  OutcomeInv'
<1>1. pc = "copy" /\ pc' = "cleanup" /\ ret' = 0 /\ error' = error /\ response' = response
  BY DEF CopyResults, callVars
<1>2. error = None
  BY <1>1 DEF IInv, OutcomeInv
<1>3. WantsBody => chunk = response.body
  BY <1>1, AllReceived DEF IInv, BufferInv, Started
<1>4. WantsHeader => header_chunk = response.header
  BY <1>1, AllReceived DEF IInv, BufferInv, Started
<1>5. returndata' \in CopyOf(CString(response.body))
  <2>1. CASE WantsBody
    BY <1>3, <2>1 DEF CopyResults
  <2>2. CASE ~WantsBody
    BY <2>2 DEF CopyResults, CopyOf, CString, WantsBody, IInv, BufferInv
  <2> QED BY <2>1, <2>2
<1>6. returnheader' \in CopyOf(CString(response.header)) \cup {NULL}
  <2>1. CASE ReturnsHeader
    <3>1. WantsHeader
      BY <2>1 DEF ReturnsHeader, WantsHeader
    <3> QED BY <1>4, <2>1, <3>1 DEF CopyResults
  <2>2. CASE ~ReturnsHeader
    BY <2>2 DEF CopyResults
  <2> QED BY <2>1, <2>2
<1>7. HasSucceeded'
  BY <1>1, <1>2, <1>5, <1>6 DEF HasSucceeded
<1> QED BY <1>1, <1>7 DEF OutcomeInv

(* Every step keeps what is known of the outcome.                           *)
LEMMA OutcomeNext == IInv /\ [Next]_vars => OutcomeInv' /\ HandleInv'
<1> SUFFICES ASSUME IInv, [Next]_vars PROVE OutcomeInv' /\ HandleInv'
  OBVIOUS
<1> USE DEF IInv
<1>1. ASSUME NEW label, label \notin {"init", "cleanup", "unwind", "done"}, Goto(label),
             pc \notin {"cleanup", "unwind", "done"}
      PROVE  OutcomeInv' /\ HandleInv'
  BY <1>1 DEF Goto, outVars, OutcomeInv, HandleInv
<1>2. ASSUME NEW label \in {"cleanup", "unwind"}, NEW e \in Reported, FailAt(label, e),
             pc \notin {"cleanup", "unwind", "done"}
      PROVE  OutcomeInv' /\ HandleInv'
  BY <1>2, CallKept DEF FailAt, OutcomeInv, HasFailed, HandleInv
<1>16. CASE NameDriverMissing
  BY <1>1, <1>16 DEF NameDriverMissing
<1>3. CASE EasyInit
  <2>1. CASE Goto("url")
    BY <1>1, <1>3, <2>1 DEF EasyInit
  <2>2. CASE curl' = FALSE /\ FailAt("done", errcode)
    <3>1. pc = "init" /\ headers' = headers
      BY <1>3 DEF EasyInit, listVars
    <3>2. OutcomeInv'
      BY <2>2, <3>1, ErrcodeKnown, CallKept DEF FailAt, OutcomeInv, HasFailed
    <3> QED BY <2>2, <3>1, <3>2 DEF HandleInv
  <2> QED BY <1>3, <2>1, <2>2 DEF EasyInit
<1>4. CASE SetUrl
  BY <1>1, <1>2, <1>4, ErrcodeKnown DEF SetUrl
<1>5. ASSUME NEW i \in 1..3, AppendHeader(i) PROVE OutcomeInv' /\ HandleInv'
  <2>1. PICK label \in {"append2", "append3", "check"} : Goto(label)
    BY <1>5 DEF AppendHeader, AppendPc
  <2>2. pc \in {"append1", "append2", "append3"}
    BY <1>5 DEF AppendHeader, AppendPc
  <2> QED BY <1>1, <2>1, <2>2
<1>6. CASE CheckHeaders
  BY <1>1, <1>2, <1>6, ErrcodeKnown DEF CheckHeaders
<1>7. CASE SetOptions
  <2>1. pc = "options"
    BY <1>7 DEF SetOptions
  <2>2. \/ \E label \in {"inheader", "method"} : Goto(label)
        \/ \E e \in {errcode, "OOM"} : FailAt("unwind", e)
    BY <1>7 DEF SetOptions
  <2>3. {errcode, "OOM"} \subseteq Reported
    BY ErrcodeKnown
  <2> QED BY <1>1, <1>2, <2>1, <2>2, <2>3
<1>8. CASE Unwind \/ Cleanup
  <2>1. /\ pc \in {"unwind", "cleanup"} /\ pc' = "done" /\ curl' = FALSE /\ headers' = <<>>
        /\ UNCHANGED <<ret, error, returndata, returnheader, response>>
    BY <1>8 DEF Unwind, Cleanup, Goto, outVars, callVars
  <2> QED BY <2>1, CallKept DEF OutcomeInv, HasFailed, HasSucceeded, HandleInv
<1>9. CASE AddInHeader
  <2>1. pc = "inheader"
    BY <1>9 DEF AddInHeader
  <2>2. \/ \E label \in {"inheader", "method"} : Goto(label)
        \/ \E e \in {errcode, "OOM"} : FailAt("cleanup", e)
    BY <1>9 DEF AddInHeader, AfterHeader
  <2>3. {errcode, "OOM"} \subseteq Reported
    BY ErrcodeKnown
  <2> QED BY <1>1, <1>2, <2>1, <2>2, <2>3
<1>10. CASE SetMethod
  BY <1>1, <1>2, <1>10, ErrcodeKnown DEF SetMethod
<1>11. CASE ReceiveHeader \/ ReceiveBody
  <2>1. pc = "perform" /\ (UNCHANGED <<pc, outVars>> \/ FailAt("cleanup", errcode))
    BY <1>11 DEF ReceiveHeader, ReceiveBody
  <2> QED BY <1>2, <2>1, ErrcodeKnown DEF outVars, OutcomeInv, HandleInv
<1>12. CASE PerformFails
  BY <1>2, <1>12, ErrcodeKnown DEF PerformFails
<1>13. CASE PerformSucceeds
  BY <1>1, <1>13 DEF PerformSucceeds
<1>14. CASE CopyResults
  BY <1>14, CopyWhole DEF CopyResults, HandleInv
<1>15. CASE UNCHANGED vars
  BY <1>15, CallKept DEF vars, OutcomeInv, HasFailed, HasSucceeded, HandleInv
<1> QED BY <1>3, <1>4, <1>5, <1>6, <1>7, <1>8, <1>9, <1>10, <1>11, <1>12, <1>13, <1>14, <1>15,
          <1>16 DEF Next, Returned

-----------------------------------------------------------------------------
(* What is left of the library's own headers after append i.                *)
LEMMA OwnHeaders ==
  ASSUME NEW i \in 1..3
  PROVE  /\ \A k \in 1..i : Append(SubSeq(DefaultHeaders, k, i - 1), DefaultHeaders[i])
                              = SubSeq(DefaultHeaders, k, i)
         /\ SubSeq(DefaultHeaders, i + 1, i) = <<>>
         /\ DefaultHeaders[i] \in Entries
<1>1. DefaultHeaders \in Seq(Entries) /\ Len(DefaultHeaders) = 3 /\ DefaultHeaders[i] \in Entries
  BY DEF DefaultHeaders, Entries
<1>2. ASSUME NEW k \in 1..i
      PROVE  Append(SubSeq(DefaultHeaders, k, i - 1), DefaultHeaders[i]) = SubSeq(DefaultHeaders, k, i)
  <2> DEFINE before == SubSeq(DefaultHeaders, k, i - 1)
             after == SubSeq(DefaultHeaders, k, i)
  <2>1. /\ before \in Seq(Entries) /\ Len(before) = i - k
        /\ \A j \in 1..(i - k) : before[j] = DefaultHeaders[k + j - 1]
    <3>1. k \in Int /\ i - 1 \in Int /\ \A j \in k..(i - 1) : DefaultHeaders[j] \in Entries
      BY DEF Entries
    <3>2. /\ before \in Seq(Entries)
          /\ Len(before) = IF k <= i - 1 THEN (i - 1) - k + 1 ELSE 0
          /\ \A j \in 1..((i - 1) - k + 1) : before[j] = DefaultHeaders[k + j - 1]
      BY <3>1, SubSeqProperties
    <3> HIDE DEF before
    <3>3. (i - 1) - k + 1 = i - k /\ (k <= i - 1 \/ i - k = 0)
      OBVIOUS
    <3> QED BY <3>2, <3>3
  <2>2. /\ after \in Seq(Entries) /\ Len(after) = i - k + 1
        /\ \A j \in 1..(i - k + 1) : after[j] = DefaultHeaders[k + j - 1]
    <3>1. k \in Int /\ i \in Int /\ \A j \in k..i : DefaultHeaders[j] \in Entries
      BY DEF Entries
    <3>2. /\ after \in Seq(Entries)
          /\ Len(after) = IF k <= i THEN i - k + 1 ELSE 0
          /\ \A j \in 1..(i - k + 1) : after[j] = DefaultHeaders[k + j - 1]
      BY <3>1, SubSeqProperties
    <3> HIDE DEF after
    <3> QED BY <3>2
  <2>3. Append(before, DefaultHeaders[i]) \in Seq(Entries)
        /\ Len(Append(before, DefaultHeaders[i])) = Len(after)
    BY <1>1, <2>1, <2>2
  <2>4. ASSUME NEW j \in 1..Len(after) PROVE Append(before, DefaultHeaders[i])[j] = after[j]
    <3>1. CASE j <= i - k
      BY <1>1, <2>1, <2>2, <3>1
    <3>2. CASE j = i - k + 1
      BY <1>1, <2>1, <2>2, <3>2
    <3> QED BY <2>2, <3>1, <3>2
  <2> HIDE DEF before, after
  <2>5. Append(before, DefaultHeaders[i]) = after
    BY <2>2, <2>3, <2>4
  <2> QED BY <2>5 DEF before, after
<1>3. SubSeq(DefaultHeaders, i + 1, i) = <<>>
  BY SubSeqEmpty
<1> QED BY <1>1, <1>2, <1>3

(* One more of the caller's headers at the end of a list.                   *)
LEMMA OneMoreHeader ==
  ASSUME NEW own \in Seq(Entries), NEW n \in Nat
  PROVE  Append(own \o CallerHeaders(n), "inheader") = own \o CallerHeaders(n + 1)
<1> DEFINE caller == CallerHeaders(n)
           more == CallerHeaders(n + 1)
<1>1. caller \in Seq(Entries) /\ Len(caller) = n /\ \A j \in 1..n : caller[j] = "inheader"
  BY DEF CallerHeaders, Entries
<1>2. more \in Seq(Entries) /\ Len(more) = n + 1 /\ \A j \in 1..(n + 1) : more[j] = "inheader"
  BY DEF CallerHeaders, Entries
<1> HIDE DEF caller, more
<1>3. more = Append(caller, "inheader")
  BY <1>1, <1>2
<1>4. "inheader" \in Entries
  BY DEF Entries
<1>5. Append(own \o caller, "inheader") = own \o Append(caller, "inheader")
  BY <1>1, <1>4
<1> QED BY <1>3, <1>5 DEF caller, more

(* A list with none of the caller's headers yet.                            *)
LEMMA NoneAdded ==
  ASSUME NEW own \in Seq(Entries)
  PROVE  own \o CallerHeaders(0) = own
<1>1. CallerHeaders(0) = <<>>
  BY DEF CallerHeaders
<1> QED BY <1>1

(* A list with something left of the library's own headers in front.        *)
LEMMA OwnTyped ==
  ASSUME NEW k \in 1..3
  PROVE  SubSeq(DefaultHeaders, k, 3) \in Seq(Entries)
<1>1. \A j \in k..3 : DefaultHeaders[j] \in Entries
  BY DEF Entries
<1> QED BY <1>1, SubSeqProperties

(* The three appends of internal_curl_setup.                                *)
LEMMA AppendHeaders ==
  ASSUME HeadersInv, CountInv, NEW i \in 1..3, AppendHeader(i)
  PROVE  HeadersInv' /\ CountInv'
<1>1. pc = Stages[i] /\ pc' = Stages[i + 1] /\ UNCHANGED <<inheaders, curr, listdata>>
  BY DEF AppendHeader, AppendPc, Stages, Goto, callVars
<1>2. pc \in {"append1", "append2", "append3"} /\ pc' \in {"append2", "append3", "check"}
  BY <1>1 DEF Stages
<1>3. \A j \in 1..4 : pc' = Stages[j] => j = i + 1
  BY <1>1 DEF Stages
<1>4. /\ headers \in Seq(Entries) /\ orphans \in Nat /\ orphans + Len(headers) <= i - 1
      /\ listdata = 0 /\ curr = 0 /\ inheaders \in 0..MaxInHeaders
      /\ listdata \in 0..inheaders /\ curr \in 0..inheaders
  BY <1>1, <1>2 DEF HeadersInv, CountInv, Started
<1>5. PICK k \in 1..i : headers = SubSeq(DefaultHeaders, k, i - 1)
  <2>1. i \in 1..4
    OBVIOUS
  <2> QED BY <1>1, <2>1 DEF HeadersInv, OwnLeft
<1>6. /\ headers' \in Seq(Entries) /\ orphans' \in Nat /\ orphans' + Len(headers') <= i
      /\ \E l \in 1..(i + 1) : headers' = SubSeq(DefaultHeaders, l, i)
  <2>1. CASE AppendSucceeds(DefaultHeaders[i])
    <3>1. headers' = Append(headers, DefaultHeaders[i]) /\ orphans' = orphans
      BY <2>1 DEF AppendSucceeds
    <3>2. headers' = SubSeq(DefaultHeaders, k, i)
      BY <1>5, <3>1, OwnHeaders
    <3>3. headers' \in Seq(Entries) /\ Len(headers') = Len(headers) + 1
      BY <1>4, <3>1, OwnHeaders
    <3> QED BY <1>4, <1>5, <3>1, <3>2, <3>3
  <2>2. CASE AppendFails
    <3>1. headers' = <<>> /\ orphans' = orphans + Len(headers)
      BY <2>2 DEF AppendFails
    <3>2. headers' = SubSeq(DefaultHeaders, i + 1, i)
      BY <3>1, OwnHeaders
    <3>3. headers' \in Seq(Entries) /\ Len(headers') = 0 /\ Len(headers) \in Nat
      BY <1>4, <3>1
    <3> QED BY <1>4, <3>1, <3>2, <3>3
  <2> QED BY <2>1, <2>2 DEF AppendHeader
<1>7. HeadersInv'
  <2>1. OwnLeft(i + 1)'
    BY <1>6 DEF OwnLeft
  <2>2. \A j \in 1..4 : pc' = Stages[j] => OwnLeft(j)'
    BY <1>3, <2>1
  <2> QED BY <1>2, <1>6, <2>2 DEF HeadersInv
<1>8. CountInv'
  <2>1. Len(headers') \in Nat /\ orphans' \in Nat /\ orphans' + Len(headers') <= i
    <3>1. headers' \in Seq(Entries)
      BY <1>6
    <3>2. orphans' \in Nat /\ orphans' + Len(headers') <= i
      BY <1>6, Zenon
    <3> QED BY <3>1, <3>2
  <2>2. ASSUME NEW j \in 1..4, pc' = Stages[j] PROVE orphans' + Len(headers') <= j - 1
    <3>1. j - 1 = i
      BY <1>3, <2>2
    <3> QED BY <2>1, <3>1
  <2>3. orphans' + Len(headers') <= 3 + listdata'
    BY <1>1, <1>4, <2>1
  <2> QED BY <1>1, <1>2, <1>4, <1>6, <2>2, <2>3 DEF CountInv
<1> QED BY <1>7, <1>8

(* The loop that adds the caller's headers.                                 *)
LEMMA AddHeaders ==
  ASSUME HeadersInv, CountInv, AddInHeader
  PROVE  HeadersInv' /\ CountInv'
<1>1. pc = "inheader" /\ headers \in Seq(Entries) /\ ListOf(curr) /\ inheaders' = inheaders
  BY DEF AddInHeader, HeadersInv, callVars
<1>2. /\ orphans \in Nat /\ inheaders \in 0..MaxInHeaders /\ curr \in 0..inheaders
      /\ orphans + Len(headers) <= 3 + listdata /\ listdata = curr /\ curr < inheaders
      /\ MaxInHeaders \in Nat /\ Len(headers) \in Nat
  BY <1>1, BoundsAssumption DEF CountInv
<1>3. CASE /\ curr' = curr + 1 /\ listdata' = listdata + 1
           /\ AppendSucceeds("inheader") /\ Goto(AfterHeader)
  <2>1. /\ headers' = Append(headers, "inheader") /\ orphans' = orphans
        /\ pc' = IF curr' = inheaders THEN "method" ELSE "inheader"
    BY <1>3 DEF AppendSucceeds, Goto, AfterHeader
  <2>2. PICK k \in 1..3 : headers = SubSeq(DefaultHeaders, k, 3) \o CallerHeaders(curr)
    BY <1>1 DEF ListOf
  <2>3. headers' = SubSeq(DefaultHeaders, k, 3) \o CallerHeaders(curr + 1)
    <3>1. curr \in Nat /\ SubSeq(DefaultHeaders, k, 3) \in Seq(Entries)
      BY <1>2, OwnTyped
    <3>2. Append(SubSeq(DefaultHeaders, k, 3) \o CallerHeaders(curr), "inheader")
            = SubSeq(DefaultHeaders, k, 3) \o CallerHeaders(curr + 1)
      BY <3>1, OneMoreHeader
    <3> QED BY <2>1, <2>2, <3>2
  <2>4. ListOf(curr)' /\ (pc' = "method" => ListOf(inheaders)')
    BY <1>1, <1>3, <2>1, <2>3 DEF ListOf
  <2>5. headers' \in Seq(Entries) /\ Len(headers') = Len(headers) + 1
    BY <1>1, <2>1 DEF Entries
  <2>6. HeadersInv'
    BY <2>1, <2>4, <2>5 DEF HeadersInv, Stages
  <2> QED BY <1>1, <1>2, <1>3, <2>1, <2>5, <2>6 DEF CountInv, Stages, Started
<1>4. CASE UNCHANGED listVars /\ pc' = "cleanup"
  BY <1>1, <1>2, <1>4 DEF HeadersInv, CountInv, Stages, Started, listVars
<1>5. CASE listdata' = listdata + 1 /\ AppendFails /\ UNCHANGED curr /\ pc' = "cleanup"
  <2>1. headers' = <<>> /\ orphans' = orphans + Len(headers)
    BY <1>5 DEF AppendFails
  <2>2. Len(headers') = 0 /\ headers' \in Seq(Entries)
    BY <2>1
  <2> QED BY <1>1, <1>2, <1>5, <2>1, <2>2 DEF HeadersInv, CountInv, Stages, Started
<1> QED BY <1>3, <1>4, <1>5 DEF AddInHeader, FailAt

(* Every step keeps what is known of the header list.                       *)
LEMMA HeadersNext == IInv /\ [Next]_vars => HeadersInv' /\ CountInv'
<1> SUFFICES ASSUME HeadersInv, CountInv, [Next]_vars PROVE HeadersInv' /\ CountInv'
  BY DEF IInv
<1>1. ASSUME NEW label \in Labels, pc' = label,
             UNCHANGED <<inheaders, listVars, sent>>,
             label \in Started \cup {"done"} \/ pc \notin Started \cup {"done"},
             pc \in {"cleanup", "done"} => label \in {"cleanup", "done"},
             \A i \in 1..4 : label = Stages[i] =>
               (label = pc \/ (pc = "url" /\ i = 1)),
             label \in {"init", "url"} => pc \in {"init", "url"},
             label = "options" => (pc = "options" \/ (pc = "check" /\ headers # <<>>)),
             label = "inheader" => (pc = "options" /\ inheaders > 0),
             label \in {"method", "perform"} =>
               (pc \in {"method", "perform"} \/ (pc = "options" /\ inheaders = 0)),
             label = "perform" => pc = "perform"
      PROVE  HeadersInv' /\ CountInv'
  <2>1. ASSUME NEW i \in 1..4, pc' = Stages[i]
        PROVE  OwnLeft(i)' /\ orphans' + Len(headers') <= i - 1
    <3>1. CASE label = pc
      BY <1>1, <2>1, <3>1 DEF HeadersInv, OwnLeft, CountInv, listVars
    <3>2. CASE pc = "url" /\ i = 1
      <4>1. headers = <<>> /\ orphans = 0 /\ Len(headers) = 0
        BY <3>2 DEF CountInv
      <4>2. SubSeq(DefaultHeaders, 1, 0) = <<>>
        BY SubSeqEmpty
      <4> QED BY <1>1, <3>2, <4>1, <4>2 DEF OwnLeft, listVars
    <3> QED BY <1>1, <2>1, <3>1, <3>2
  <2>2. ASSUME pc' = "options" PROVE \E k \in 1..3 : headers' = SubSeq(DefaultHeaders, k, 3)
    <3>1. CASE pc = "options"
      BY <1>1, <3>1 DEF HeadersInv, listVars
    <3>2. CASE pc = "check" /\ headers # <<>>
      <4>1. PICK k \in 1..4 : headers = SubSeq(DefaultHeaders, k, 3)
        <5>1. pc = Stages[4]
          BY <3>2 DEF Stages
        <5> QED BY <5>1 DEF HeadersInv, OwnLeft
      <4>2. SubSeq(DefaultHeaders, 4, 3) = <<>>
        BY SubSeqEmpty
      <4>3. k \in 1..3
        BY <3>2, <4>1, <4>2
      <4> QED BY <1>1, <4>1, <4>3 DEF listVars
    <3> QED BY <1>1, <2>2, <3>1, <3>2
  <2>3. ASSUME pc = "options"
        PROVE  ListOf(0)' /\ curr' = 0 /\ listdata' = 0
    <3>1. PICK k \in 1..3 : headers = SubSeq(DefaultHeaders, k, 3)
      BY <2>3 DEF HeadersInv
    <3>2. curr = 0 /\ listdata = 0
      BY <2>3 DEF CountInv, Started
    <3>3. headers = SubSeq(DefaultHeaders, k, 3) \o CallerHeaders(0)
      BY <3>1, OwnTyped, NoneAdded
    <3> QED BY <1>1, <3>2, <3>3 DEF ListOf, listVars
  <2>4. /\ pc' = "inheader" => ListOf(curr)'
        /\ pc' \in {"method", "perform"} => ListOf(inheaders)'
    <3>1. CASE pc = "options"
      BY <1>1, <2>3, <3>1 DEF ListOf
    <3>2. CASE pc \in {"method", "perform"}
      BY <1>1, <3>2 DEF HeadersInv, ListOf, listVars
    <3> QED BY <1>1, <3>1, <3>2
  <2>5. headers' \in Seq(Entries) /\ (pc' = "perform" => sent' = headers')
    BY <1>1 DEF HeadersInv, listVars
  <2>6. HeadersInv'
    BY <2>1, <2>2, <2>4, <2>5 DEF HeadersInv
  <2>7. pc' \notin Started \cup {"done"} => curr' = 0 /\ listdata' = 0
    BY <1>1 DEF CountInv, listVars
  <2>8. pc' = "inheader" => listdata' = curr' /\ curr' < inheaders'
    BY <1>1, <2>3
  <2>9. /\ orphans' \in Nat /\ inheaders' \in 0..MaxInHeaders
        /\ curr' \in 0..inheaders' /\ listdata' \in 0..inheaders'
        /\ pc' \in {"init", "url"} => headers' = <<>> /\ orphans' = 0
        /\ orphans' + Len(headers') <= 3 + listdata'
    BY <1>1 DEF CountInv, listVars
  <2> QED BY <2>1, <2>6, <2>7, <2>8, <2>9 DEF CountInv
<1>2. CASE UNCHANGED vars
  BY <1>2 DEF vars, HeadersInv, OwnLeft, ListOf, CountInv
<1>3. CASE NameDriverMissing \/ EasyInit \/ SetUrl \/ CheckHeaders
  <2>1. /\ UNCHANGED <<inheaders, listVars, sent>>
        /\ \/ pc = "init" /\ pc' \in {"url", "done", "crashed"}
           \/ pc = "url" /\ pc' \in {"append1", "unwind"}
           \/ pc = "check" /\ pc' = "unwind"
           \/ pc = "check" /\ headers # <<>> /\ pc' = "options"
    BY <1>3 DEF NameDriverMissing, EasyInit, SetUrl, CheckHeaders, Goto, FailAt, callVars
  <2> QED BY <1>1, <2>1 DEF Started, Stages, Labels
<1>4. ASSUME NEW i \in 1..3, AppendHeader(i) PROVE HeadersInv' /\ CountInv'
  BY <1>4, AppendHeaders
<1>5. CASE SetOptions
  <2>1. /\ UNCHANGED <<inheaders, listVars, sent>> /\ pc = "options"
        /\ \/ pc' = "inheader" /\ inheaders > 0
           \/ pc' = "method" /\ inheaders = 0
           \/ pc' = "unwind"
    BY <1>5, BoundsAssumption DEF SetOptions, Goto, FailAt, callVars, CountInv
  <2> QED BY <1>1, <2>1 DEF Started, Stages, Labels
<1>6. CASE Unwind \/ Cleanup
  <2>1. /\ pc' = "done" /\ headers' = <<>> /\ UNCHANGED <<inheaders, curr, orphans, listdata>>
    BY <1>6 DEF Unwind, Cleanup, Goto, callVars
  <2>2. headers' \in Seq(Entries) /\ Len(headers') = 0
    BY <2>1
  <2>3. HeadersInv'
    BY <2>1, <2>2 DEF HeadersInv, Stages
  <2>4. orphans' + Len(headers') <= 3 + listdata'
    <3>1. headers \in Seq(Entries) /\ Len(headers) \in Nat
      BY DEF HeadersInv
    <3> QED BY <2>1, <2>2, <3>1, BoundsAssumption DEF CountInv
  <2> QED BY <2>1, <2>3, <2>4 DEF CountInv, Stages, Started
<1>7. CASE AddInHeader
  BY <1>7, AddHeaders
<1>8. CASE SetMethod
  <2>1. /\ pc = "method" /\ UNCHANGED <<inheaders, curr, headers, orphans, listdata>>
        /\ (pc' = "perform" /\ sent' = headers) \/ pc' = "cleanup"
    BY <1>8 DEF SetMethod, Goto, FailAt, callVars, listVars
  <2>2. ListOf(inheaders)'
    BY <2>1 DEF HeadersInv, ListOf
  <2>3. HeadersInv'
    BY <2>1, <2>2 DEF HeadersInv, Stages
  <2> QED BY <2>1, <2>3 DEF CountInv, Stages, Started
<1>9. CASE ReceiveHeader \/ ReceiveBody \/ PerformFails \/ PerformSucceeds
  <2>1. /\ UNCHANGED <<inheaders, listVars, sent>> /\ pc = "perform"
        /\ pc' \in {"perform", "cleanup", "copy"}
    BY <1>9 DEF ReceiveHeader, ReceiveBody, PerformFails, PerformSucceeds, Goto, FailAt, callVars
  <2> QED BY <1>1, <2>1 DEF Started, Stages, Labels
<1>10. CASE CopyResults
  <2>1. /\ UNCHANGED <<inheaders, listVars, sent>> /\ pc = "copy" /\ pc' = "cleanup"
    BY <1>10 DEF CopyResults, callVars
  <2> QED BY <1>1, <2>1 DEF Started, Stages, Labels
<1> QED BY <1>2, <1>3, <1>4, <1>5, <1>6, <1>7, <1>8, <1>9, <1>10 DEF Next, Returned

(* Every step goes on at a label of the call.                               *)
LEMMA CallNext == IInv /\ [Next]_vars => CallInv'
<1> SUFFICES ASSUME CallInv, [Next]_vars PROVE CallInv'
  BY DEF IInv
<1>1. response' = response /\ named' = named
  BY CallKept
<1>2. curl' \in BOOLEAN
  BY DEF CallInv, Next, vars, NameDriverMissing, EasyInit, SetUrl, AppendHeader, CheckHeaders, SetOptions, Unwind,
         AddInHeader, SetMethod, ReceiveHeader, ReceiveBody, PerformFails, PerformSucceeds,
         CopyResults, Cleanup, Returned, callVars
<1>3. pc' \in Labels
  <2>1. ASSUME NEW i \in 1..3, AppendHeader(i) PROVE pc' \in Labels
    BY <2>1 DEF AppendHeader, AppendPc, Goto, Labels
  <2> QED BY <2>1 DEF CallInv, Labels, Next, vars, NameDriverMissing, EasyInit, SetUrl, CheckHeaders, SetOptions, Unwind,
         AddInHeader, SetMethod, ReceiveHeader, ReceiveBody, PerformFails, PerformSucceeds,
         CopyResults, Cleanup, Returned, Goto, FailAt, AfterHeader, outVars
<1>4. pc' = "crashed" <=> ~named /\ pc' # "init"
  <2>1. ASSUME NEW i \in 1..3, AppendHeader(i) PROVE pc # "crashed" /\ pc \in Labels \ {"init"} /\ pc' \in {"append2", "append3", "check"}
    BY <2>1 DEF AppendHeader, AppendPc, Goto, Labels
  <2> QED BY <2>1 DEF CallInv, Labels, Next, vars, NameDriverMissing, EasyInit, SetUrl, CheckHeaders,
         SetOptions, Unwind, AddInHeader, AfterHeader, SetMethod, ReceiveHeader, ReceiveBody,
         PerformFails, PerformSucceeds, CopyResults, Cleanup, Returned, Goto, FailAt, outVars
<1> QED BY <1>1, <1>2, <1>3, <1>4 DEF CallInv

-----------------------------------------------------------------------------
(* The invariant of one call of curl_action.c.                              *)
THEOREM Invariance == Spec => []IInv
<1>1. IInv /\ [Next]_vars => IInv'
  BY BufferNext, OutcomeNext, HeadersNext, CallNext DEF IInv
<1> QED BY <1>1, InvInit, PTL DEF Spec

(* The variables keep their types: no header the caller added is lost       *)
(* count of, and no more list entries are orphaned than were allocated.     *)
THEOREM TypeCorrect == Spec => []TypeOK
<1>1. IInv => TypeOK
  <2> SUFFICES ASSUME IInv PROVE TypeOK
    OBVIOUS
  <2> USE DEF IInv
  <2>1. pc \in Labels /\ method \in Methods /\ curl \in BOOLEAN /\ named \in BOOLEAN
        /\ response \in [header : Pieces("header"), body : Pieces("body")]
    BY DEF CallInv, BufferInv
  <2>2. headers \in Seq(Entries) /\ orphans \in 0..(3 + inheaders)
        /\ listdata \in 0..inheaders /\ curr \in 0..inheaders /\ inheaders \in 0..MaxInHeaders
    <3>1. headers \in Seq(Entries) /\ Len(headers) \in Nat
      BY DEF HeadersInv
    <3> QED BY <3>1, BoundsAssumption DEF CountInv
  <2>3. <<>> \in Pieces("body") /\ <<>> \in Pieces("header")
    BY <2>1, NothingReceived DEF Received
  <2>4. chunk \in Pieces("body") \cup {Garbage} /\ header_chunk \in Pieces("header") \cup {Garbage}
    BY <2>3 DEF BufferInv, Received
  <2>5. HasFailed \/ HasSucceeded \/ (ret = -1 /\ error = None /\ returndata = NULL /\ returnheader = NULL)
    BY DEF OutcomeInv
  <2>6. ret \in {-1, 0} /\ error \in Errors \cup {None}
    BY <2>5, ErrcodeKnown DEF HasFailed, HasSucceeded
  <2>7. returndata \in CStrings("body") \cup {NULL} /\ returnheader \in CStrings("header") \cup {NULL}
    BY <2>1, <2>5 DEF HasFailed, HasSucceeded, CopyOf, CStrings
  <2> QED BY <2>1, <2>2, <2>4, <2>6, <2>7 DEF TypeOK, Labels, Entries
<1> QED BY <1>1, Invariance, PTL

(* For any number of headers the caller gives and wherever an append fails, *)
(* a request that goes out names its provider and carries all of them.      *)
THEOREM HeadersSentAlways == Spec => []HeadersSent
<1>1. IInv => HeadersSent
  BY DEF IInv, HeadersInv, ListOf, CallerHeaders, HeadersSent
<1> QED BY <1>1, Invariance, PTL

(* For any answer: the handle is closed, and neither the header list in use *)
(* nor a receive buffer is left behind, on any path.                        *)
THEOREM ReleasedAlways == Spec => []Released
<1>1. IInv => Released
  BY DEF IInv, HandleInv, BufferInv, Started, Released
<1> QED BY <1>1, Invariance, PTL

(* The cleanup label frees only buffers that were initialised.              *)
THEOREM BuffersInitialisedAlways == Spec => []BuffersInitialised
<1>1. IInv => BuffersInitialised
  BY GarbageAssumption DEF IInv, BufferInv, Started, Received, BuffersInitialised
<1> QED BY <1>1, Invariance, PTL

(* Every call of curl_action.c implements the contract its callers rely on, *)
(* for answers in any number of pieces, with a NUL byte or without.         *)
THEOREM ContractImplemented == Spec => TransferContract
<1>1. Init => Contract!Init
  BY DEF Init, Contract!Init, outcomeBar
<1>2. IInv /\ IInv' /\ [Next]_vars => [Contract!Return]_(Contract!vars)
  <2> SUFFICES ASSUME IInv, IInv', [Next]_vars PROVE [Contract!Return]_(Contract!vars)
    OBVIOUS
  <2> DEFINE Over == {"done", "crashed"}
  <2>1. answerBar' = answerBar /\ Reported' = Reported /\ named' = named
    BY CallKept DEF answerBar
  <2>2. CASE pc \in Over
    <3>1. UNCHANGED vars
      BY <2>2 DEF Next, NameDriverMissing, EasyInit, SetUrl, AppendHeader, AppendPc, CheckHeaders,
                  SetOptions, Unwind, AddInHeader, SetMethod, ReceiveHeader, ReceiveBody, PerformFails,
                  PerformSucceeds, CopyResults, Cleanup, Returned
    <3> QED BY <2>1, <3>1 DEF vars, Contract!vars, outcomeBar
  <2>3. CASE pc \notin Over /\ pc' \notin Over
    BY <2>1, <2>3 DEF Contract!vars, outcomeBar
  <2>4. CASE pc \notin Over /\ pc' \in Over
    <3>1. outcomeBar = NULL
      BY <2>4 DEF outcomeBar
    <3>2. CASE pc' = "done"
      <4>1. named /\ outcomeBar' = [ret |-> ret', data |-> returndata', header |-> returnheader',
                                   error |-> error']
        BY <2>1, <3>2 DEF outcomeBar, IInv, CallInv
      <4>2. HasFailed' \/ HasSucceeded'
        BY <3>2 DEF IInv, OutcomeInv
      <4>3. outcomeBar' \in Outcomes(answerBar, Reported)
        <5>1. Outcomes(answerBar, Reported)' = Outcomes(answerBar, Reported)
          BY <2>1 DEF Outcomes, Failed, Succeeded, CopyOf
        <5> QED BY <2>1, <4>1, <4>2
                DEF HasFailed, HasSucceeded, Outcomes, Failed, Succeeded, answerBar
      <4>4. Contract!Outcomes(answerBar, Reported) = Outcomes(answerBar, Reported)
        BY DEF Contract!Outcomes, Contract!Failed, Contract!Succeeded, Contract!CopyOf,
               Outcomes, Failed, Succeeded, CopyOf
      <4> QED BY <2>1, <3>1, <4>1, <4>3, <4>4 DEF Contract!Return
    <3>3. CASE pc' = "crashed"
      <4>1. outcomeBar' = Crashed /\ ~named
        BY <2>1, <3>3 DEF outcomeBar, IInv, CallInv
      <4> QED BY <2>1, <3>1, <4>1 DEF Contract!Return
    <3> QED BY <2>4, <3>2, <3>3
  <2> QED BY <2>2, <2>3, <2>4
<1> QED BY <1>1, <1>2, Invariance, PTL DEF Spec, TransferContract, Contract!Spec
=============================================================================
