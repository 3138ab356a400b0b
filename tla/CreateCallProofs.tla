-------------------------- MODULE CreateCallProofs --------------------------
(***************************************************************************)
(* Proofs about CreateCall for any number of parameters of the client.     *)
(***************************************************************************)
EXTENDS CreateCall, TLAPS

\* What pos is while the parameters are prepared and once they are.
Adding == {"add", "href", "post", "result"}
Added == {"href", "post", "result"}

(* The strings in the array: a prefix of its slots, ending where the copy   *)
(* or pos is, until the cleanup, which may find it one longer than filled.  *)
FilledInv ==
  /\ pc \in {"check", "lookup", "alloc"} => filled = {} /\ next = 0 /\ pos = NULL
  /\ pc \notin {"check", "done"} => params_length >= 0
  /\ pc = "copy" => filled = 0..(next - 1) /\ next <= params_length /\ pos = NULL
  /\ pc \in Adding =>
       /\ pos \in params_length..(params_length + call.fixed)
       /\ filled = 0..(pos - 1)
  /\ pc \in Added => pos = params_length + call.fixed
  /\ pc = "crashed" =>
       \/ ~array
       \/ pos = params_length + call.fixed /\ filled = 0..(pos - 1)
  /\ pc = "cleanup" =>
       \/ pos = -1 /\ filled \subseteq 0..(params_length - 1)
       \/ /\ pos \in params_length..(params_length + call.fixed)
          /\ filled \subseteq 0..(pos - 1)

(* What is allocated besides the strings.                                   *)
HeapInv ==
  /\ pc # "crashed" => (array <=> pc \in {"copy", "add", "href", "post", "result", "cleanup"})
  /\ href => pc = "post"
  /\ pc = "done" /\ pos # -1 => filled = {}

(* How the call is going to end.                                            *)
ResultInv ==
  /\ pc \notin {"cleanup", "done"} => ret = -1 /\ error = None /\ id = None
  /\ pc \in {"cleanup", "done"} =>
       /\ ret = -1 <=> error # None
       /\ id # None <=> (ret = 0 /\ wanted)
  /\ pc = "cleanup" /\ id # None => (id = "name" <=> answer = "naming")
  /\ pc \notin {"result", "cleanup", "crashed"} => answer = NULL
  /\ answer = "naming" => created
  /\ id = "name" => created

IInv == TypeOK /\ FilledInv /\ HeapInv /\ ResultInv

-----------------------------------------------------------------------------
(* Every call allocates exactly the slots it fills itself.                  *)
LEMMA CallRoom == \A c \in Calls : c.room = c.fixed /\ c.fixed \in 1..5
BY DEF Calls, CreateInstance, CreateImage, CreateSnapshot, CreateKey, CreateBucket,
       CreateFirewall, CreateRule, CreateLoadBalancer, LbRegister, AttachVolume

(* What the Location is taken for: the name is told from the others.        *)
LEMMA IdRead ==
  \A a \in {"naming", "bare", "nameless", "elsewhere"} :
    /\ IdIn[a] \in {"name", "cut", "empty", "other"}
    /\ IdIn[a] = "name" <=> a = "naming"
BY DEF IdIn

(* A readable answer is one of these.                                       *)
LEMMA ReadableAnswer == Readable => answer \in {"naming", "bare", "nameless", "elsewhere"}
BY DEF Readable, IdIn

(* One more slot filled makes the prefix one longer.                        *)
LEMMA PrefixGrows == \A n \in Nat : 0..(n - 1) \cup {n} = 0..(n + 1 - 1)
OBVIOUS

(* The invariant holds when a call begins.                                  *)
LEMMA InvInit == Init => IInv
<1> SUFFICES ASSUME Init PROVE IInv
  OBVIOUS
<1>1. TypeOK
  <2>1. holes \subseteq 0..(MaxParams - 1)
    BY ConstantsAssumption DEF Init
  <2>2. wanted \in BOOLEAN
    BY DEF Init
  <2>3. next \in 0..MaxParams /\ filled \subseteq Slots
    BY ConstantsAssumption DEF Init
  <2>4. pc = "check" /\ call \in Calls /\ params_length \in -1..MaxParams
        /\ array = FALSE /\ pos = NULL /\ href = FALSE /\ answer = NULL
        /\ created = FALSE /\ id = None /\ ret = -1 /\ error = None
    BY DEF Init
  <2> QED BY <2>1, <2>2, <2>3, <2>4 DEF TypeOK
<1>2. FilledInv
  BY DEF Init, FilledInv, Adding, Added
<1>3. HeapInv /\ ResultInv
  BY ConstantsAssumption DEF Init, HeapInv, ResultInv
<1> QED BY <1>1, <1>2, <1>3 DEF IInv

(* Every step keeps the types.                                              *)
LEMMA TypeNext == IInv /\ [Next]_vars => TypeOK'
<1> SUFFICES ASSUME IInv, [Next]_vars PROVE TypeOK'
  OBVIOUS
<1> USE ConstantsAssumption, CallRoom
    DEF IInv, TypeOK, Slots, Errors, callVars, postVars, Goto, FailAt
<1>1. CASE CheckArguments BY <1>1 DEF CheckArguments
<1>2. CASE FindLink BY <1>2 DEF FindLink
<1>3. CASE AllocArray BY <1>3 DEF AllocArray
<1>4. CASE CopyParameter BY <1>4 DEF CopyParameter, FilledInv
<1>5. CASE ParametersCopied BY <1>5 DEF ParametersCopied, FilledInv
<1>6. CASE AddParameter BY <1>6 DEF AddParameter, AllAdded, FilledInv, Adding
<1>7. CASE ParametersReady BY <1>7 DEF ParametersReady
<1>8. CASE BuildHref BY <1>8 DEF BuildHref
<1>9. CASE Post
  <2>1. AnswersOf(call.answer) \subseteq Answers
    BY DEF AnswersOf, Answers
  <2>2. answer' \in Answers \cup {NULL}
    BY <1>9, <2>1 DEF Post
  <2>3. created' \in BOOLEAN /\ href' \in BOOLEAN
    BY <1>9 DEF Post
  <2>4. error' \in Errors \cup {None} /\ pc' \in {"cleanup", "result", "crashed"}
    BY <1>9 DEF Post
  <2>5. UNCHANGED <<callVars, array, filled, pos, next, id, ret>>
    BY <1>9 DEF Post
  <2> QED BY <2>2, <2>3, <2>4, <2>5
<1>10. CASE ReadResult BY <1>10, IdRead, ReadableAnswer DEF ReadResult, UnreadableErrors
<1>13. CASE CopyMissingId BY <1>13 DEF CopyMissingId
<1>11. CASE Cleanup BY <1>11 DEF Cleanup
<1>12. CASE UNCHANGED vars BY <1>12 DEF vars
<1> QED BY <1>1, <1>2, <1>3, <1>4, <1>5, <1>6, <1>7, <1>8, <1>9, <1>10, <1>11, <1>12, <1>13
        DEF Next, Returned

(* The strings stay a prefix of the array.                                  *)
LEMMA FilledNext == IInv /\ [Next]_vars => FilledInv'
<1> SUFFICES ASSUME IInv, [Next]_vars PROVE FilledInv'
  OBVIOUS
<1> USE ConstantsAssumption, CallRoom
    DEF IInv, TypeOK, FilledInv, Adding, Added, callVars, Goto, FailAt
<1>1. CASE CheckArguments BY <1>1 DEF CheckArguments
<1>2. CASE FindLink BY <1>2 DEF FindLink, HeapInv
<1>3. CASE AllocArray BY <1>3 DEF AllocArray
<1>4. CASE CopyParameter
  <2>1. CASE next' = next + 1
    <3>1. filled' = filled \cup {next} /\ pc = "copy" /\ pc' = "copy" /\ pos' = pos
          /\ next < params_length /\ params_length' = params_length /\ next \in Nat
      BY <1>4, <2>1 DEF CopyParameter
    <3>2. filled' = 0..(next' - 1)
      BY <2>1, <3>1, PrefixGrows
    <3> QED BY <2>1, <3>1, <3>2
  <2>2. CASE pc' = "cleanup"
    BY <1>4, <2>2 DEF CopyParameter
  <2> QED BY <1>4, <2>1, <2>2 DEF CopyParameter
<1>5. CASE ParametersCopied BY <1>5 DEF ParametersCopied
<1>6. CASE AddParameter
  <2>1. pos \in Nat /\ pos' = pos + 1 /\ pos' \in params_length..(params_length + call.fixed)
    BY <1>6 DEF AddParameter, AllAdded
  <2>2. CASE pc' = "add"
    <3>1. filled' = filled \cup {pos} /\ pc = "add" /\ params_length' = params_length
          /\ call' = call
      BY <1>6, <2>2 DEF AddParameter
    <3>2. filled' = 0..(pos' - 1)
      BY <2>1, <3>1, PrefixGrows
    <3> QED BY <2>1, <2>2, <3>1, <3>2
  <2>3. CASE pc' = "cleanup"
    BY <1>6, <2>1, <2>3 DEF AddParameter
  <2> QED BY <1>6, <2>2, <2>3 DEF AddParameter
<1>7. CASE ParametersReady BY <1>7 DEF ParametersReady, AllAdded
<1>8. CASE BuildHref BY <1>8 DEF BuildHref
<1>9. CASE Post BY <1>9 DEF Post, AnswersOf, Answers, Unrelated
<1>10. CASE ReadResult BY <1>10 DEF ReadResult
<1>13. CASE CopyMissingId BY <1>13 DEF CopyMissingId
<1>11. CASE Cleanup BY <1>11 DEF Cleanup
<1>12. CASE UNCHANGED vars BY <1>12 DEF vars
<1> QED BY <1>1, <1>2, <1>3, <1>4, <1>5, <1>6, <1>7, <1>8, <1>9, <1>10, <1>11, <1>12, <1>13
        DEF Next, Returned

(* Only the strings of a failed copy survive the cleanup.                   *)
LEMMA HeapNext == IInv /\ [Next]_vars => HeapInv'
<1> SUFFICES ASSUME IInv, [Next]_vars PROVE HeapInv'
  OBVIOUS
<1> USE DEF IInv, HeapInv, callVars, Goto, FailAt
<1>1. CASE CheckArguments BY <1>1 DEF CheckArguments, FilledInv
<1>2. CASE FindLink BY <1>2 DEF FindLink, FilledInv
<1>3. CASE AllocArray BY <1>3 DEF AllocArray, FilledInv
<1>4. CASE CopyParameter BY <1>4 DEF CopyParameter
<1>5. CASE ParametersCopied BY <1>5 DEF ParametersCopied
<1>6. CASE AddParameter BY <1>6 DEF AddParameter
<1>7. CASE ParametersReady BY <1>7 DEF ParametersReady
<1>8. CASE BuildHref BY <1>8 DEF BuildHref
<1>9. CASE Post BY <1>9 DEF Post, AnswersOf, Answers, Unrelated
<1>10. CASE ReadResult BY <1>10 DEF ReadResult
<1>13. CASE CopyMissingId BY <1>13 DEF CopyMissingId
<1>11. CASE Cleanup BY <1>11 DEF Cleanup, FilledInv
<1>12. CASE UNCHANGED vars BY <1>12 DEF vars
<1> QED BY <1>1, <1>2, <1>3, <1>4, <1>5, <1>6, <1>7, <1>8, <1>9, <1>10, <1>11, <1>12, <1>13
        DEF Next, Returned

(* The result and the error agree, and an id is of something made.          *)
LEMMA ResultNext == IInv /\ [Next]_vars => ResultInv'
<1> SUFFICES ASSUME IInv, [Next]_vars PROVE ResultInv'
  OBVIOUS
<1> USE ConstantsAssumption DEF IInv, TypeOK, ResultInv, callVars, postVars, Errors, Goto, FailAt
<1>1. CASE CheckArguments BY <1>1 DEF CheckArguments
<1>2. CASE FindLink BY <1>2 DEF FindLink
<1>3. CASE AllocArray BY <1>3 DEF AllocArray
<1>4. CASE CopyParameter BY <1>4 DEF CopyParameter
<1>5. CASE ParametersCopied BY <1>5 DEF ParametersCopied
<1>6. CASE AddParameter BY <1>6 DEF AddParameter
<1>7. CASE ParametersReady BY <1>7 DEF ParametersReady
<1>8. CASE BuildHref BY <1>8 DEF BuildHref
<1>9. CASE Post BY <1>9 DEF Post, AnswersOf, Answers, Unrelated
<1>10. CASE ReadResult BY <1>10, IdRead, ReadableAnswer DEF ReadResult, UnreadableErrors
<1>13. CASE CopyMissingId BY <1>13 DEF CopyMissingId
<1>11. CASE Cleanup BY <1>11 DEF Cleanup
<1>12. CASE UNCHANGED vars BY <1>12 DEF vars
<1> QED BY <1>1, <1>2, <1>3, <1>4, <1>5, <1>6, <1>7, <1>8, <1>9, <1>10, <1>11, <1>12, <1>13
        DEF Next, Returned

(* The inductive invariant holds throughout every call.                     *)
THEOREM Invariance == Spec => []IInv
<1>1. IInv /\ [Next]_vars => IInv'
  BY TypeNext, FilledNext, HeapNext, ResultNext DEF IInv
<1> QED BY InvInit, <1>1, PTL DEF Spec

-----------------------------------------------------------------------------
(* Every variable of the call keeps its type, whatever the client asks.     *)
THEOREM TypeCorrect == Spec => []TypeOK
<1>1. IInv => TypeOK
  BY DEF IInv
<1> QED BY Invariance, <1>1, PTL

(* For any parameters of the client, no call leaves the array it allocated. *)
THEOREM InBoundsAlways == Spec => []InBounds
<1>1. ASSUME IInv, array = TRUE
      PROVE  /\ \A i \in filled : i < params_length + call.room
             /\ pos # NULL => pos <= params_length + call.room
  <2>1. call.room = call.fixed /\ call.fixed \in Nat /\ params_length \in Nat
    BY <1>1, CallRoom DEF IInv, TypeOK, FilledInv, HeapInv
  <2>2. CASE pc = "copy"
    BY <1>1, <2>1, <2>2 DEF IInv, TypeOK, FilledInv
  <2>3. CASE pc \in Adding
    BY <1>1, <2>1, <2>3 DEF IInv, FilledInv
  <2>4. CASE pc = "cleanup"
    BY <1>1, <2>1, <2>4 DEF IInv, FilledInv
  <2>5. CASE pc = "crashed"
    BY <1>1, <2>1, <2>5 DEF IInv, FilledInv
  <2> QED BY <1>1, <2>2, <2>3, <2>4, <2>5 DEF IInv, HeapInv, Adding
<1>2. IInv => InBounds
  BY <1>1 DEF IInv, TypeOK, InBounds
<1> QED BY Invariance, <1>2, PTL

(* What is posted has no slot left over from the calloc.                    *)
THEOREM PostedFilledAlways == Spec => []PostedParametersFilled
<1>1. IInv => PostedParametersFilled
  BY DEF IInv, FilledInv, PostedParametersFilled, Adding
<1> QED BY Invariance, <1>1, PTL

(* A call frees what it made, unless the copy of the client's own           *)
(* parameters failed.                                                       *)
THEOREM CopiesFreedAlways == Spec => []CopiesFreed
<1>1. IInv => CopiesFreed
  BY DEF IInv, HeapInv, CopiesFreed
<1> QED BY Invariance, <1>1, PTL

(* An id is given out exactly by a call that was asked for one and          *)
(* succeeded, and names something the server has made.                      *)
THEOREM IdNamesCreatedAlways == Spec => []IdNamesCreated
<1>1. IInv => IdNamesCreated
  BY DEF IInv, ResultInv, IdNamesCreated
<1> QED BY Invariance, <1>1, PTL

(* A failed call has reported an error, and a successful one has not.       *)
THEOREM FailureReportedAlways == Spec => []FailureReported
<1>1. IInv => FailureReported
  BY DEF IInv, ResultInv, FailureReported
<1> QED BY Invariance, <1>1, PTL
=============================================================================
