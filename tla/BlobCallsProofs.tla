-------------------------- MODULE BlobCallsProofs --------------------------
(***************************************************************************)
(* Proofs about BlobCalls for any number of metadata entries.              *)
(***************************************************************************)
EXTENDS BlobCalls, TLAPS, WellFoundedInduction, SequenceTheorems

Posting == kind \in {"create", "update"}

(* The form, or the header list, holds the entries gone through that have a *)
(* value, and all of them when the transfer starts.                         *)
SendInv ==
  /\ entries \in Seq(Lines \cup Sent) /\ Len(entries) <= MaxEntries
  /\ posted \in Seq(Sent) /\ Len(posted) <= i
  /\ pc \notin {"cleanup", "done"} => strings <= i
  /\ pc \in {"check", "link", "build"} => i = 0 /\ posted = <<>>
  /\ Posting /\ pc \in {"entries", "href", "transfer"} => posted = Kept(entries, {"valued"}, i)
  /\ Posting /\ pc \in {"href", "transfer"} => i = Len(entries)
  /\ strings > 0 => kind = "update"
  /\ stranded => kind = "update" /\ ret = -1 /\ pc \in {"cleanup", "done"}

Names(r) == [n \in DOMAIN r |-> r[n].name]

(* The parameters are those of the lines gone through, one for each plain   *)
(* line, and of all of them once the call succeeds.                         *)
PlainOnly == ToSet(entries) \subseteq {"plain", "other"}

ReadInv ==
  /\ params = NULL \/ params \in Seq(Parameter)
  /\ pc \notin {"entries", "cleanup", "done"} => params = NULL
  /\ ~Posting /\ pc \notin {"entries", "cleanup", "done"} => i = 0
  /\ Posting => params = NULL
  /\ kind = "metadata" /\ pc = "entries" =>
       /\ Len(Read) <= i
       /\ PlainOnly => Names(Read) = Kept(entries, {"plain"}, i)
  /\ kind = "metadata" /\ ret = 0 =>
       /\ count = Len(Read)
       /\ PlainOnly => Names(Read) = Kept(entries, {"plain"}, Len(entries))

(* What the cleanup of a call frees, and so all the call may own then.      *)
Freed ==
  {"url"} \cup CASE kind = "create"   -> {"data", "form"}
                 [] kind = "update"   -> {"data", "list"}
                 [] kind = "metadata" -> {"file", "headers"}
                 [] OTHER             -> {}

HeapInv ==
  /\ pc = "open" => kind = "metadata"
  /\ pc = "entries" => kind # "content"
  /\ kind = "metadata" => answer = "none"
  /\ pc \in {"check", "link", "build"} => heap = {}
  /\ pc \in {"href", "transfer", "classify", "open", "cleanup", "crashed"} => heap \subseteq Freed
  /\ pc = "entries" => heap \subseteq Freed \cup IF kind = "metadata" THEN {"regex"} ELSE {}
  /\ pc = "done" => heap \subseteq IF kind = "content" /\ ret = -1 THEN {"url"} ELSE {}

(* How the call is going to end.                                            *)
OutcomeInv ==
  /\ pc \notin {"cleanup", "done"} => ret = -1 /\ error = None
  /\ pc \in {"cleanup", "done"} => (ret = -1 <=> error # None)

IInv == TypeOK /\ SendInv /\ ReadInv /\ HeapInv /\ OutcomeInv

-----------------------------------------------------------------------------
(* Induction, in the form the provers can use: about a set of numbers.      *)
LEMMA NatSet ==
  ASSUME NEW S, 0 \in S, \A n \in Nat : n \in S => n + 1 \in S
  PROVE  Nat \subseteq S
<1> DEFINE less == OpToRel(<, Nat)
<1> SUFFICES ASSUME Nat \ S # {} PROVE FALSE
  OBVIOUS
<1>1. PICK x \in Nat \ S : \A y \in Nat \ S : <<y, x>> \notin less
  <2>1. IsWellFoundedOn(less, Nat)
    BY NatLessThanWellFounded
  <2>2. Nat \ S \subseteq Nat
    OBVIOUS
  <2> HIDE DEF less
  <2> QED BY <2>1, <2>2, WFMin
<1>2. x - 1 \in Nat \ S /\ x - 1 < x
  <2>1. x # 0
    OBVIOUS
  <2> QED BY <2>1
<1>3. <<x - 1, x>> \in less
  BY <1>2 DEF OpToRel
<1> QED BY <1>1, <1>2, <1>3

(* What is kept of the first elements of a sequence, one element at a time. *)
LEMMA KeptIs ==
  ASSUME NEW T, NEW s \in Seq(T), NEW S
  PROVE  /\ Kept(s, S, 0) = <<>>
         /\ \A n \in 1..Len(s) :
              Kept(s, S, n) = IF s[n] \in S THEN Append(Kept(s, S, n - 1), s[n]) ELSE Kept(s, S, n - 1)
<1> DEFINE More(e, kept) == IF e \in S THEN Append(kept, e) ELSE kept
           Step(f, k) == IF k = 0 THEN <<>> ELSE More(s[k], f[k - 1])
           Fills(f, m) == f = [k \in 0..m |-> Step(f, k)]
           D == {m \in Nat : \E f : Fills(f, m)}
           all == CHOOSE f : Fills(f, Len(s))
<1>1. 0 \in D
  <2>1. Fills([k \in 0..0 |-> <<>>], 0)
    <3>1. \A k \in 0..0 : k = 0
      OBVIOUS
    <3> QED BY <3>1
  <2> QED BY <2>1
<1>2. ASSUME NEW m \in Nat, m \in D PROVE m + 1 \in D
  <2>1. PICK f : Fills(f, m)
    BY <1>2
  <2> DEFINE g == [k \in 0..(m + 1) |-> IF k = m + 1 THEN More(s[m + 1], f[m]) ELSE f[k]]
  <2>2. \A k \in 0..m : f[k] = Step(f, k)
    <3> HIDE DEF Step
    <3> QED BY <2>1
  <2> HIDE DEF More
  <2>3. ASSUME NEW k \in 0..(m + 1) PROVE g[k] = Step(g, k)
    <3>1. CASE k = m + 1
      BY <3>1
    <3>2. CASE k # m + 1 /\ k # 0
      <4>1. k \in 0..m /\ k - 1 \in 0..m /\ k - 1 # m + 1 /\ k - 1 \in 0..(m + 1)
        BY <3>2
      <4>2. g[k] = f[k] /\ g[k - 1] = f[k - 1]
        BY <3>2, <4>1
      <4> HIDE DEF g
      <4> QED BY <2>2, <3>2, <4>1, <4>2
    <3>3. CASE k = 0
      <4>1. 0 \in 0..m /\ 0 # m + 1
        OBVIOUS
      <4> QED BY <2>2, <3>3, <4>1
    <3> QED BY <3>1, <3>2, <3>3
  <2>4. g = [k \in 0..(m + 1) |-> Step(g, k)]
    <3> DEFINE h == [k \in 0..(m + 1) |-> Step(g, k)]
    <3>1. \A k \in 0..(m + 1) : g[k] = h[k]
      <4> HIDE DEF g, Step
      <4> QED BY <2>3
    <3>2. DOMAIN g = 0..(m + 1) /\ DOMAIN h = 0..(m + 1)
      OBVIOUS
    <3>3. g = [k \in DOMAIN g |-> g[k]] /\ h = [k \in DOMAIN h |-> h[k]]
      OBVIOUS
    <3> HIDE DEF g, h
    <3>4. g = h
      BY <3>1, <3>2, <3>3
    <3> QED BY <3>4 DEF h
  <2> HIDE DEF g, Step
  <2> QED BY <2>4
<1>3. Len(s) \in D
  <2> HIDE DEF D
  <2>1. Nat \subseteq D
    BY <1>1, <1>2, NatSet
  <2> QED BY <2>1
<1>4. Fills(all, Len(s))
  BY <1>3
<1>5. \A n : Kept(s, S, n) = all[n]
  BY DEF Kept
<1>6. \A k \in 0..Len(s) : all[k] = Step(all, k)
  <2> HIDE DEF all, Step
  <2> QED BY <1>4
<1> HIDE DEF all
<1>7. all[0] = <<>>
  <2>1. 0 \in 0..Len(s)
    OBVIOUS
  <2> QED BY <1>6, <2>1
<1>8. ASSUME NEW n \in 1..Len(s) PROVE all[n] = More(s[n], all[n - 1])
  <2>1. n \in 0..Len(s) /\ n # 0
    OBVIOUS
  <2> QED BY <1>6, <2>1
<1> QED BY <1>5, <1>7, <1>8

(* A sequence up to a length.                                               *)
LEMMA BoundedIs ==
  ASSUME NEW S, NEW n \in Nat, NEW s
  PROVE  s \in BoundedSeq(S, n) <=> s \in Seq(S) /\ Len(s) <= n
<1>1. ASSUME s \in BoundedSeq(S, n) PROVE s \in Seq(S) /\ Len(s) <= n
  <2>1. PICK m \in 0..n : s \in [1..m -> S]
    BY <1>1 DEF BoundedSeq, SeqOf
  <2>2. s \in Seq(S)
    BY <2>1, SeqDef
  <2>3. Len(s) = m
    BY <2>1, <2>2
  <2> QED BY <2>2, <2>3
<1>2. ASSUME s \in Seq(S), Len(s) <= n PROVE s \in BoundedSeq(S, n)
  <2>1. Len(s) \in 0..n /\ s \in [1..Len(s) -> S]
    BY <1>2
  <2> QED BY <2>1 DEF BoundedSeq, SeqOf
<1> QED BY <1>1, <1>2

-----------------------------------------------------------------------------
(* One entry more.                                                          *)
LEMMA EntryIs ==
  ASSUME IInv, MoreEntries
  PROVE  /\ pc = "entries" /\ i \in Nat /\ i + 1 \in 1..Len(entries) /\ Len(entries) \in Nat
         /\ \A S : Kept(entries, S, i + 1) = IF entries[i + 1] \in S THEN Append(Kept(entries, S, i), entries[i + 1])
                                                                   ELSE Kept(entries, S, i)
<1>1. entries \in Seq(Lines \cup Sent) /\ i \in 0..Len(entries)
  BY DEF IInv, SendInv, TypeOK
<1>2. pc = "entries" /\ i \in Nat /\ i + 1 \in 1..Len(entries) /\ Len(entries) \in Nat
  BY <1>1 DEF MoreEntries
<1>3. (i + 1) - 1 = i
  BY <1>2
<1>4. ASSUME NEW S
      PROVE  Kept(entries, S, i + 1) = IF entries[i + 1] \in S THEN Append(Kept(entries, S, i), entries[i + 1])
                                                               ELSE Kept(entries, S, i)
  <2>1. \A n \in 1..Len(entries) :
          Kept(entries, S, n) = IF entries[n] \in S THEN Append(Kept(entries, S, n - 1), entries[n])
                                                    ELSE Kept(entries, S, n - 1)
    BY <1>1, KeptIs
  <2> QED BY <1>2, <1>3, <2>1
<1> QED BY <1>2, <1>4

(* The form and the header list follow the entries.                         *)
LEMMA SendKept ==
  ASSUME IInv, [Next]_vars
  PROVE  SendInv'
<1>1. SendInv /\ TypeOK /\ OutcomeInv
  BY DEF IInv
<1>2. /\ entries \in Seq(Lines \cup Sent) /\ Len(entries) \in Nat /\ Len(entries) <= MaxEntries /\ i \in 0..Len(entries)
      /\ posted \in Seq(Sent) /\ Len(posted) \in Nat /\ Len(posted) <= i /\ strings \in Nat
      /\ kind \in Kinds /\ ret \in {-1, 0}
  BY <1>1 DEF SendInv, TypeOK
<1>3. Kept(entries, {"valued"}, 0) = <<>>
  BY <1>2, KeptIs
<1>4. CASE AddField
  <2>1. MoreEntries /\ kind = "create" /\ UNCHANGED <<kind, entries, strings, stranded, ret>>
    BY <1>4 DEF AddField, callVars
  <2>2. CASE pc' = "cleanup" /\ UNCHANGED <<i, posted>>
    BY <1>1, <1>2, <2>1, <2>2, EntryIs DEF SendInv, Posting
  <2>3. CASE entries[i + 1] = "valued" /\ posted' = Append(posted, entries[i + 1]) /\ i' = i + 1 /\ pc' = "entries"
    <3>1. posted' \in Seq(Sent) /\ Len(posted') = Len(posted) + 1
      <4>1. entries[i + 1] \in Sent
        BY <2>3 DEF Sent
      <4> QED BY <1>2, <2>3, <4>1
    <3>2. posted = Kept(entries, {"valued"}, i)
      BY <1>1, <2>1, EntryIs DEF SendInv, Posting
    <3>3. posted' = Kept(entries, {"valued"}, i + 1)
      BY <2>1, <2>3, <3>2, EntryIs
    <3> QED BY <1>1, <1>2, <2>1, <2>3, <3>1, <3>3, EntryIs DEF SendInv, Posting
  <2> QED BY <1>4, <2>2, <2>3 DEF AddField, Goto, FailAt
<1>5. CASE SkipHeader
  <2>1. /\ MoreEntries /\ kind = "update" /\ entries[i + 1] = "valueless" /\ i' = i + 1 /\ pc' = "entries"
        /\ UNCHANGED <<kind, entries, posted, strings, stranded, ret>>
    BY <1>5 DEF SkipHeader, Goto, callVars, sendVars
  <2>2. posted = Kept(entries, {"valued"}, i)
    BY <1>1, <2>1, EntryIs DEF SendInv, Posting
  <2>3. posted = Kept(entries, {"valued"}, i + 1)
    BY <2>1, <2>2, EntryIs
  <2> QED BY <1>1, <1>2, <2>1, <2>3, EntryIs DEF SendInv, Posting
<1>6. CASE AddHeader
  <2>1. MoreEntries /\ kind = "update" /\ entries[i + 1] = "valued" /\ UNCHANGED <<kind, entries, ret>>
    BY <1>6 DEF AddHeader, callVars
  <2>2. pc = "entries" /\ ~stranded
    BY <1>1, <2>1, EntryIs DEF SendInv
  <2>3. CASE /\ strings' = strings + 1 /\ posted' = Append(posted, entries[i + 1]) /\ i' = i + 1
             /\ pc' = "entries" /\ stranded' = stranded
    <3>1. posted' \in Seq(Sent) /\ Len(posted') = Len(posted) + 1
      <4>1. entries[i + 1] \in Sent
        BY <2>1 DEF Sent
      <4> QED BY <1>2, <2>3, <4>1
    <3>2. posted = Kept(entries, {"valued"}, i)
      BY <1>1, <2>1, <2>2 DEF SendInv, Posting
    <3>3. posted' = Kept(entries, {"valued"}, i + 1)
      BY <2>1, <2>3, <3>2, EntryIs
    <3> QED BY <1>1, <1>2, <2>1, <2>2, <2>3, <3>1, <3>3, EntryIs DEF SendInv, Posting
  <2>4. CASE posted' = <<>> /\ i' = i /\ pc' = "cleanup"
    <3>1. posted' \in Seq(Sent) /\ Len(posted') = 0
      BY <2>4
    <3> QED BY <1>1, <1>2, <2>1, <2>2, <2>4, <3>1 DEF SendInv, Posting, OutcomeInv
  <2>5. CASE UNCHANGED <<i, posted, strings, stranded>> /\ pc' = "cleanup"
    BY <1>1, <1>2, <2>1, <2>2, <2>5 DEF SendInv, Posting
  <2> QED BY <1>6, <2>3, <2>4, <2>5 DEF AddHeader, Goto, FailAt, sendVars
<1>7. CASE EntriesBuilt
  BY <1>1, <1>2, <1>7 DEF EntriesBuilt, Goto, SendInv, Posting, callVars, sendVars
<1>8. CASE SkipLine \/ ReadLine
  <2>1. /\ MoreEntries /\ kind = "metadata" /\ UNCHANGED <<kind, entries, posted, strings, stranded, ret>>
        /\ \/ i' = i + 1 /\ pc' = "entries"
           \/ i' = i /\ pc' = "cleanup"
    <3>1. CASE SkipLine
      BY <3>1 DEF SkipLine, Goto, callVars, sendVars
    <3>2. CASE ReadLine
      BY <3>2 DEF ReadLine, Goto, FailAt, callVars, sendVars
    <3> QED BY <1>8, <3>1, <3>2
  <2> QED BY <1>1, <1>2, <2>1, EntryIs DEF SendInv, Posting
<1>9. CASE CheckArguments \/ FindLink \/ BuildUrl \/ BuildForm
  <2>1. /\ pc \in {"check", "link", "build"} /\ UNCHANGED <<kind, entries, i, posted, strings, stranded, ret>>
        /\ pc' \in {"link", "build", "entries", "cleanup", "done", "crashed"}
             \/ (pc' = "transfer" /\ ~Posting)
    BY <1>9 DEF CheckArguments, FindLink, BuildUrl, BuildForm, Goto, FailAt, callVars, sendVars, Posting, Kinds
  <2> QED BY <1>1, <1>2, <1>3, <2>1 DEF SendInv, Posting
<1>10. CASE BuildHref \/ TransferFails \/ TransferCrashes \/ TransferSucceeds \/ ClassifyAnswer
            \/ RefusalCrashes \/ ClassifyContent \/ OpenHeaders \/ LinesRead \/ Cleanup
  <2>1. /\ UNCHANGED <<kind, entries, i, posted, strings, stranded>>
        /\ ret' = ret \/ pc \notin {"cleanup", "done"}
        /\ pc' \in {"cleanup", "classify", "open", "done", "crashed"} \/ (pc = "href" /\ pc' = "transfer")
             \/ (pc = "open" /\ pc' = "entries")
        /\ pc = "cleanup" => pc' = "done"
        /\ pc # "done"
    BY <1>10 DEF BuildHref, TransferFails, TransferCrashes, TransferSucceeds, ClassifyAnswer, RefusalCrashes,
     ClassifyContent, OpenHeaders,
         LinesRead, Cleanup, Goto, FailAt, callVars, sendVars
  <2>2. pc = "open" => ~Posting
    BY DEF IInv, HeapInv, Posting
  <2> QED BY <1>1, <1>2, <2>1, <2>2 DEF SendInv, Posting
<1>11. CASE UNCHANGED vars
  BY <1>1, <1>11 DEF vars, SendInv, Posting
<1> QED BY <1>4, <1>5, <1>6, <1>7, <1>8, <1>9, <1>10, <1>11, Zenon DEF Next, Ended

-----------------------------------------------------------------------------
(* The names of one parameter more.                                         *)
LEMMA NamesAppend ==
  ASSUME NEW r \in Seq(Parameter), NEW q \in Parameter
  PROVE  Names(Append(r, q)) = Append(Names(r), q.name)
<1> DEFINE a == Names(Append(r, q))
           b == Append(Names(r), q.name)
<1>1. Names(r) \in Seq(Strings) /\ Len(Names(r)) = Len(r) /\ \A n \in 1..Len(r) : Names(r)[n] = r[n].name
  <2>1. DOMAIN r = 1..Len(r) /\ Len(r) \in Nat
    OBVIOUS
  <2>2. \A n \in 1..Len(r) : r[n].name \in Strings
    <3>1. \A n \in 1..Len(r) : r[n] \in Parameter
      BY ElementOfSeq
    <3> QED BY <3>1 DEF Parameter
  <2>3. Names(r) = [n \in 1..Len(r) |-> r[n].name]
    BY <2>1 DEF Names
  <2>4. Names(r) \in [1..Len(r) -> Strings]
    BY <2>2, <2>3
  <2> QED BY <2>1, <2>3, <2>4
<1>2. /\ Append(r, q) \in Seq(Parameter) /\ Len(Append(r, q)) = Len(r) + 1 /\ Len(r) \in Nat
      /\ \A n \in 1..Len(r) : Append(r, q)[n] = r[n]
      /\ Append(r, q)[Len(r) + 1] = q
  BY AppendProperties
<1>3. DOMAIN Append(r, q) = 1..(Len(r) + 1)
  BY <1>2, LenProperties
<1>4. a = [n \in 1..(Len(r) + 1) |-> IF n = Len(r) + 1 THEN q.name ELSE r[n].name]
  <2>1. a = [n \in 1..(Len(r) + 1) |-> Append(r, q)[n].name]
    BY <1>3 DEF Names
  <2>2. \A n \in 1..(Len(r) + 1) :
          Append(r, q)[n].name = IF n = Len(r) + 1 THEN q.name ELSE r[n].name
    <3> SUFFICES ASSUME NEW n \in 1..(Len(r) + 1)
                 PROVE  Append(r, q)[n].name = IF n = Len(r) + 1 THEN q.name ELSE r[n].name
      OBVIOUS
    <3>1. n = Len(r) + 1 \/ n \in 1..Len(r)
      BY <1>2
    <3>2. Len(r) + 1 \notin 1..Len(r)
      BY <1>2
    <3> QED BY <1>2, <3>1, <3>2
  <2> QED BY <2>1, <2>2
<1>5. b = [n \in 1..(Len(r) + 1) |-> IF n = Len(r) + 1 THEN q.name ELSE r[n].name]
  <2>1. q.name \in Strings
    BY DEF Parameter
  <2>2. /\ b \in Seq(Strings) /\ Len(b) = Len(r) + 1
        /\ \A n \in 1..Len(r) : b[n] = r[n].name
        /\ b[Len(r) + 1] = q.name
    <3>1. /\ Append(Names(r), q.name) \in Seq(Strings) /\ Len(Append(Names(r), q.name)) = Len(Names(r)) + 1
          /\ \A n \in 1..Len(Names(r)) : Append(Names(r), q.name)[n] = Names(r)[n]
          /\ Append(Names(r), q.name)[Len(Names(r)) + 1] = q.name
      BY <1>1, <2>1, AppendProperties
    <3> QED BY <1>1, <3>1
  <2>3. b = [n \in 1..(Len(r) + 1) |-> b[n]]
    <3> HIDE DEF b
    <3>1. DOMAIN b = 1..(Len(r) + 1) /\ b = [n \in DOMAIN b |-> b[n]]
      BY <2>2
    <3> QED BY <3>1
  <2>4. \A n \in 1..(Len(r) + 1) : b[n] = IF n = Len(r) + 1 THEN q.name ELSE r[n].name
    <3> HIDE DEF b
    <3> SUFFICES ASSUME NEW n \in 1..(Len(r) + 1)
                 PROVE  b[n] = IF n = Len(r) + 1 THEN q.name ELSE r[n].name
      OBVIOUS
    <3>1. n = Len(r) + 1 \/ n \in 1..Len(r)
      BY <1>2
    <3>2. Len(r) + 1 \notin 1..Len(r)
      BY <1>2
    <3> QED BY <2>2, <3>1, <3>2
  <2> HIDE DEF b
  <2> QED BY <2>3, <2>4
<1> QED BY <1>4, <1>5

(* The array the client is given follows the lines.                         *)
LEMMA ReadKept ==
  ASSUME IInv, [Next]_vars
  PROVE  ReadInv'
<1>1. SendInv /\ TypeOK /\ OutcomeInv /\ ReadInv /\ HeapInv
  BY DEF IInv
<1>2. /\ entries \in Seq(Lines \cup Sent) /\ Len(entries) \in Nat /\ i \in 0..Len(entries)
      /\ kind \in Kinds /\ ret \in {-1, 0}
  BY <1>1 DEF SendInv, TypeOK
<1>3. Read \in Seq(Parameter)
  BY <1>1 DEF Read, ReadInv
<1>4. CASE ReadLine
  <2> DEFINE line == entries[i + 1]
             parameter(value) == [name |-> NameOf(line), value |-> value]
  <2>1. /\ MoreEntries /\ kind = "metadata" /\ line \in {"plain", "colon"}
        /\ UNCHANGED <<kind, entries, count, ret>>
    BY <1>4 DEF ReadLine, callVars
  <2>2. pc = "entries" /\ ret = -1
    BY <1>1, <2>1, EntryIs DEF OutcomeInv
  <2>3. ASSUME NEW value \in {ValueOf(line), NULL}, params' = Append(Read, parameter(value)),
               i' = i + 1, pc' = "entries"
        PROVE  ReadInv'
    <3>1. parameter(value) \in Parameter /\ parameter(value).name = NameOf(line)
      BY DEF Parameter, Strings, NameOf, ValueOf
    <3> HIDE DEF parameter
    <3>2. params' \in Seq(Parameter) /\ Len(params') = Len(Read) + 1
      BY <1>3, <2>3, <3>1
    <3>3. Read' = params'
      BY <3>2, ConstantsAssumption DEF Read
    <3>4. Len(Read') <= i'
      BY <1>1, <1>2, <1>3, <2>1, <2>2, <2>3, <3>2, <3>3 DEF ReadInv
    <3>5. ASSUME PlainOnly PROVE Names(Read') = Kept(entries, {"plain"}, i + 1)
      <4>1. line = "plain"
        <5>1. i + 1 \in 1..Len(entries)
          BY <2>1, EntryIs
        <5>2. line \in ToSet(entries)
          BY <5>1 DEF ToSet
        <5> QED BY <2>1, <3>5, <5>2 DEF PlainOnly
      <4>2. Names(Read') = Append(Names(Read), "plain")
        BY <1>3, <2>3, <3>1, <3>3, <4>1, NamesAppend DEF NameOf
      <4>3. Names(Read) = Kept(entries, {"plain"}, i)
        BY <1>1, <2>1, <2>2, <3>5 DEF ReadInv
      <4> QED BY <2>1, <4>1, <4>2, <4>3, EntryIs
    <3>6. PlainOnly' = PlainOnly
      BY <2>1 DEF PlainOnly
    <3> QED BY <2>1, <2>2, <2>3, <3>2, <3>3, <3>4, <3>5, <3>6 DEF ReadInv, Posting
  <2>4. ASSUME params' \in {NULL, Append(Read, [name |-> NULL, value |-> "garbage"])}, pc' = "cleanup"
        PROVE  ReadInv'
    <3>1. [name |-> NULL, value |-> "garbage"] \in Parameter
      BY DEF Parameter, Strings
    <3>2. params' = NULL \/ params' \in Seq(Parameter)
      BY <1>3, <2>4, <3>1, AppendProperties
    <3> QED BY <2>1, <2>2, <2>4, <3>2 DEF ReadInv, Posting
  <2> QED BY <1>4, <2>3, <2>4 DEF ReadLine, Goto, FailAt
<1>5. CASE SkipLine
  <2>1. /\ MoreEntries /\ kind = "metadata" /\ entries[i + 1] \in {"long", "other"}
        /\ UNCHANGED <<kind, entries, count, ret, params>> /\ i' = i + 1 /\ pc' = "entries"
    BY <1>5 DEF SkipLine, Goto, callVars, readVars
  <2>2. pc = "entries" /\ ret = -1 /\ Read' = Read
    BY <1>1, <2>1, EntryIs DEF OutcomeInv, Read
  <2>3. Kept(entries, {"plain"}, i + 1) = Kept(entries, {"plain"}, i)
    BY <2>1, EntryIs
  <2>4. Len(Read) <= i + 1
    BY <1>1, <1>2, <1>3, <2>1, <2>2 DEF ReadInv
  <2> QED BY <1>1, <2>1, <2>2, <2>3, <2>4 DEF ReadInv, Posting, PlainOnly
<1>6. CASE LinesRead
  <2>1. /\ pc = "entries" /\ i = Len(entries) /\ kind = "metadata" /\ count' = Len(Read) /\ pc' = "cleanup"
        /\ UNCHANGED <<kind, entries, params>>
    BY <1>6 DEF LinesRead, Goto, callVars
  <2> QED BY <1>1, <2>1 DEF ReadInv, Posting, PlainOnly, Read
<1>7. CASE OpenHeaders
  <2>1. /\ pc = "open" /\ kind = "metadata" /\ UNCHANGED <<kind, entries, i, params, count, ret>>
        /\ pc' \in {"crashed", "cleanup", "entries"}
    BY <1>1, <1>7 DEF OpenHeaders, Goto, FailAt, callVars, readVars, HeapInv
  <2>2. params = NULL /\ i = 0 /\ ret = -1
    BY <1>1, <2>1 DEF ReadInv, Posting, OutcomeInv
  <2>3. Len(Read) = 0 /\ Names(Read) = <<>> /\ Kept(entries, {"plain"}, 0) = <<>>
    BY <1>2, <2>2, KeptIs DEF Read, Names
  <2> QED BY <2>1, <2>2, <2>3 DEF ReadInv, Posting, PlainOnly, Read
<1>8. CASE AddField \/ SkipHeader \/ AddHeader
  <2>1. Posting /\ UNCHANGED <<kind, entries, params, count, ret>> /\ pc = "entries"
    <3>1. MoreEntries /\ Posting /\ UNCHANGED <<kind, entries, params, count, ret>>
      BY <1>8 DEF AddField, SkipHeader, AddHeader, Posting, callVars, readVars
    <3> QED BY <3>1, EntryIs
  <2> QED BY <1>1, <2>1 DEF ReadInv, Posting
<1>9. CASE \/ CheckArguments \/ FindLink \/ BuildUrl \/ BuildForm \/ EntriesBuilt \/ BuildHref
           \/ TransferFails \/ TransferCrashes \/ TransferSucceeds \/ RefusalCrashes
  <2>1. /\ UNCHANGED <<kind, entries, i, params, count, ret>>
        /\ Posting \/ pc \notin {"entries", "cleanup", "done"}
        /\ pc \notin {"cleanup", "done"} /\ pc' = "entries" => Posting
    BY <1>2, <1>9 DEF CheckArguments, FindLink, BuildUrl, BuildForm, EntriesBuilt, BuildHref, TransferFails, TransferCrashes,
         TransferSucceeds, RefusalCrashes, Goto, FailAt, callVars, readVars, Posting, Kinds
  <2>2. pc \notin {"cleanup", "done"}
    BY <1>9 DEF CheckArguments, FindLink, BuildUrl, BuildForm, EntriesBuilt, BuildHref,
       TransferFails, TransferCrashes, TransferSucceeds, RefusalCrashes
  <2>3. ret = -1 /\ params = NULL
    BY <1>1, <2>1, <2>2 DEF OutcomeInv, ReadInv
  <2> QED BY <1>1, <2>1, <2>2, <2>3 DEF ReadInv, Posting, Kinds
<1>10. CASE ClassifyAnswer \/ ClassifyContent
  <2>1. /\ UNCHANGED <<kind, entries, i, params, count>> /\ pc' = "cleanup" /\ kind # "metadata"
    BY <1>10 DEF ClassifyAnswer, ClassifyContent, Goto, FailAt, callVars, readVars
  <2> QED BY <1>1, <2>1 DEF ReadInv, Posting
<1>11. CASE Cleanup
  <2>1. UNCHANGED <<kind, entries, i, params, count, ret>> /\ pc = "cleanup" /\ pc' = "done"
    BY <1>11 DEF Cleanup, Goto, callVars, readVars
  <2> QED BY <1>1, <2>1 DEF ReadInv, Posting, PlainOnly, Read
<1>12. CASE UNCHANGED vars
  BY <1>1, <1>12 DEF vars, ReadInv, Posting, PlainOnly, Read
<1> QED BY <1>4, <1>5, <1>6, <1>7, <1>8, <1>9, <1>10, <1>11, <1>12, Zenon DEF Next, Ended

-----------------------------------------------------------------------------
(* What a transfer that succeeds hands over.                                *)
LEMMA ResultIs ==
  ASSUME NEW result \in Succeeded(Reply)
  PROVE  /\ result.data # NULL => answer # "none" /\ result.data[1] = CStringOf[answer]
         /\ result.header # NULL => kind = "metadata"
<1>1. result.data \in CopyOf(Reply.body) /\ result.header \in CopyOf(Reply.header) \cup {NULL}
  BY DEF Succeeded
<1>2. Reply.body = IF answer = "none" THEN <<>> ELSE <<CStringOf[answer]>>
  BY DEF Reply
<1>3. Reply.header = IF kind = "metadata" THEN <<entries>> ELSE <<>>
  BY DEF Reply
<1>4. result.data # NULL => answer # "none" /\ result.data = <<CStringOf[answer]>>
  BY <1>1, <1>2 DEF CopyOf
<1> QED BY <1>1, <1>3, <1>4 DEF CopyOf

(* Each call owns only what its own cleanup frees.                          *)
LEMMA HeapKept ==
  ASSUME IInv, [Next]_vars
  PROVE  HeapInv'
<1>1. HeapInv /\ OutcomeInv /\ kind \in Kinds
  BY DEF IInv, TypeOK
<1>2. UNCHANGED callVars
  BY DEF Next, CheckArguments, FindLink, BuildUrl, BuildForm, AddField, SkipHeader, AddHeader, EntriesBuilt,
     BuildHref, TransferFails, TransferCrashes, TransferSucceeds, ClassifyAnswer, RefusalCrashes,
     ClassifyContent, OpenHeaders, SkipLine,
     ReadLine, LinesRead, Cleanup, Ended, vars, callVars
<1>3. kind' = kind /\ answer' = answer /\ Freed' = Freed
  BY <1>2 DEF callVars, Freed
<1>4. CASE TransferSucceeds
  <2>1. PICK result \in Succeeded(Reply) :
          IF kind = "content" THEN heap' = heap
          ELSE heap' = heap \cup (IF (IF result.data = NULL THEN NULL ELSE result.data[1]) = NULL THEN {} ELSE {"data"})
                            \cup (IF result.header = NULL THEN {} ELSE {"headers"})
    BY <1>4 DEF TransferSucceeds
  <2>2. "data" \in heap' => "data" \in heap \/ answer # "none"
    BY <2>1, ResultIs
  <2>3. "headers" \in heap' => "headers" \in heap \/ kind = "metadata"
    BY <2>1, ResultIs
  <2>4. heap' \subseteq heap \cup {"data", "headers"} /\ (kind = "content" => heap' = heap)
    BY <2>1
  <2>5. pc = "transfer" /\ pc' = IF kind = "metadata" THEN "open" ELSE "classify"
    BY <1>4 DEF TransferSucceeds, Goto
  <2>6. heap \subseteq Freed /\ (kind = "metadata" => answer = "none")
    BY <1>1, <2>5 DEF HeapInv
  <2>7. heap' \subseteq Freed
    BY <1>1, <2>2, <2>3, <2>4, <2>6 DEF Freed, Kinds
  <2> QED BY <1>3, <2>5, <2>6, <2>7 DEF HeapInv
<1>5. CASE CheckArguments \/ FindLink
  BY <1>1, <1>3, <1>5 DEF CheckArguments, FindLink, Goto, FailAt, HeapInv
<1>6. CASE BuildUrl
  BY <1>1, <1>3, <1>6 DEF BuildUrl, Goto, FailAt, HeapInv, Freed
<1>7. CASE BuildForm
  BY <1>1, <1>3, <1>7 DEF BuildForm, Goto, FailAt, HeapInv, Freed
<1>8. CASE AddField \/ SkipHeader \/ SkipLine
  <2>1. pc = "entries" /\ pc' \in {"entries", "cleanup"} /\ heap' = heap /\ (pc' = "cleanup" => kind # "metadata")
    BY <1>8 DEF AddField, SkipHeader, SkipLine, Goto, FailAt, MoreEntries
  <2> QED BY <1>1, <1>3, <2>1 DEF HeapInv
<1>9. CASE AddHeader
  <2>1. pc = "entries" /\ kind = "update" /\ heap' \subseteq heap \cup {"list"} /\ pc' \in {"entries", "cleanup"}
    BY <1>9 DEF AddHeader, MoreEntries, Goto, FailAt
  <2> QED BY <1>1, <1>3, <2>1 DEF HeapInv, Freed
<1>10. CASE EntriesBuilt
  <2>1. pc = "entries" /\ pc' \in {"href", "transfer"} /\ heap' = heap /\ kind # "metadata"
    BY <1>10 DEF EntriesBuilt, Goto
  <2> QED BY <1>1, <1>3, <2>1 DEF HeapInv
<1>11. CASE BuildHref
  <2>1. pc = "href" /\ pc' \in {"transfer", "cleanup"} /\ heap' \subseteq heap \cup {"url"}
    BY <1>11 DEF BuildHref, Goto, FailAt
  <2> QED BY <1>1, <1>3, <2>1 DEF HeapInv, Freed
<1>12. CASE TransferFails
  <2>1. /\ pc = "transfer" /\ heap' = heap /\ ret' = ret
        /\ pc' = IF kind = "content" THEN "done" ELSE "cleanup"
    BY <1>12 DEF TransferFails, FailAt
  <2>2. ret = -1 /\ heap \subseteq Freed
    BY <1>1, <2>1 DEF HeapInv, OutcomeInv
  <2> QED BY <1>1, <1>3, <2>1, <2>2 DEF HeapInv, Freed
<1>13. CASE ClassifyAnswer \/ ClassifyContent
  <2>1. pc = "classify" /\ pc' = "cleanup" /\ heap' = heap
    BY <1>13 DEF ClassifyAnswer, ClassifyContent, Goto, FailAt
  <2> QED BY <1>1, <1>3, <2>1 DEF HeapInv
<1>14. CASE OpenHeaders
  <2>1. pc = "open" /\ \/ pc' \in {"crashed", "cleanup"} /\ heap' \subseteq heap \cup {"file"}
                       \/ pc' = "entries" /\ heap' = heap \cup {"file", "regex"}
    BY <1>14 DEF OpenHeaders, Goto, FailAt
  <2> QED BY <1>1, <1>3, <2>1 DEF HeapInv, Freed
<1>15. CASE ReadLine
  <2>1. pc = "entries" /\ kind = "metadata"
        /\ \/ pc' = "entries" /\ heap' = heap
           \/ pc' = "cleanup" /\ heap' = heap \ {"regex"}
    BY <1>15 DEF ReadLine, MoreEntries, Goto, FailAt
  <2> QED BY <1>1, <1>3, <2>1 DEF HeapInv, Freed
<1>16. CASE LinesRead
  <2>1. pc = "entries" /\ kind = "metadata" /\ pc' = "cleanup" /\ heap' = heap \ {"regex"}
    BY <1>16 DEF LinesRead, Goto
  <2> QED BY <1>1, <1>3, <2>1 DEF HeapInv, Freed
<1>17. CASE Cleanup
  <2>1. pc = "cleanup" /\ pc' = "done" /\ heap' = heap \ Freed
    BY <1>17 DEF Cleanup, Goto, Freed
  <2>2. heap' = {}
    BY <1>1, <2>1 DEF HeapInv
  <2> QED BY <1>1, <1>3, <2>1, <2>2 DEF HeapInv
<1>18. CASE UNCHANGED vars
  BY <1>1, <1>3, <1>18 DEF vars, HeapInv
<1>19. CASE TransferCrashes \/ RefusalCrashes
  <2>1. pc \in {"transfer", "classify"} /\ pc' = "crashed" /\ heap' = heap
    BY <1>19 DEF TransferCrashes, RefusalCrashes, Goto
  <2> QED BY <1>1, <1>3, <2>1 DEF HeapInv, Freed
<1> QED BY <1>4, <1>5, <1>6, <1>7, <1>8, <1>9, <1>10, <1>11, <1>12, <1>13, <1>14, <1>15, <1>16, <1>17, <1>18,
           <1>19, Zenon
    DEF Next, Ended

(* Every way to the cleanup sets an error or the result.                    *)
LEMMA OutcomeKept ==
  ASSUME IInv, [Next]_vars
  PROVE  OutcomeInv'
<1>1. OutcomeInv /\ kind \in Kinds
  BY DEF IInv, TypeOK
<1>2. None \notin Errors /\ errcode \in Errors /\ refusal \in Errors /\ {"OOM", "INTERNAL", "INVALID_ARGUMENT", "URL_DOES_NOT_EXIST"} \subseteq Errors
  BY <1>1, ConstantsAssumption DEF errcode, refusal, Errors, Kinds
<1>3. ASSUME NEW e \in Errors, NEW label \in {"cleanup", "done"}, FailAt(label, e), ret' = ret, pc \notin {"cleanup", "done"}
      PROVE  OutcomeInv'
  BY <1>1, <1>2, <1>3 DEF OutcomeInv, FailAt
<1>4. ASSUME NEW label, label \notin {"cleanup", "done"}, Goto(label), ret' = ret, pc \notin {"cleanup", "done"}
      PROVE  OutcomeInv'
  BY <1>1, <1>4 DEF OutcomeInv, Goto
<1>5. ASSUME Goto("cleanup"), ret' = 0, pc \notin {"cleanup", "done"}
      PROVE  OutcomeInv'
  BY <1>1, <1>5 DEF OutcomeInv, Goto
<1>6. CASE CheckArguments \/ FindLink
  BY <1>2, <1>3, <1>4, <1>6 DEF CheckArguments, FindLink
<1>7. CASE BuildUrl
  <2>1. pc = "build" /\ ret' = ret /\ (FailAt("done", "OOM") \/ Goto(IF kind = "update" THEN "entries" ELSE "transfer"))
    BY <1>7 DEF BuildUrl
  <2> QED BY <1>2, <1>3, <1>4, <2>1
<1>8. CASE BuildForm
  BY <1>2, <1>3, <1>4, <1>8 DEF BuildForm
<1>9. CASE AddField \/ SkipHeader \/ SkipLine
  BY <1>2, <1>3, <1>4, <1>9 DEF AddField, SkipHeader, SkipLine, MoreEntries
<1>10. CASE AddHeader
  BY <1>2, <1>3, <1>4, <1>10 DEF AddHeader, MoreEntries
<1>11. CASE EntriesBuilt
  <2>1. pc = "entries" /\ ret' = ret /\ Goto(IF kind = "create" THEN "href" ELSE "transfer")
    BY <1>11 DEF EntriesBuilt
  <2> QED BY <1>4, <2>1
<1>12. CASE BuildHref
  BY <1>2, <1>3, <1>4, <1>12 DEF BuildHref
<1>13. CASE TransferFails
  <2>1. PICK result \in Failed({errcode, "OOM"}) : FailAt(IF kind = "content" THEN "done" ELSE "cleanup", result.error)
    BY <1>13 DEF TransferFails
  <2>2. result.error \in Errors
    BY <1>2 DEF Failed
  <2> QED BY <1>3, <1>13, <2>1, <2>2 DEF TransferFails
<1>14. CASE TransferSucceeds
  <2>1. pc = "transfer" /\ ret' = ret /\ Goto(IF kind = "metadata" THEN "open" ELSE "classify")
    BY <1>14 DEF TransferSucceeds
  <2> QED BY <1>4, <2>1
<1>15. CASE ClassifyAnswer
  BY <1>2, <1>3, <1>5, <1>15 DEF ClassifyAnswer
<1>16. CASE ClassifyContent
  BY <1>2, <1>3, <1>5, <1>16 DEF ClassifyContent
<1>17. CASE OpenHeaders
  BY <1>2, <1>3, <1>4, <1>17 DEF OpenHeaders
<1>18. CASE ReadLine
  BY <1>2, <1>3, <1>4, <1>18 DEF ReadLine, MoreEntries
<1>19. CASE LinesRead
  BY <1>5, <1>19 DEF LinesRead
<1>20. CASE Cleanup
  BY <1>1, <1>20 DEF Cleanup, Goto, OutcomeInv
<1>21. CASE UNCHANGED vars
  BY <1>1, <1>21 DEF vars, OutcomeInv
<1>22. CASE TransferCrashes \/ RefusalCrashes
  BY <1>4, <1>22 DEF TransferCrashes, RefusalCrashes
<1> QED BY <1>6, <1>7, <1>8, <1>9, <1>10, <1>11, <1>12, <1>13, <1>14, <1>15, <1>16, <1>17, <1>18, <1>19, <1>20, <1>21,
           <1>22, Zenon DEF Next, Ended

(* Every step keeps the types.                                              *)
LEMMA TypeKept ==
  ASSUME IInv, [Next]_vars
  PROVE  TypeOK'
<1>1. TypeOK /\ SendInv /\ ReadInv /\ HeapInv /\ SendInv' /\ ReadInv'
  BY SendKept, ReadKept DEF IInv
<1>2. MaxEntries \in Nat
  BY ConstantsAssumption
<1> DEFINE Bounded == posted \in BoundedSeq(Sent, MaxEntries)
           Array == params = NULL \/ params \in Seq(Parameter)
           Counted == count \in 0..MaxEntries \cup {NULL}
           Rest == /\ pc \in {"check", "link", "build", "entries", "href", "transfer", "classify", "open",
                              "cleanup", "done", "crashed"}
                   /\ strings \in 0..MaxEntries /\ stranded \in BOOLEAN
                   /\ heap \subseteq {"url", "form", "list", "data", "headers", "file", "regex"}
                   /\ data \in {"content", "cut", "error", NULL}
                   /\ output \in {"earlier", "content", "cut", "error", NULL}
                   /\ ret \in {-1, 0}
                   /\ error \in Errors \cup {None}
<1>3. Rest /\ Counted /\ i \in 0..Len(entries) /\ kind \in Kinds
      /\ answer \in Answers
  BY <1>1 DEF TypeOK
<1>4. UNCHANGED callVars
  BY DEF Next, CheckArguments, FindLink, BuildUrl, BuildForm, AddField, SkipHeader, AddHeader, EntriesBuilt,
     BuildHref, TransferFails, TransferCrashes, TransferSucceeds, ClassifyAnswer, RefusalCrashes,
     ClassifyContent, OpenHeaders, SkipLine,
     ReadLine, LinesRead, Cleanup, Ended, vars, callVars
<1>5. kind' = kind /\ entries' = entries /\ answer' = answer
  BY <1>4 DEF callVars
<1>6. Len(entries) \in Nat /\ Len(entries) <= MaxEntries
  BY <1>1 DEF SendInv
<1>7. (i \in 0..Len(entries))'
  <2>1. i' = i \/ (MoreEntries /\ i' = i + 1)
    BY DEF Next, CheckArguments, FindLink, BuildUrl, BuildForm, AddField, SkipHeader, AddHeader, EntriesBuilt,
       BuildHref, TransferFails, TransferCrashes, TransferSucceeds, ClassifyAnswer, RefusalCrashes,
     ClassifyContent, OpenHeaders, SkipLine,
       ReadLine, LinesRead, Cleanup, Ended, vars
  <2> QED BY <1>3, <1>5, <1>6, <2>1 DEF MoreEntries
<1>8. Bounded'
  <2>1. posted' \in Seq(Sent) /\ Len(posted') <= i' /\ Len(posted') \in Nat
    BY <1>1 DEF SendInv
  <2>2. Len(posted') <= MaxEntries
    BY <1>2, <1>5, <1>6, <1>7, <2>1
  <2> QED BY <1>2, <2>1, <2>2, BoundedIs
<1>9. Counted'
  <2>1. CASE LinesRead
    <3>1. count' = Len(Read) /\ Len(Read) <= i
      BY <1>1, <2>1 DEF LinesRead, ReadInv
    <3>2. Read \in Seq(Parameter)
      BY <1>1 DEF Read, ReadInv
    <3>3. Len(Read) \in Nat
      BY <3>2
    <3> QED BY <1>2, <1>3, <1>6, <3>1, <3>3
  <2>2. CASE count' = count
    BY <1>3, <2>2
  <2>3. LinesRead \/ count' = count
    BY DEF Next, CheckArguments, FindLink, BuildUrl, BuildForm, AddField, SkipHeader, AddHeader, EntriesBuilt,
       BuildHref, TransferFails, TransferCrashes, TransferSucceeds, ClassifyAnswer, RefusalCrashes,
     ClassifyContent, OpenHeaders, SkipLine,
       ReadLine, Cleanup, Ended, vars, readVars
  <2> QED BY <2>1, <2>2, <2>3
<1>10. Rest'
  <2>1. errcode \in Errors /\ refusal \in Errors /\ {"OOM", "INTERNAL", "INVALID_ARGUMENT", "URL_DOES_NOT_EXIST"} \subseteq Errors
    BY <1>3 DEF errcode, refusal, Errors, Kinds
  <2>2. ASSUME NEW e \in Errors, NEW label \in {"link", "build", "entries", "href", "transfer", "classify", "open",
                                               "cleanup", "done", "crashed"},
               Goto(label) \/ FailAt(label, e)
        PROVE  /\ error' \in Errors \cup {None}
               /\ pc' \in {"link", "build", "entries", "href", "transfer", "classify", "open",
                           "cleanup", "done", "crashed"}
    BY <1>3, <2>2 DEF Goto, FailAt
  <2>3. CASE CheckArguments \/ FindLink
    BY <1>3, <2>1, <2>2, <2>3 DEF CheckArguments, FindLink, sendVars
  <2>4. CASE BuildUrl
    <3>1. (IF kind = "update" THEN "entries" ELSE "transfer") \in {"entries", "transfer"}
      OBVIOUS
    <3> QED BY <1>3, <2>1, <2>2, <2>4, <3>1 DEF BuildUrl, sendVars
  <2>5. CASE BuildForm
    BY <1>3, <2>1, <2>2, <2>5 DEF BuildForm, sendVars
  <2>6. CASE AddField \/ SkipHeader \/ SkipLine
    BY <1>3, <2>1, <2>2, <2>6 DEF AddField, SkipHeader, SkipLine, sendVars
  <2>7. CASE AddHeader
    <3>1. strings <= i /\ i < MaxEntries /\ strings \in Nat /\ i \in Nat
      <4>1. MoreEntries
        BY <2>7 DEF AddHeader
      <4>2. pc = "entries" /\ i + 1 \in 1..Len(entries) /\ i \in Nat
        BY <4>1, EntryIs
      <4> QED BY <1>1, <1>2, <1>3, <1>6, <4>2 DEF SendInv
    <3>2. strings' \in 0..MaxEntries
      <4>1. strings' \in {strings, strings + 1}
        BY <2>7 DEF AddHeader, sendVars
      <4> QED BY <1>2, <3>1, <4>1
    <3>3. stranded' \in BOOLEAN
      <4>1. stranded' = stranded \/ stranded' = ("list" \in heap)
        BY <2>7 DEF AddHeader, sendVars
      <4>2. CASE stranded' = ("list" \in heap)
        BY <4>2
      <4>3. CASE stranded' = stranded
        BY <1>3, <4>3
      <4> QED BY <4>1, <4>2, <4>3
    <3> QED BY <1>3, <2>1, <2>2, <2>7, <3>2, <3>3 DEF AddHeader
  <2>8. CASE EntriesBuilt
    <3>1. (IF kind = "create" THEN "href" ELSE "transfer") \in {"href", "transfer"}
      OBVIOUS
    <3> QED BY <1>3, <2>1, <2>2, <2>8, <3>1 DEF EntriesBuilt, sendVars
  <2>9. CASE BuildHref
    BY <1>3, <2>1, <2>2, <2>9 DEF BuildHref, sendVars
  <2>10. CASE TransferFails
    <3>1. PICK result \in Failed({errcode, "OOM"}) : FailAt(IF kind = "content" THEN "done" ELSE "cleanup", result.error)
      BY <2>10 DEF TransferFails
    <3>2. result.error \in Errors
      BY <2>1 DEF Failed
    <3>3. (IF kind = "content" THEN "done" ELSE "cleanup") \in {"done", "cleanup"}
      OBVIOUS
    <3> QED BY <1>3, <2>2, <2>10, <3>1, <3>2, <3>3 DEF TransferFails, sendVars
  <2>11. CASE TransferSucceeds
    <3> DEFINE body(result) == IF result.data = NULL THEN NULL ELSE result.data[1]
    <3>1. PICK result \in Succeeded(Reply) :
            IF kind = "content"
              THEN output' = (IF answer = "none" THEN output ELSE body(result)) /\ data' = data /\ heap' = heap
              ELSE /\ data' = body(result) /\ output' = output
                   /\ heap' = heap \cup (IF body(result) = NULL THEN {} ELSE {"data"})
                                   \cup (IF result.header = NULL THEN {} ELSE {"headers"})
      BY <2>11 DEF TransferSucceeds
    <3>2. body(result) \in {"content", "cut", "error", NULL}
      BY <1>3, ResultIs DEF Answers, CStringOf
    <3> HIDE DEF body
    <3>3. /\ data' \in {"content", "cut", "error", NULL} /\ output' \in {"earlier", "content", "cut", "error", NULL}
          /\ heap' \subseteq {"url", "form", "list", "data", "headers", "file", "regex"}
      BY <1>3, <3>1, <3>2
    <3>4. (IF kind = "metadata" THEN "open" ELSE "classify") \in {"open", "classify"}
      OBVIOUS
    <3> QED BY <1>3, <2>1, <2>2, <2>11, <3>3, <3>4 DEF TransferSucceeds, sendVars
  <2>12. CASE ClassifyAnswer
    BY <1>3, <2>1, <2>2, <2>12 DEF ClassifyAnswer, sendVars
  <2>13. CASE ClassifyContent
    BY <1>3, <2>1, <2>2, <2>13 DEF ClassifyContent, sendVars
  <2>14. CASE OpenHeaders
    BY <1>3, <2>1, <2>2, <2>14 DEF OpenHeaders, sendVars
  <2>15. CASE ReadLine
    BY <1>3, <2>1, <2>2, <2>15 DEF ReadLine, sendVars
  <2>16. CASE LinesRead
    BY <1>3, <2>1, <2>2, <2>16 DEF LinesRead, sendVars
  <2>17. CASE Cleanup
    BY <1>3, <2>1, <2>2, <2>17 DEF Cleanup, sendVars
  <2>18. CASE UNCHANGED vars
    BY <1>3, <2>18 DEF vars
  <2>19. CASE TransferCrashes \/ RefusalCrashes
    BY <1>3, <2>1, <2>2, <2>19 DEF TransferCrashes, RefusalCrashes, sendVars
  <2> QED BY <2>3, <2>4, <2>5, <2>6, <2>7, <2>8, <2>9, <2>10, <2>11, <2>12, <2>13, <2>14, <2>15, <2>16, <2>17, <2>18,
             <2>19, Zenon DEF Next, Ended
<1>11. Array'
  BY <1>1 DEF ReadInv
<1> QED BY <1>1, <1>3, <1>5, <1>7, <1>8, <1>9, <1>10, <1>11 DEF TypeOK

-----------------------------------------------------------------------------
(* A call starts with nothing built, posted or read.                        *)
LEMMA InitInv ==
  ASSUME Init
  PROVE  IInv
<1>1. MaxEntries \in Nat
  BY ConstantsAssumption
<1>2. entries \in BoundedSeq(IF kind = "metadata" THEN Lines ELSE Sent, MaxEntries) /\ kind \in Kinds
  <2>1. <<>> \in BoundedSeq(Sent, MaxEntries)
    <3>1. <<>> \in Seq(Sent) /\ Len(<<>>) <= MaxEntries
      BY <1>1
    <3> QED BY <1>1, <3>1, BoundedIs
  <2>2. kind \in Kinds
    BY DEF Init
  <2>3. CASE kind = "metadata"
    BY <2>3 DEF Init
  <2>4. CASE kind = "content"
    BY <2>1, <2>4 DEF Init
  <2>5. CASE kind \in {"create", "update"}
    BY <2>5 DEF Init
  <2> QED BY <2>2, <2>3, <2>4, <2>5 DEF Kinds
<1>3. entries \in Seq(Lines \cup Sent) /\ Len(entries) \in Nat /\ Len(entries) <= MaxEntries
  <2>1. CASE kind = "metadata"
    <3>1. entries \in Seq(Lines) /\ Len(entries) <= MaxEntries
      BY <1>1, <1>2, <2>1, BoundedIs
    <3> QED BY <3>1, SeqMonotonic
  <2>2. CASE kind # "metadata"
    <3>1. entries \in Seq(Sent) /\ Len(entries) <= MaxEntries
      BY <1>1, <1>2, <2>2, BoundedIs
    <3> QED BY <3>1, SeqMonotonic
  <2> QED BY <2>1, <2>2
<1>4. /\ pc = "check" /\ i = 0 /\ posted = <<>> /\ strings = 0 /\ stranded = FALSE /\ heap = {} /\ data = NULL
      /\ params = NULL /\ count = NULL /\ ret = -1 /\ error = None
      /\ output \in {"earlier", NULL} /\ answer \in Answers
      /\ kind = "metadata" => answer = "none"
  BY DEF Init, Answers
<1>5. posted \in Seq(Sent) /\ Len(posted) = 0 /\ posted \in BoundedSeq(Sent, MaxEntries)
  <2>1. posted \in Seq(Sent) /\ Len(posted) = 0 /\ Len(posted) <= MaxEntries
    BY <1>1, <1>4
  <2> QED BY <1>1, <2>1, BoundedIs
<1>6. TypeOK
  <2>1. i \in 0..Len(entries) /\ strings \in 0..MaxEntries
    BY <1>1, <1>3, <1>4
  <2>2. output \in {"earlier", "content", "cut", "error", NULL} /\ stranded \in BOOLEAN
    BY <1>4
  <2> QED BY <1>2, <1>4, <1>5, <2>1, <2>2 DEF TypeOK
<1> QED BY <1>2, <1>3, <1>4, <1>5, <1>6 DEF IInv, SendInv, ReadInv, HeapInv, OutcomeInv

(* The invariant that everything below is read from.                        *)
THEOREM Invariance == Spec => []IInv
<1>1. Init => IInv
  BY InitInv
<1>2. IInv /\ [Next]_vars => IInv'
  BY TypeKept, SendKept, ReadKept, HeapKept, OutcomeKept DEF IInv
<1> QED BY <1>1, <1>2, PTL DEF Spec

(* No entry beyond the last is looked at, posted or counted.                *)
THEOREM TypeCorrect == Spec => []TypeOK
<1>1. IInv => TypeOK
  BY DEF IInv
<1> QED BY <1>1, Invariance, PTL

(* However many entries the client has, all that have a value are posted,   *)
(* in the client's order, or nothing is.                                    *)
THEOREM PostedWholeAlways == Spec => []PostedWhole
<1>1. IInv => PostedWhole
  BY DEF IInv, SendInv, PostedWhole, Posting
<1> QED BY <1>1, Invariance, PTL

(* However many headers the server sends, a successful get_metadata gives   *)
(* one parameter for each plain one, in their order, and their number.      *)
THEOREM PlainMetadataReadAlways == Spec => []PlainMetadataRead
<1>1. IInv => PlainMetadataRead
  BY DEF IInv, ReadInv, PlainMetadataRead, PlainOnly, Names
<1> QED BY <1>1, Invariance, PTL

(* Each call's cleanup frees all it owns, wherever the call failed.         *)
THEOREM TemporariesFreedAlways == Spec => []TemporariesFreed
<1>1. IInv => TemporariesFreed
  BY DEF IInv, HeapInv, SendInv, TemporariesFreed
<1> QED BY <1>1, Invariance, PTL

(* No call returns -1 without an error, or 0 with one.                      *)
THEOREM FailureReportedAlways == Spec => []FailureReported
<1>1. IInv => FailureReported
  BY DEF IInv, OutcomeInv, FailureReported
<1> QED BY <1>1, Invariance, PTL
=============================================================================
