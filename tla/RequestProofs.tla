---------------------------- MODULE RequestProofs ----------------------------
(***************************************************************************)
(* Proofs about Request for listings and messages of any length.           *)
(***************************************************************************)
EXTENDS Request, SequenceTheorems, WellFoundedInduction, TLAPS

Addresses == {"bucketurl", "href"}

(* What the cleanup label of a helper frees.                                *)
Temporaries ==
  {"data"} \cup (IF kind \in {"get_by_id", "get_blob"} THEN {"safeid", "url"}
                 ELSE IF kind \in {"create", "post"} THEN {"stream", "param_string"}
                 ELSE {})

(* What a call owns at each step; response headers are only ever kept for a *)
(* create, until its answer is classified or its refusal explained.         *)
HeapInv ==
  /\ pc \in Labels
  /\ "headers" \in wanted => kind = "create"
  /\ pc \in {"check", "link", "address", "done"} => heap = {}
  /\ pc \in {"build", "leave"} => heap \subseteq Addresses
  /\ pc \in {"transfer", "parse", "search", "cleanup"} => heap \subseteq Addresses \cup Temporaries
  /\ pc \in {"classify", "explain"} =>
       /\ heap \subseteq Addresses \cup Temporaries \cup {"headers"}
       /\ kind # "create" => "headers" \notin heap

(* What the caller gets comes with the 0 that tells it so.                  *)
ResultInv == ret = -1 => ~gotHeaders /\ output # "data"

(* How far the call got.                                                    *)
Early == {"check", "link", "address", "build", "transfer"}
Answering == {"classify", "explain", "parse", "search"}
Linking == kind \in Linked => links = "there"

(* Past the checks the arguments are good, and past the transfer the api    *)
(* has a driver and a provider; nothing has failed and nothing is handed    *)
(* over while the call works.                                               *)
PathInv ==
  /\ pc \notin {"check", "done"} => usable
  /\ pc \notin {"check", "link", "done", "crashed"} => Linking
  /\ pc \in Answering => named
  /\ pc \in Early \cup Answering => ret = -1 /\ error = None /\ details = None /\ gotHeaders = FALSE
  /\ pc \in Early => output = "untouched" /\ cursor = 0 /\ data = NULL /\ lost = FALSE

(* What is read is the server's answer, unless it was lost; an error        *)
(* document is never parsed; and no instance before the cursor has the name.*)
DataIsAnswer ==
  \/ data = NULL /\ lost = (answer # "none")
  \/ data = answer /\ answer # "none" /\ lost = FALSE

NotYetFound == cursor > 0 /\ \A j \in 1..(cursor - 1) : listing[j] = "other"

AnswerInv ==
  /\ pc \in Answering => DataIsAnswer
  /\ pc \in {"classify", "explain", "parse"} => output = "untouched" /\ cursor = 0
  /\ pc = "classify" /\ "headers" \in heap => "headers" \in wanted
  /\ pc = "explain" => data = "error"
  /\ pc \in {"parse", "search"} => kind \in Fetching /\ data # "error"
  /\ pc = "search" =>
       /\ data = "good" /\ output \in {"untouched", NULL}
       /\ kind = "get_by_name" => NotYetFound

(* From the moment a call is settled its result is one the contract allows. *)
Result == [ret |-> ret, error |-> error, details |-> details, output |-> output,
           found |-> IF ret = 0 THEN cursor ELSE 0, headers |-> gotHeaders, lost |-> lost]

OutcomeInv ==
  /\ pc \in {"cleanup", "leave", "done"} => Result \in CallOutcomes(Call)
  /\ pc = "crashed" => Crashed \in CallOutcomes(Call)

IInv == TypeOK /\ HeapInv /\ ResultInv /\ PathInv /\ AnswerInv /\ OutcomeInv

-----------------------------------------------------------------------------
(* Induction, in the form the provers can use: about a set of numbers.      *)
LEMMA NatSet ==
  ASSUME NEW S, 0 \in S, \A n \in Nat : n \in S => n + 1 \in S
  PROVE  Nat \subseteq S
<1> DEFINE less == OpToRel(<, Nat)
<1> SUFFICES ASSUME Nat \ S # {} PROVE FALSE
  OBVIOUS
<1>1. PICK x \in Nat \ S : \A y \in Nat \ S : <<y, x>> \notin less
  <2>1. IsWellFoundedOn(less, Nat)
    BY NatLessThanWellFounded
  <2>2. Nat \ S \subseteq Nat
    OBVIOUS
  <2> HIDE DEF less
  <2> QED BY <2>1, <2>2, WFMin
<1>2. x - 1 \in Nat \ S /\ x - 1 < x
  <2>1. x # 0
    OBVIOUS
  <2> QED BY <2>1
<1>3. <<x - 1, x>> \in less
  BY <1>2 DEF OpToRel
<1> QED BY <1>1, <1>2, <1>3

(* A set of numbers has a least one.                                        *)
LEMMA MinIs ==
  ASSUME NEW S, S \subseteq Nat, S # {}
  PROVE  Min(S) \in S /\ \A y \in S : Min(S) <= y
<1> DEFINE less == OpToRel(<, Nat)
<1>1. PICK x \in S : \A y \in S : <<y, x>> \notin less
  <2>1. IsWellFoundedOn(less, Nat)
    BY NatLessThanWellFounded
  <2> HIDE DEF less
  <2> QED BY <2>1, WFMin
<1>2. \A y \in S : x <= y
  <2> SUFFICES ASSUME NEW y \in S PROVE x <= y
    OBVIOUS
  <2>1. x \in Nat /\ y \in Nat
    OBVIOUS
  <2>2. y < x => <<y, x>> \in less
    BY <2>1 DEF OpToRel
  <2>3. ~(y < x)
    <3> HIDE DEF less
    <3> QED BY <1>1, <2>2
  <2> QED BY <2>1, <2>3
<1> HIDE DEF less
<1> QED BY <1>1, <1>2 DEF Min

(* A bounded one has a greatest.                                            *)
LEMMA MaxIs ==
  ASSUME NEW n \in Nat, NEW S, S \subseteq 0..n, S # {}
  PROVE  Max(S) \in S /\ \A y \in S : y <= Max(S)
<1> DEFINE T == {n - x : x \in S}
<1>1. T \subseteq Nat /\ T # {}
  <2>1. ASSUME NEW x \in S PROVE n - x \in Nat
    <3>1. x \in 0..n
      OBVIOUS
    <3> QED BY <3>1
  <2> QED BY <2>1
<1>2. Min(T) \in T /\ \A y \in T : Min(T) <= y
  <2> HIDE DEF T
  <2> QED BY <1>1, MinIs
<1>3. PICK x \in S : Min(T) = n - x
  BY <1>2
<1>4. \A y \in S : x >= y
  <2> SUFFICES ASSUME NEW y \in S PROVE x >= y
    OBVIOUS
  <2>1. x \in 0..n /\ y \in 0..n /\ n - x <= n - y
    BY <1>2, <1>3
  <2> QED BY <2>1
<1>5. Max(S) \in S /\ \A y \in S : Max(S) >= y
  BY <1>4 DEF Max
<1>6. \A y \in S : y \in Nat
  OBVIOUS
<1> QED BY <1>5, <1>6

(* They are the only ones.                                                  *)
LEMMA ExtremeIs ==
  ASSUME NEW S, S \subseteq Nat, NEW x \in S
  PROVE  /\ (\A y \in S : y <= x) => Max(S) = x
         /\ (\A y \in S : x <= y) => Min(S) = x
<1>1. ASSUME \A y \in S : y <= x PROVE Max(S) = x
  <2>1. x \in Nat /\ \A y \in S : y \in Nat
    OBVIOUS
  <2>2. \A y \in S : x >= y
    BY <1>1, <2>1
  <2>3. Max(S) \in S /\ \A y \in S : Max(S) >= y
    BY <2>2 DEF Max
  <2>4. Max(S) \in Nat /\ Max(S) >= x /\ Max(S) <= x
    BY <1>1, <2>1, <2>3
  <2> QED BY <2>1, <2>4
<1>2. ASSUME \A y \in S : x <= y PROVE Min(S) = x
  <2>1. x \in Nat /\ \A y \in S : y \in Nat
    OBVIOUS
  <2>2. Min(S) \in S /\ \A y \in S : Min(S) <= y
    BY <1>2 DEF Min
  <2>3. Min(S) \in Nat /\ Min(S) <= x /\ x <= Min(S)
    BY <1>2, <2>1, <2>2
  <2> QED BY <2>1, <2>3
<1> QED BY <1>1, <1>2

(* The message of an error document, as what its blanks and the rest are.   *)
Text == Seq({"blank", "ink"})

(* strip_trailing_whitespace() cuts after the last ink.                     *)
LEMMA TrailingIs ==
  ASSUME NEW text \in Text
  PROVE  strip_trailing_whitespace(text) = SubSeq(text, 1, Max({0} \cup Inked(text)))
<1> DEFINE n == Len(text)
           Ends(i) == {0} \cup {j \in 1..i : text[j] # "blank"}
           cut == [i \in 0..n |-> SubSeq(text, 1, Max(Ends(i)))]
           Step(f, i) == IF i = 0 \/ text[i] # "blank" THEN SubSeq(text, 1, i) ELSE f[i - 1]
           Fills(f) == f = [i \in 0..n |-> Step(f, i)]
           upto == CHOOSE f : Fills(f)
<1>1. n \in Nat /\ DOMAIN text = 1..n /\ \A j \in 1..n : text[j] \in {"blank", "ink"}
  BY DEF Text
<1>2. ASSUME NEW i \in 0..n PROVE cut[i] = Step(cut, i)
  <2>1. CASE i = 0 \/ text[i] # "blank"
    <3>1. Ends(i) \subseteq Nat /\ i \in Ends(i) /\ \A y \in Ends(i) : y <= i
      BY <1>1, <2>1
    <3>2. Max(Ends(i)) = i
      <4> HIDE DEF Ends
      <4> QED BY <3>1, ExtremeIs
    <3> QED BY <2>1, <3>2
  <2>2. CASE i # 0 /\ text[i] = "blank"
    <3>1. i - 1 \in 0..n
      BY <1>1, <2>2
    <3>2. Ends(i) = Ends(i - 1)
      <4>1. \A j : j \in 1..i <=> (j \in 1..(i - 1) \/ j = i)
        BY <1>1, <2>2
      <4> QED BY <2>2, <4>1
    <3> HIDE DEF Ends
    <3> QED BY <2>2, <3>1, <3>2
  <2> QED BY <2>1, <2>2
<1>3. Fills(cut)
  <2> DEFINE h == [i \in 0..n |-> Step(cut, i)]
  <2>1. \A i \in 0..n : cut[i] = h[i]
    <3> HIDE DEF cut, Step
    <3> QED BY <1>2
  <2>2. cut = [i \in 0..n |-> cut[i]]
    <3> HIDE DEF Ends
    <3> QED OBVIOUS
  <2>3. cut = h
    <3> HIDE DEF cut, Step
    <3> QED BY <2>1, <2>2
  <2> QED BY <2>3
<1>4. Fills(upto)
  <2> HIDE DEF Fills, cut
  <2> QED BY <1>3
<1>5. \A i \in 0..n : upto[i] = Step(upto, i)
  <2> HIDE DEF upto, Step
  <2> QED BY <1>4
<1> DEFINE D == {i \in Nat : i <= n => upto[i] = cut[i]}
<1>6. 0 \in D
  <2>1. 0 \in 0..n
    BY <1>1
  <2>2. upto[0] = Step(upto, 0) /\ cut[0] = Step(cut, 0)
    <3> HIDE DEF upto, cut, Step
    <3> QED BY <1>2, <1>5, <2>1
  <2> HIDE DEF upto, cut
  <2> QED BY <2>2
<1>7. ASSUME NEW i \in Nat, i \in D PROVE i + 1 \in D
  <2> SUFFICES ASSUME i + 1 <= n PROVE upto[i + 1] = cut[i + 1]
    BY DEF D
  <2>1. i + 1 \in 0..n /\ (i + 1) - 1 = i /\ i <= n
    BY <1>1
  <2>2. upto[i] = cut[i]
    BY <1>7, <2>1
  <2>3. upto[i + 1] = Step(upto, i + 1) /\ cut[i + 1] = Step(cut, i + 1)
    <3> HIDE DEF upto, cut, Step
    <3> QED BY <1>2, <1>5, <2>1
  <2> HIDE DEF upto, cut
  <2> QED BY <2>1, <2>2, <2>3
<1>8. upto[n] = cut[n]
  <2>1. Nat \subseteq D
    <3> HIDE DEF D
    <3> QED BY <1>6, <1>7, NatSet
  <2> HIDE DEF upto, cut
  <2> QED BY <1>1, <2>1
<1>9. Ends(n) = {0} \cup Inked(text)
  BY <1>1 DEF Inked
<1>10. strip_trailing_whitespace(text) = upto[n]
  BY DEF strip_trailing_whitespace
<1>11. cut[n] = SubSeq(text, 1, Max(Ends(n)))
  <2>1. n \in 0..n
    BY <1>1
  <2> HIDE DEF Ends
  <2> QED BY <2>1
<1> HIDE DEF upto, cut, Ends
<1> QED BY <1>8, <1>9, <1>10, <1>11

(* strip_leading_whitespace() starts at the first ink.                      *)
LEMMA LeadingIs ==
  ASSUME NEW text \in Text
  PROVE  strip_leading_whitespace(text)
           = SubSeq(text, Min({Len(text) + 1} \cup Inked(text)), Len(text))
<1> DEFINE n == Len(text)
           Starts(i) == {n + 1} \cup {j \in i..n : text[j] # "blank"}
           cut == [i \in 1..(n + 1) |-> SubSeq(text, Min(Starts(i)), n)]
           Step(f, i) == IF i > n \/ text[i] # "blank" THEN SubSeq(text, i, n) ELSE f[i + 1]
           Fills(f) == f = [i \in 1..(n + 1) |-> Step(f, i)]
           from == CHOOSE f : Fills(f)
<1>1. n \in Nat /\ DOMAIN text = 1..n /\ \A j \in 1..n : text[j] \in {"blank", "ink"}
  BY DEF Text
<1>2. ASSUME NEW i \in 1..(n + 1) PROVE cut[i] = Step(cut, i)
  <2>1. CASE i > n \/ text[i] # "blank"
    <3>1. Starts(i) \subseteq Nat /\ i \in Starts(i) /\ \A y \in Starts(i) : i <= y
      BY <1>1, <2>1
    <3>2. Min(Starts(i)) = i
      <4> HIDE DEF Starts
      <4> QED BY <3>1, ExtremeIs
    <3> QED BY <2>1, <3>2
  <2>2. CASE i <= n /\ text[i] = "blank"
    <3>1. i + 1 \in 1..(n + 1)
      BY <1>1, <2>2
    <3>2. Starts(i) = Starts(i + 1)
      <4>1. \A j : j \in i..n <=> (j \in (i + 1)..n \/ j = i)
        BY <1>1, <2>2
      <4> QED BY <2>2, <4>1
    <3>3. ~(i > n)
      BY <1>1, <2>2
    <3> HIDE DEF Starts
    <3> QED BY <2>2, <3>1, <3>2, <3>3
  <2>3. i > n \/ i <= n
    BY <1>1
  <2> QED BY <2>1, <2>2, <2>3
<1>3. Fills(cut)
  <2> DEFINE h == [i \in 1..(n + 1) |-> Step(cut, i)]
  <2>1. \A i \in 1..(n + 1) : cut[i] = h[i]
    <3> HIDE DEF cut, Step
    <3> QED BY <1>2
  <2>2. cut = [i \in 1..(n + 1) |-> cut[i]]
    <3> HIDE DEF Starts
    <3> QED OBVIOUS
  <2>3. cut = h
    <3> HIDE DEF cut, Step
    <3> QED BY <2>1, <2>2
  <2> QED BY <2>3
<1>4. Fills(from)
  <2> HIDE DEF Fills, cut
  <2> QED BY <1>3
<1>5. \A i \in 1..(n + 1) : from[i] = Step(from, i)
  <2> HIDE DEF from, Step
  <2> QED BY <1>4
<1> DEFINE D == {k \in Nat : k <= n => from[n + 1 - k] = cut[n + 1 - k]}
<1>6. 0 \in D
  <2>1. n + 1 \in 1..(n + 1) /\ n + 1 - 0 = n + 1 /\ n + 1 > n
    BY <1>1
  <2>2. from[n + 1] = Step(from, n + 1) /\ cut[n + 1] = Step(cut, n + 1)
    <3> HIDE DEF from, cut, Step
    <3> QED BY <1>2, <1>5, <2>1
  <2> HIDE DEF from, cut
  <2> QED BY <2>1, <2>2
<1>7. ASSUME NEW k \in Nat, k \in D PROVE k + 1 \in D
  <2> SUFFICES ASSUME k + 1 <= n PROVE from[n + 1 - (k + 1)] = cut[n + 1 - (k + 1)]
    <3> HIDE DEF from, cut
    <3> QED OBVIOUS
  <2> DEFINE i == n + 1 - (k + 1)
  <2>1. i \in 1..(n + 1) /\ i + 1 = n + 1 - k /\ k <= n
    BY <1>1
  <2>2. from[i + 1] = cut[i + 1]
    BY <1>7, <2>1
  <2>3. from[i] = Step(from, i) /\ cut[i] = Step(cut, i)
    <3> HIDE DEF from, cut, Step, i
    <3> QED BY <1>2, <1>5, <2>1
  <2> HIDE DEF from, cut, i
  <2>4. from[i] = cut[i]
    BY <2>2, <2>3
  <2> QED BY <2>4 DEF i
<1>8. from[1] = cut[1]
  <2>1. Nat \subseteq D
    <3> HIDE DEF D
    <3> QED BY <1>6, <1>7, NatSet
  <2> HIDE DEF from, cut
  <2>2. n \in D /\ n <= n /\ n + 1 - n = 1
    <3> HIDE DEF D
    <3> QED BY <1>1, <2>1
  <2> QED BY <1>1, <2>2
<1>9. Starts(1) = {n + 1} \cup Inked(text)
  BY <1>1 DEF Inked
<1>10. strip_leading_whitespace(text) = from[1]
  BY DEF strip_leading_whitespace
<1>11. cut[1] = SubSeq(text, Min(Starts(1)), n)
  <2>1. 1 \in 1..(n + 1)
    BY <1>1
  <2> HIDE DEF Starts
  <2> QED BY <2>1
<1> HIDE DEF from, cut, Starts
<1> QED BY <1>8, <1>9, <1>10, <1>11

(* What set_xml_error() reports is the message without the blanks around.   *)
LEMMA Stripped ==
  ASSUME NEW text \in Text
  PROVE  strip_leading_whitespace(strip_trailing_whitespace(text)) = Trimmed(text)
<1> DEFINE inked == Inked(text)
           last == Max({0} \cup inked)
           front == SubSeq(text, 1, last)
<1>1. /\ Len(text) \in Nat /\ inked \subseteq 1..Len(text) /\ 0 \notin inked
      /\ \A j \in 1..Len(text) : text[j] \in {"blank", "ink"}
  BY DEF Text, Inked
<1>2. last \in {0} \cup inked /\ \A y \in {0} \cup inked : y <= last
  <2>1. {0} \cup inked \subseteq 0..Len(text) /\ {0} \cup inked # {}
    BY <1>1
  <2> HIDE DEF inked
  <2> QED BY <1>1, <2>1, MaxIs
<1>3. last \in 0..Len(text)
  BY <1>1, <1>2
<1>4. strip_trailing_whitespace(text) = front
  BY TrailingIs
<1>5. /\ front \in Text /\ Len(front) = last
      /\ \A j \in 1..last : front[j] = text[j]
  <2>1. 1 \in Int /\ last \in Int /\ \A j \in 1..last : text[j] \in {"blank", "ink"}
    <3> HIDE DEF last, inked
    <3> QED BY <1>1, <1>3
  <2> HIDE DEF last
  <2>2. /\ front \in Seq({"blank", "ink"}) /\ Len(front) = IF 1 <= last THEN last - 1 + 1 ELSE 0
        /\ \A j \in 1..(last - 1 + 1) : front[j] = text[1 + j - 1]
    BY <2>1, SubSeqProperties
  <2> HIDE DEF front
  <2>3. last - 1 + 1 = last /\ \A j \in 1..last : 1 + j - 1 = j
    BY <1>3
  <2> QED BY <1>3, <2>2, <2>3 DEF Text
<1>6. Inked(front) = inked
  <2>1. DOMAIN front = 1..last /\ DOMAIN text = 1..Len(text)
    BY <1>5 DEF Text
  <2>2. \A j : j \in 1..Len(text) /\ text[j] = "ink" <=> j \in 1..last /\ front[j] = "ink"
    <3> SUFFICES ASSUME NEW j PROVE j \in 1..Len(text) /\ text[j] = "ink" <=> j \in 1..last /\ front[j] = "ink"
      OBVIOUS
    <3>1. ASSUME j \in 1..Len(text), text[j] = "ink" PROVE j \in 1..last
      <4>1. j \in inked
        BY <2>1, <3>1 DEF Inked
      <4> HIDE DEF last, inked
      <4> QED BY <1>2, <1>3, <3>1, <4>1
    <3>2. j \in 1..last => j \in 1..Len(text)
      BY <1>1, <1>3
    <3> HIDE DEF last, inked, front
    <3> QED BY <1>5, <3>1, <3>2
  <2> QED BY <2>1, <2>2 DEF Inked
<1>7. strip_leading_whitespace(front) = SubSeq(front, Min({last + 1} \cup inked), last)
  <2> HIDE DEF last, front, inked
  <2> QED BY <1>5, <1>6, LeadingIs
<1>8. CASE inked = {}
  <2>1. last = 0
    BY <1>2, <1>8
  <2>2. {last + 1} \cup inked = {1}
    BY <1>8, <2>1
  <2>3. Min({1}) = 1
    BY ExtremeIs
  <2>4. SubSeq(front, 1, 0) = <<>>
    BY SubSeqEmpty
  <2>5. strip_leading_whitespace(front) = <<>>
    <3> HIDE DEF last, front, inked
    <3> QED BY <1>7, <2>1, <2>2, <2>3, <2>4
  <2> QED BY <1>4, <1>8, <2>5 DEF Trimmed
<1>9. CASE inked # {}
  <2> DEFINE first == Min(inked)
  <2>1. first \in inked /\ \A y \in inked : first <= y
    <3> HIDE DEF inked
    <3>1. inked \subseteq Nat
      BY <1>1
    <3> QED BY <1>9, <3>1, MinIs
  <2>2. last \in inked /\ \A y \in inked : y <= last
    <3>1. PICK y \in inked : TRUE
      BY <1>9
    <3>2. y \in Nat /\ y # 0
      BY <1>1
    <3>3. last # 0
      <4> HIDE DEF last, inked
      <4> QED BY <1>2, <3>1, <3>2
    <3> HIDE DEF last, inked
    <3> QED BY <1>2, <3>3
  <2>3. first \in 1..last /\ last \in 1..Len(text)
    <3> HIDE DEF first, last, inked
    <3> QED BY <1>1, <2>1, <2>2
  <2>4. Min({last + 1} \cup inked) = first
    <3>1. {last + 1} \cup inked \subseteq Nat /\ first \in {last + 1} \cup inked
          /\ \A y \in {last + 1} \cup inked : first <= y
      <4> HIDE DEF first, last, inked
      <4> QED BY <1>1, <2>1, <2>3
    <3> HIDE DEF first, last, inked
    <3> QED BY <3>1, ExtremeIs
  <2>5. Max(inked) = last
    <3>1. inked \subseteq Nat
      BY <1>1
    <3> HIDE DEF last, inked
    <3> QED BY <2>2, <3>1, ExtremeIs
  <2>6. SubSeq(SubSeq(text, 1, last), first, last) = SubSeq(text, first, last)
    <3>1. 1 \in 1..Len(text) /\ first \in 1..(last - 1 + 1) /\ last \in 1..(last - 1 + 1)
          /\ 1 + first - 1 = first /\ 1 + last - 1 = last
      <4> HIDE DEF first, last
      <4> QED BY <2>3
    <3>2. text \in Seq({"blank", "ink"})
      BY DEF Text
    <3> HIDE DEF first, last
    <3> QED BY <2>3, <3>1, <3>2, SubSeqOfSubSeq
  <2>7. strip_leading_whitespace(front) = SubSeq(text, first, Max(inked))
    <3> HIDE DEF first, last, inked
    <3> QED BY <1>7, <2>4, <2>5, <2>6
  <2> QED BY <1>4, <1>9, <2>7 DEF Trimmed
<1> QED BY <1>8, <1>9

(* A sequence up to a length.                                               *)
LEMMA BoundedIs ==
  ASSUME NEW S, NEW n \in Nat, NEW s
  PROVE  s \in BoundedSeq(S, n) <=> s \in Seq(S) /\ Len(s) <= n
<1>1. ASSUME s \in BoundedSeq(S, n) PROVE s \in Seq(S) /\ Len(s) <= n
  <2>1. PICK m \in 0..n : s \in [1..m -> S]
    BY <1>1 DEF BoundedSeq, SeqOf
  <2>2. s \in Seq(S)
    BY <2>1, SeqDef
  <2>3. Len(s) = m
    BY <2>1, <2>2
  <2> QED BY <2>2, <2>3
<1>2. ASSUME s \in Seq(S), Len(s) <= n PROVE s \in BoundedSeq(S, n)
  <2>1. Len(s) \in 0..n /\ s \in [1..Len(s) -> S]
    BY <1>2
  <2> QED BY <2>1 DEF BoundedSeq, SeqOf
<1> QED BY <1>1, <1>2

(* The empty sequence is one.                                               *)
LEMMA EmptyTyped ==
  ASSUME NEW S, NEW n \in Nat
  PROVE  <<>> \in BoundedSeq(S, n)
<1>1. <<>> \in Seq(S)
  OBVIOUS
<1>2. Len(<<>>) <= n
  OBVIOUS
<1> QED BY <1>1, <1>2, BoundedIs

(* What is left of a message is one.                                        *)
LEMMA TrimmedTyped ==
  ASSUME NEW text \in Messages
  PROVE  Trimmed(text) \in Messages
<1> DEFINE inked == Inked(text)
<1>1. /\ text \in Seq({"blank", "ink"}) /\ Len(text) \in Nat /\ Len(text) <= MaxMessage
      /\ MaxMessage \in Nat
  BY BoundedIs, BoundsAssumption DEF Messages
<1>2. CASE inked = {}
  <2>1. <<>> \in Messages
    BY EmptyTyped, BoundsAssumption DEF Messages
  <2> QED BY <1>2, <2>1 DEF Trimmed
<1>3. CASE inked # {}
  <2> DEFINE first == Min(inked)
             last == Max(inked)
  <2>1. inked \subseteq 1..Len(text)
    BY <1>1 DEF Inked
  <2>2. inked \subseteq 0..Len(text) /\ inked \subseteq Nat
    <3> HIDE DEF inked
    <3> QED BY <1>1, <2>1
  <2>3. first \in inked /\ last \in inked
    <3> HIDE DEF inked
    <3> QED BY <1>1, <1>3, <2>2, MinIs, MaxIs
  <2>4. first \in 1..Len(text) /\ last \in 1..Len(text)
    <3> HIDE DEF inked, first, last
    <3> QED BY <2>1, <2>3
  <2>5. first \in Int /\ last \in Int /\ \A j \in first..last : text[j] \in {"blank", "ink"}
    <3> HIDE DEF first, last
    <3> QED BY <1>1, <2>4
  <2> HIDE DEF first, last
  <2>6. /\ SubSeq(text, first, last) \in Seq({"blank", "ink"})
        /\ Len(SubSeq(text, first, last)) = IF first <= last THEN last - first + 1 ELSE 0
    BY <2>5, SubSeqProperties
  <2>7. Len(SubSeq(text, first, last)) <= MaxMessage
    BY <1>1, <2>4, <2>6
  <2>8. SubSeq(text, first, last) \in Messages
    BY <1>1, <2>6, <2>7, BoundedIs DEF Messages
  <2> QED BY <1>3, <2>8 DEF Trimmed, first, last
<1> QED BY <1>2, <1>3

-----------------------------------------------------------------------------
(* The invariant holds before the call.                                     *)
LEMMA InvInit == Init => IInv
<1> SUFFICES ASSUME Init PROVE IInv
  OBVIOUS
<1>1. HeapInv
  BY DEF Init, HeapInv, Labels
<1>2. ResultInv
  BY DEF Init, ResultInv
<1>3. PathInv /\ AnswerInv /\ OutcomeInv
  BY DEF Init, PathInv, AnswerInv, OutcomeInv, Early, Answering
<1>4. TypeOK
  <2>1. <<>> \in Messages /\ <<>> \in Listings
    BY EmptyTyped, BoundsAssumption DEF Messages, Listings
  <2>2. message \in Messages /\ listing \in Listings
    BY <2>1 DEF Init
  <2>3. Len(listing) \in Nat
    BY <2>2, BoundedIs, BoundsAssumption DEF Listings
  <2>4. links \in {"there", "missing", "nameless"} /\ wanted \subseteq {"data", "headers"}
    BY DEF Init
  <2>5. cursor \in 0..(Len(listing) + 1) /\ pc \in Labels /\ ret \in {-1, 0}
    BY <2>3 DEF Init, Labels
  <2>6. lost \in BOOLEAN /\ gotHeaders \in BOOLEAN /\ usable \in BOOLEAN /\ named \in BOOLEAN
    BY DEF Init
  <2>7. /\ data \in (Answers \ {"none"}) \cup {NULL} /\ heap \subseteq Names
        /\ output \in {"untouched", "parsed", "data", NULL}
        /\ error \in Errors \cup {None} /\ details \in Messages \cup {Unknown, None}
        /\ kind \in Kinds /\ answer \in Answers
    BY DEF Init
  <2> QED BY <2>2, <2>4, <2>5, <2>6, <2>7 DEF TypeOK
<1> QED BY <1>1, <1>2, <1>3, <1>4 DEF IInv

(* The arguments, the link and the address.                                 *)
LEMMA PrepareKeeps ==
  ASSUME IInv, CheckApi \/ FindLink \/ BuildAddress \/ NothingToBuild
  PROVE  HeapInv'
<1> USE DEF IInv, HeapInv, Goto, FailAt, callVars, workVars, Labels
<1>1. CASE CheckApi
  BY <1>1 DEF CheckApi
<1>2. CASE FindLink
  BY <1>2 DEF FindLink
<1>3. CASE BuildAddress
  <2>1. pc = "address" /\ UNCHANGED <<kind, wanted>>
    BY <1>3 DEF BuildAddress
  <2>2. CASE kind \notin DOMAIN Address /\ Goto("build") /\ UNCHANGED heap
    BY <2>1, <2>2
  <2>3. CASE kind \in DOMAIN Address /\ heap' = {Address[kind]} /\ Goto("build")
    <3>1. Address[kind] \in Addresses
      BY <2>3 DEF Address, Addresses
    <3> QED BY <2>1, <2>3, <3>1
  <2>4. CASE kind \in DOMAIN Address /\ FailAt("done", "OOM") /\ UNCHANGED heap
    BY <2>1, <2>4
  <2> QED BY <1>3, <2>2, <2>3, <2>4 DEF BuildAddress
<1>4. CASE NothingToBuild
  BY <1>4 DEF NothingToBuild
<1> QED BY <1>1, <1>2, <1>3, <1>4

(* The url, or the parameters.                                              *)
LEMMA BuildKeeps ==
  ASSUME IInv, BuildUrl \/ BuildParams
  PROVE  HeapInv'
<1>1. /\ pc = "build" /\ heap \subseteq Addresses /\ UNCHANGED <<kind, wanted>>
      /\ "headers" \in wanted => kind = "create"
  BY DEF BuildUrl, BuildParams, IInv, HeapInv, callVars
<1>2. Temporaries' = Temporaries
  BY <1>1 DEF Temporaries
<1>3. CASE BuildUrl
  <2>1. {"safeid", "url"} \subseteq Temporaries
    BY <1>3 DEF BuildUrl, Temporaries
  <2>2. \/ pc' = "leave" /\ heap' = heap
        \/ pc' \in {"cleanup", "transfer"} /\ heap' \subseteq heap \cup {"safeid", "url"}
    BY <1>3 DEF BuildUrl, Goto, FailAt
  <2> QED BY <1>1, <1>2, <2>1, <2>2 DEF HeapInv, Labels
<1>4. CASE BuildParams
  <2>1. {"stream", "param_string"} \subseteq Temporaries
    BY <1>4 DEF BuildParams, Temporaries
  <2>2. \/ pc' = "leave" /\ heap' = heap
        \/ pc' \in {"cleanup", "transfer"} /\ heap' \subseteq heap \cup {"stream", "param_string"}
    BY <1>4 DEF BuildParams, Goto, FailAt
  <2> QED BY <1>1, <1>2, <2>1, <2>2 DEF HeapInv, Labels
<1> QED BY <1>3, <1>4

(* A transfer adds the body, and for a create that asked for them, the      *)
(* headers.                                                                 *)
LEMMA TransferKeeps ==
  ASSUME IInv, Transfer
  PROVE  HeapInv'
<1>1. /\ pc = "transfer" /\ heap \subseteq Addresses \cup Temporaries /\ UNCHANGED <<kind, wanted>>
      /\ "headers" \in wanted => kind = "create"
  BY DEF Transfer, IInv, HeapInv, callVars
<1>2. Temporaries' = Temporaries /\ "data" \in Temporaries /\ "headers" \notin Temporaries \cup Addresses
  BY <1>1 DEF Temporaries, Addresses
<1>3. PICK hdr \in IF "headers" \in wanted THEN {<<>>, <<"headers">>} ELSE {<<>>} :
      \E result \in Outcomes(Sent(hdr), {errcode, "OOM"}) :
        IF result.ret # 0
          THEN FailAt("cleanup", result.error) /\ UNCHANGED <<data, heap, lost>>
          ELSE /\ Goto("classify")
               /\ heap' = heap \cup (IF result.data = NULL THEN {} ELSE {"data"})
                               \cup (IF result.header = NULL THEN {} ELSE {"headers"})
  BY DEF Transfer
<1>4. PICK result \in Outcomes(Sent(hdr), {errcode, "OOM"}) :
        IF result.ret # 0
          THEN FailAt("cleanup", result.error) /\ UNCHANGED <<data, heap, lost>>
          ELSE /\ Goto("classify")
               /\ heap' = heap \cup (IF result.data = NULL THEN {} ELSE {"data"})
                               \cup (IF result.header = NULL THEN {} ELSE {"headers"})
  BY <1>3
<1>5. result.header # NULL => hdr # <<>>
  BY DEF Outcomes, Failed, Succeeded, CopyOf, Sent
<1>6. hdr # <<>> => kind = "create"
  BY <1>1
<1>7. CASE result.ret # 0
  BY <1>1, <1>2, <1>4, <1>7 DEF FailAt, HeapInv, Labels
<1>8. CASE result.ret = 0
  BY <1>1, <1>2, <1>4, <1>5, <1>6, <1>8 DEF Goto, HeapInv, Labels
<1> QED BY <1>7, <1>8

(* The answer is classified, explained, or parsed.                          *)
LEMMA AnswerKeeps ==
  ASSUME IInv, \/ ClassifyFetched \/ ClassifyAnswer \/ SetXmlError
               \/ Parse \/ ParseAll \/ FindAndParseInstance
  PROVE  HeapInv'
<1>1. /\ UNCHANGED <<kind, wanted>> /\ ("headers" \in wanted => kind = "create")
      /\ Temporaries' = Temporaries
  BY DEF ClassifyFetched, ClassifyAnswer, SetXmlError, Parse, ParseAll, FindAndParseInstance,
         callVars, IInv, HeapInv, Temporaries
<1>2. CASE ClassifyFetched
  <2>1. /\ pc = "classify" /\ kind # "create" /\ heap' = heap
        /\ pc' \in {"cleanup", "explain", "parse"}
    BY <1>2 DEF ClassifyFetched, Goto, FailAt, Fetching, workVars
  <2> QED BY <1>1, <2>1 DEF IInv, HeapInv, Labels
<1>3. CASE ClassifyAnswer
  <2>1. /\ pc = "classify"
        /\ \/ pc' = "explain" /\ heap' = heap
           \/ pc' = "cleanup" /\ heap' = heap \ {"headers"}
    BY <1>3 DEF ClassifyAnswer, Goto
  <2> QED BY <1>1, <2>1 DEF IInv, HeapInv, Labels
<1>4. CASE SetXmlError
  <2>1. pc = "explain" /\ pc' \in {"cleanup", "crashed"} /\ heap' = heap \ {"headers"}
    BY <1>4 DEF SetXmlError
  <2> QED BY <1>1, <2>1 DEF IInv, HeapInv, Labels
<1>5. CASE Parse \/ ParseAll \/ FindAndParseInstance
  <2>1. /\ pc \in {"parse", "search"} /\ heap' = heap
        /\ pc' \in {"cleanup", "search", "crashed"}
    BY <1>5 DEF Parse, ParseAll, FindAndParseInstance, Parsed, Goto, FailAt
  <2> QED BY <1>1, <2>1 DEF IInv, HeapInv, Labels
<1> QED BY <1>2, <1>3, <1>4, <1>5

(* The cleanup labels.                                                      *)
LEMMA CleanupKeeps ==
  ASSUME IInv, Cleanup \/ Leave
  PROVE  HeapInv'
<1>1. UNCHANGED <<kind, wanted>> /\ ("headers" \in wanted => kind = "create")
  BY DEF Cleanup, Leave, callVars, IInv, HeapInv
<1>2. CASE Cleanup
  <2>1. heap \subseteq Addresses \cup Temporaries /\ pc' = "leave"
    BY <1>2 DEF Cleanup, Goto, IInv, HeapInv
  <2>2. heap' = heap \ Temporaries
    <3>1. CASE kind \in {"get_by_id", "get_blob"}
      BY <1>2, <3>1 DEF Cleanup, Temporaries
    <3>2. CASE kind \in {"create", "post"}
      BY <1>2, <3>2 DEF Cleanup, Temporaries
    <3>3. CASE kind \notin {"get_by_id", "get_blob", "create", "post"}
      BY <1>2, <3>3 DEF Cleanup, Temporaries
    <3> QED BY <3>1, <3>2, <3>3
  <2> QED BY <1>1, <2>1, <2>2 DEF HeapInv, Labels
<1>3. CASE Leave
  <2>1. heap \subseteq Addresses /\ pc' = "done" /\ heap' = heap \ Addresses
    BY <1>3 DEF Leave, Goto, IInv, HeapInv, Addresses
  <2> QED BY <1>1, <2>1 DEF HeapInv, Labels
<1> QED BY <1>2, <1>3

(* The results.                                                             *)
LEMMA ResultKeeps == IInv /\ [Next]_vars => ResultInv'
<1> SUFFICES ASSUME IInv, [Next]_vars PROVE ResultInv'
  OBVIOUS
<1> USE DEF IInv, ResultInv
<1>1. CASE UNCHANGED resultVars
  BY <1>1 DEF resultVars
<1>2. CASE ClassifyAnswer
  BY <1>2, <1>1 DEF ClassifyAnswer
<1>3. CASE Parse
  <2>1. UNCHANGED <<gotHeaders, ret>> /\ output' \in {NULL, output}
    BY <1>3 DEF Parse
  <2> QED BY <2>1, OutputsAssumption
<1>4. CASE ParseAll \/ FindAndParseInstance
  <2>1. gotHeaders' = gotHeaders /\ (ret' = 0 \/ UNCHANGED <<output, ret>>)
    BY <1>4 DEF ParseAll, FindAndParseInstance, Parsed
  <2> QED BY <2>1
<1> QED BY <1>1, <1>2, <1>3, <1>4
        DEF Next, CheckApi, FindLink, BuildAddress, NothingToBuild, BuildUrl, BuildParams, Transfer,
            TransferCrashes, ClassifyFetched, SetXmlError, Cleanup, Leave, Returned, resultVars, vars

-----------------------------------------------------------------------------
(* No step changes what the call was given, or what the server will answer. *)
LEMMA CallKept == [Next]_vars => UNCHANGED callVars
BY DEF Next, vars, callVars, CheckApi, FindLink, BuildAddress, NothingToBuild, BuildUrl, BuildParams,
       Transfer, TransferCrashes, ClassifyFetched, ClassifyAnswer, SetXmlError, Parse, ParseAll,
       FindAndParseInstance, Cleanup, Leave, Returned

(* The error a helper reports is one of a few.                              *)
LEMMA ErrcodeKnown == errcode \in Errors /\ errcode = ErrcodeOf(kind)
BY DEF errcode, ErrcodeOf, Errors

(* The steps before the transfer allocate, and may give up.                 *)
LEMMA PrepareStep ==
  ASSUME CheckApi \/ FindLink \/ BuildAddress \/ NothingToBuild \/ BuildUrl \/ BuildParams
  PROVE  /\ UNCHANGED <<data, lost, cursor, output, gotHeaders, ret>>
         /\ \/ pc = "check" /\ pc' = "link" /\ usable /\ UNCHANGED <<error, details>>
            \/ pc = "check" /\ pc' = "done" /\ ~usable /\ error' = "INVALID_ARGUMENT" /\ details' = None
            \/ pc = "link" /\ pc' = "address" /\ Linking /\ UNCHANGED <<error, details>>
            \/ /\ pc = "link" /\ pc' = "done" /\ kind \in Linked /\ links = "missing"
               /\ error' = "URL_DOES_NOT_EXIST" /\ details' = None
            \/ /\ pc = "link" /\ pc' = "crashed" /\ kind \in Linked /\ links = "nameless"
               /\ UNCHANGED <<error, details>>
            \/ pc = "address" /\ pc' = "build" /\ UNCHANGED <<error, details>>
            \/ pc = "build" /\ pc' = "transfer" /\ UNCHANGED <<error, details>>
            \/ /\ pc \in {"address", "build"} /\ pc' \in {"done", "leave", "cleanup"}
               /\ kind \in Building /\ error' = "OOM" /\ details' = None
         /\ heap' \subseteq heap \cup Names
<1> USE DEF workVars, resultVars, Goto, FailAt
<1>1. CASE CheckApi
  BY <1>1 DEF CheckApi
<1>2. CASE FindLink
  BY <1>2 DEF FindLink, Linking
<1>3. CASE BuildAddress
  <2>1. \A k \in DOMAIN Address : Address[k] \in Names /\ k \in Building
    BY DEF Address, Names, Building
  <2> QED BY <1>3, <2>1 DEF BuildAddress
<1>4. CASE NothingToBuild
  BY <1>4 DEF NothingToBuild
<1>5. CASE BuildUrl
  BY <1>5 DEF BuildUrl, Names, Building
<1>6. CASE BuildParams
  BY <1>6 DEF BuildParams, Names, Building
<1> QED BY <1>1, <1>2, <1>3, <1>4, <1>5, <1>6

(* A transfer fails with its own error, or its body is the server's answer. *)
LEMMA TransferStep ==
  ASSUME Transfer
  PROVE  /\ pc = "transfer" /\ named /\ UNCHANGED <<cursor, output, gotHeaders, ret>>
         /\ \/ /\ pc' = "cleanup" /\ error' \in {errcode, "OOM"} /\ details' = None
               /\ UNCHANGED <<data, heap, lost>>
            \/ /\ pc' = "classify" /\ UNCHANGED <<error, details>>
               /\ \/ data' = NULL /\ lost' = (answer # "none")
                  \/ data' = answer /\ answer # "none" /\ lost' = FALSE
               /\ heap' \subseteq heap \cup {"data", "headers"}
               /\ "headers" \in heap' => "headers" \in heap \cup wanted
<1>1. pc = "transfer" /\ named /\ UNCHANGED <<cursor, output, gotHeaders, ret>>
  BY DEF Transfer, resultVars
<1>2. PICK hdr \in IF "headers" \in wanted THEN {<<>>, <<"headers">>} ELSE {<<>>} :
      \E result \in Outcomes(Sent(hdr), {errcode, "OOM"}) :
       IF result.ret # 0
         THEN /\ FailAt("cleanup", result.error)
              /\ UNCHANGED <<data, heap, lost>>
         ELSE /\ Goto("classify")
              /\ data' = IF result.data = NULL THEN NULL ELSE result.data[1]
              /\ heap' = heap \cup (IF result.data = NULL THEN {} ELSE {"data"})
                              \cup (IF result.header = NULL THEN {} ELSE {"headers"})
              /\ lost' = (result.data = NULL /\ answer # "none")
  BY DEF Transfer
<1>3. PICK result \in Outcomes(Sent(hdr), {errcode, "OOM"}) :
       IF result.ret # 0
         THEN /\ FailAt("cleanup", result.error)
              /\ UNCHANGED <<data, heap, lost>>
         ELSE /\ Goto("classify")
              /\ data' = IF result.data = NULL THEN NULL ELSE result.data[1]
              /\ heap' = heap \cup (IF result.data = NULL THEN {} ELSE {"data"})
                              \cup (IF result.header = NULL THEN {} ELSE {"headers"})
              /\ lost' = (result.data = NULL /\ answer # "none")
  BY <1>2
<1>4. CASE result.ret # 0
  <2>1. result \in Failed({errcode, "OOM"})
    BY <1>4 DEF Outcomes, Succeeded
  <2> QED BY <1>1, <1>3, <1>4, <2>1 DEF Failed, FailAt
<1>5. CASE result.ret = 0
  <2>1. result \in Succeeded(Sent(hdr))
    BY <1>5 DEF Outcomes, Failed
  <2>2. result.data = NULL \/ (result.data = <<answer>> /\ answer # "none")
    BY <2>1 DEF Succeeded, Sent, CopyOf
  <2>3. result.header # NULL => "headers" \in wanted
    BY <2>1 DEF Succeeded, Sent, CopyOf
  <2>4. /\ pc' = "classify" /\ UNCHANGED <<error, details>>
        /\ data' = IF result.data = NULL THEN NULL ELSE result.data[1]
        /\ heap' = heap \cup (IF result.data = NULL THEN {} ELSE {"data"})
                        \cup (IF result.header = NULL THEN {} ELSE {"headers"})
        /\ lost' = (result.data = NULL /\ answer # "none")
    BY <1>3, <1>5 DEF Goto
  <2>5. \/ data' = NULL /\ lost' = (answer # "none")
        \/ data' = answer /\ answer # "none" /\ lost' = FALSE
    <3>1. CASE result.data = NULL
      BY <2>4, <3>1
    <3>2. CASE result.data # NULL
      <4>1. result.data[1] = answer
        BY <2>2, <3>2
      <4> QED BY <2>2, <2>4, <3>2, <4>1
    <3> QED BY <3>1, <3>2
  <2>6. heap' \subseteq heap \cup {"data", "headers"} /\ ("headers" \in heap' => "headers" \in heap \cup wanted)
    BY <2>3, <2>4
  <2> QED BY <1>1, <2>4, <2>5, <2>6
<1> QED BY <1>4, <1>5

(* Every step keeps the types.                                              *)
LEMMA TypeNext == IInv /\ [Next]_vars => TypeOK'
<1> SUFFICES ASSUME IInv, [Next]_vars PROVE TypeOK'
  OBVIOUS
<1>1. TypeOK /\ UNCHANGED callVars
  BY CallKept DEF IInv
<1>2. CASE UNCHANGED vars
  BY <1>1, <1>2 DEF TypeOK, vars
<1>3. ASSUME pc' \in Labels, data' \in (Answers \ {"none"}) \cup {NULL}, heap' \subseteq Names,
             lost' \in BOOLEAN, cursor' \in 0..(Len(listing) + 1),
             output' \in {"untouched", "parsed", "data", NULL}, gotHeaders' \in BOOLEAN,
             ret' \in {-1, 0}, error' \in Errors \cup {None}, details' \in Messages \cup {Unknown, None}
      PROVE  TypeOK'
  BY <1>1, <1>3 DEF TypeOK, callVars
<1>4. CASE CheckApi \/ FindLink \/ BuildAddress \/ NothingToBuild \/ BuildUrl \/ BuildParams
  <2>1. pc' \in Labels /\ error' \in Errors \cup {None} /\ details' \in Messages \cup {Unknown, None}
    BY <1>1, <1>4, PrepareStep DEF TypeOK, Labels, Errors
  <2>2. heap' \subseteq Names
    BY <1>1, <1>4, PrepareStep DEF TypeOK
  <2> QED BY <1>1, <1>3, <1>4, <2>1, <2>2, PrepareStep DEF TypeOK
<1>5. CASE Transfer
  <2>1. pc' \in Labels /\ error' \in Errors \cup {None} /\ details' \in Messages \cup {Unknown, None}
    BY <1>1, <1>5, TransferStep, ErrcodeKnown DEF TypeOK, Labels, Errors
  <2>2. heap' \subseteq Names
    BY <1>1, <1>5, TransferStep DEF TypeOK, Names
  <2>3. data' \in (Answers \ {"none"}) \cup {NULL} /\ lost' \in BOOLEAN
    BY <1>1, <1>5, TransferStep DEF TypeOK
  <2> QED BY <1>1, <1>3, <1>5, <2>1, <2>2, <2>3, TransferStep DEF TypeOK
<1>14. CASE TransferCrashes
  BY <1>1, <1>3, <1>14 DEF TransferCrashes, Goto, workVars, resultVars, TypeOK, Labels
<1>6. CASE ClassifyFetched
  <2>1. pc' \in Labels /\ error' \in Errors \cup {None} /\ details' \in Messages \cup {Unknown, None}
    BY <1>1, <1>6, ErrcodeKnown DEF ClassifyFetched, Goto, FailAt, TypeOK, Labels
  <2> QED BY <1>1, <1>3, <1>6, <2>1 DEF ClassifyFetched, workVars, resultVars, TypeOK
<1>7. CASE ClassifyAnswer
  <2>1. pc' \in Labels /\ UNCHANGED <<error, details, data, lost, cursor>> /\ heap' \subseteq heap
    BY <1>7 DEF ClassifyAnswer, Goto, Labels
  <2>2. ret' \in {ret, 0} /\ gotHeaders' \in BOOLEAN /\ output' \in {"data", NULL, output}
    <3>1. CASE data = "error"
      BY <1>1, <1>7, <3>1 DEF ClassifyAnswer, resultVars, TypeOK
    <3>2. CASE data # "error"
      <4>1. /\ ret' = 0 /\ gotHeaders' = ("headers" \in heap)
            /\ output' \in IF "data" \in wanted /\ data # NULL THEN {"data", NULL} ELSE {output}
        BY <1>7, <3>2 DEF ClassifyAnswer
      <4>2. gotHeaders' \in BOOLEAN
        <5>1. ("headers" \in heap) \in BOOLEAN
          OBVIOUS
        <5> QED BY <4>1, <5>1
      <4> QED BY <4>1, <4>2
    <3> QED BY <3>1, <3>2
  <2> QED BY <1>1, <1>3, <2>1, <2>2 DEF TypeOK
<1>8. CASE SetXmlError
  <2>1. /\ pc' \in Labels /\ error' \in Errors \cup {None} /\ heap' \subseteq heap
        /\ UNCHANGED <<data, lost, cursor, output, gotHeaders, ret>>
    BY <1>1, <1>8, ErrcodeKnown DEF SetXmlError, resultVars, TypeOK, Labels
  <2>2. details' \in Messages \cup {Unknown, None}
    <3>1. message \in Text
      BY <1>1, BoundedIs, BoundsAssumption DEF TypeOK, Messages, Text
    <3>2. details' \in {details, Unknown, Trimmed(message)}
      BY <1>8, <3>1, Stripped DEF SetXmlError
    <3> QED BY <1>1, <3>2, TrimmedTyped DEF TypeOK
  <2> QED BY <1>1, <1>3, <2>1, <2>2 DEF TypeOK
<1>9. Len(listing) \in Nat
  BY <1>1, BoundedIs, BoundsAssumption DEF TypeOK, Listings
<1>10. CASE Parse
  <2>1. /\ pc' \in Labels /\ UNCHANGED <<data, heap, lost, gotHeaders, ret>>
        /\ output' \in {NULL, output} /\ cursor' \in {1, cursor}
    BY <1>10 DEF Parse, Goto, FailAt, Labels
  <2>2. error' \in Errors \cup {None} /\ details' \in Messages \cup {Unknown, None}
    BY <1>1, <1>10 DEF Parse, Goto, FailAt, TypeOK, Errors
  <2> QED BY <1>1, <1>3, <1>9, <2>1, <2>2 DEF TypeOK
<1>11. CASE ParseAll
  <2>1. /\ pc' \in Labels /\ UNCHANGED <<data, heap, lost, gotHeaders>> /\ cursor' = 0
        /\ output' \in {"parsed", output} /\ ret' \in {0, ret}
    BY <1>11 DEF ParseAll, Parsed, Goto, FailAt, Labels
  <2>2. error' \in Errors \cup {None} /\ details' \in Messages \cup {Unknown, None}
    BY <1>1, <1>11 DEF ParseAll, Parsed, Goto, FailAt, TypeOK, Errors
  <2> QED BY <1>1, <1>3, <1>9, <2>1, <2>2 DEF TypeOK
<1>12. CASE FindAndParseInstance
  <2>1. /\ pc' \in Labels /\ UNCHANGED <<data, heap, lost, gotHeaders>>
        /\ cursor' = cursor \/ (cursor <= Len(listing) /\ cursor' = cursor + 1)
        /\ output' \in {"parsed", output} /\ ret' \in {0, ret}
    BY <1>12 DEF FindAndParseInstance, Parsed, Goto, FailAt, Labels
  <2>2. error' \in Errors \cup {None} /\ details' \in Messages \cup {Unknown, None}
    BY <1>1, <1>12 DEF FindAndParseInstance, Parsed, Goto, FailAt, TypeOK, Errors
  <2>3. cursor' \in 0..(Len(listing) + 1)
    BY <1>1, <1>9, <2>1 DEF TypeOK
  <2> QED BY <1>1, <1>3, <2>1, <2>2, <2>3 DEF TypeOK
<1>13. CASE Cleanup \/ Leave
  <2>1. /\ pc' \in Labels /\ UNCHANGED <<lost, cursor, output, gotHeaders, ret, error, details>>
        /\ data' \in {NULL, data} /\ heap' \subseteq heap
    BY <1>13 DEF Cleanup, Leave, Goto, resultVars, Labels
  <2> QED BY <1>1, <1>3, <2>1 DEF TypeOK
<1> QED BY <1>2, <1>4, <1>5, <1>6, <1>7, <1>8, <1>10, <1>11, <1>12, <1>13, <1>14 DEF Next, Returned

-----------------------------------------------------------------------------
(* The errors and the details of a call that failed after its checks.       *)
RefusalErrors ==
  {"OOM", ErrcodeOf(kind)} \cup (IF kind \in Fetching THEN {"XML"} ELSE {})
    \cup (IF kind = "get_by_name" /\ Places(listing) = {} THEN {"NAME_NOT_FOUND"} ELSE {})
RefusalTexts == {None} \cup IF answer = "error" THEN {Trimmed(message), Unknown} ELSE {}

(* The results the contract allows a call that gets to its transfer.        *)
LEMMA Allowed ==
  ASSUME usable, Linking, named
  PROVE  CallOutcomes(Call) = Refusals(Call) \cup Crashes(Call)
                                \cup (IF kind \in Fetching THEN Fetched(Call) ELSE Changed(Call))
<1>1. /\ Call.usable = usable /\ Call.kind = kind /\ Call.links = links /\ Call.named = named
      /\ ~(kind \in Linked /\ links = "missing") /\ ~(kind \in Linked /\ links = "nameless")
  BY DEF Call, Linking
<1> QED BY <1>1 DEF CallOutcomes

(* And those it allows one whose api has no driver or no provider.          *)
LEMMA AllowedUnsent ==
  ASSUME usable, Linking, ~named
  PROVE  CallOutcomes(Call) = Unsent(Call)
<1>1. /\ Call.usable = usable /\ Call.kind = kind /\ Call.links = links /\ Call.named = named
      /\ kind \in Linked => links = "there"
  BY DEF Call, Linking
<1> QED BY <1>1 DEF CallOutcomes

(* A failure with one of those errors is among them.                        *)
LEMMA RefusalAllowed ==
  ASSUME usable, Linking, named, NEW e \in RefusalErrors, NEW d \in RefusalTexts,
         NEW o \in {"untouched", NULL}, NEW l \in BOOLEAN
  PROVE  [ret |-> -1, error |-> e, details |-> d, output |-> o, found |-> 0,
          headers |-> FALSE, lost |-> l] \in CallOutcomes(Call)
<1>1. /\ Call.kind = kind /\ Call.answer = answer /\ Call.message = message /\ Call.listing = listing
  BY DEF Call
<1>2. Refusals(Call) = Failures(RefusalErrors, RefusalTexts, BOOLEAN)
  BY <1>1 DEF Refusals, RefusalErrors, RefusalTexts
<1>3. [ret |-> -1, error |-> e, details |-> d, output |-> o, found |-> 0,
       headers |-> FALSE, lost |-> l] \in Failures(RefusalErrors, RefusalTexts, BOOLEAN)
  BY DEF Failures
<1> QED BY <1>2, <1>3, Allowed

(* So is running out of memory before the transfer, with any api.           *)
LEMMA UnbuiltAllowed ==
  ASSUME usable, Linking, kind \in Building
  PROVE  [ret |-> -1, error |-> "OOM", details |-> None, output |-> "untouched", found |-> 0,
          headers |-> FALSE, lost |-> FALSE] \in CallOutcomes(Call)
<1>1. CASE named
  BY <1>1, RefusalAllowed DEF RefusalErrors, RefusalTexts
<1>2. CASE ~named
  <2>1. Unsent(Call) = {Crashed} \cup Failures({"OOM"}, {None}, {FALSE})
    BY DEF Unsent, Call
  <2>2. [ret |-> -1, error |-> "OOM", details |-> None, output |-> "untouched", found |-> 0,
         headers |-> FALSE, lost |-> FALSE] \in Failures({"OOM"}, {None}, {FALSE})
    BY DEF Failures
  <2> QED BY <1>2, <2>1, <2>2, AllowedUnsent
<1> QED BY <1>1, <1>2

(* What a call that failed reports.                                         *)
LEMMA FailureResult ==
  ASSUME ret' = -1, gotHeaders' = FALSE
  PROVE  Result' = [ret |-> -1, error |-> error', details |-> details', output |-> output',
                    found |-> 0, headers |-> FALSE, lost |-> lost']
<1>1. (IF ret' = 0 THEN cursor' ELSE 0) = 0
  OBVIOUS
<1> QED BY <1>1, Zenon DEF Result

(* A call that goes on.                                                     *)
LEMMA GoesOn ==
  ASSUME PathInv, UNCHANGED callVars,
         UNCHANGED <<data, lost, cursor, output, gotHeaders, ret, error, details>>,
         pc \in Early, pc' \in Early, pc' # "check" => usable,
         pc' \notin {"check", "link"} => Linking
  PROVE  PathInv' /\ AnswerInv' /\ OutcomeInv'
<1>1. (Linking' <=> Linking) /\ usable' = usable
  BY DEF callVars, Linking
<1>2. PathInv'
  BY <1>1 DEF PathInv, Early, Answering
<1>3. AnswerInv' /\ OutcomeInv'
  BY DEF AnswerInv, OutcomeInv, Early, Answering
<1> QED BY <1>2, <1>3

(* A call that runs out of memory before its transfer.                      *)
LEMMA Unbuilt ==
  ASSUME PathInv, UNCHANGED callVars, pc \in {"address", "build"}, kind \in Building,
         pc' \in {"cleanup", "leave", "done"},
         ret' = -1, gotHeaders' = FALSE, output' = "untouched", lost' = FALSE,
         error' = "OOM", details' = None
  PROVE  PathInv' /\ AnswerInv' /\ OutcomeInv'
<1>1. usable /\ Linking
  BY DEF PathInv
<1>2. usable' /\ Linking' /\ Call' = Call
  BY <1>1 DEF callVars, Linking, Call
<1>3. Result' \in CallOutcomes(Call)
  BY <1>1, FailureResult, UnbuiltAllowed
<1>4. Result' \in CallOutcomes(Call)'
  BY <1>2, <1>3
<1>5. PathInv' /\ AnswerInv'
  BY <1>2 DEF PathInv, AnswerInv, Early, Answering
<1> QED BY <1>4, <1>5 DEF OutcomeInv

(* A call that fails at its transfer or after it.                           *)
LEMMA Refused ==
  ASSUME PathInv, UNCHANGED callVars, pc \in Answering \cup {"transfer"}, named,
         pc' \in {"cleanup", "leave", "done"},
         ret' = -1, gotHeaders' = FALSE, output' \in {"untouched", NULL}, lost' \in BOOLEAN,
         error' \in RefusalErrors, details' \in RefusalTexts
  PROVE  PathInv' /\ AnswerInv' /\ OutcomeInv'
<1>1. usable /\ Linking
  BY DEF PathInv, Answering
<1>2. usable' /\ Linking' /\ Call' = Call
  BY <1>1 DEF callVars, Linking, Call
<1>3. Result' = [ret |-> -1, error |-> error', details |-> details', output |-> output',
                 found |-> 0, headers |-> FALSE, lost |-> lost']
  BY FailureResult
<1>4. Result' \in CallOutcomes(Call)
  BY <1>1, <1>3, RefusalAllowed
<1>5. Result' \in CallOutcomes(Call)'
  BY <1>2, <1>4
<1>6. PathInv' /\ AnswerInv'
  BY <1>2 DEF PathInv, AnswerInv, Early, Answering
<1> QED BY <1>5, <1>6 DEF OutcomeInv

(* A call that does not survive.                                            *)
LEMMA Crashing ==
  ASSUME PathInv, UNCHANGED callVars, pc \in Answering, pc' = "crashed",
         answer = "error" \/ (kind = "get_by_name" /\ listing # <<>>)
  PROVE  PathInv' /\ AnswerInv' /\ OutcomeInv'
<1>1. usable /\ Linking /\ named
  BY DEF PathInv, Answering
<1>2. usable' /\ Linking' /\ Call' = Call
  BY <1>1 DEF callVars, Linking, Call
<1>3. Crashed \in Crashes(Call)
  BY DEF Crashes, Call
<1>4. Crashed \in CallOutcomes(Call)
  BY <1>1, <1>3, Allowed
<1>5. Crashed \in CallOutcomes(Call)'
  BY <1>2, <1>4
<1>6. PathInv' /\ AnswerInv'
  BY <1>2 DEF PathInv, AnswerInv, Early, Answering
<1> QED BY <1>5, <1>6 DEF OutcomeInv

(* A fetch that parsed what was asked for.                                  *)
LEMMA FetchedWhole ==
  ASSUME PathInv, UNCHANGED callVars, pc = "search", pc' = "cleanup", kind \in Fetching,
         answer = "good", UNCHANGED <<error, details, gotHeaders, lost>>, lost = FALSE,
         output' = "parsed", ret' = 0,
         IF kind = "get_by_name" THEN Places(listing) # {} /\ cursor' = Min(Places(listing))
                                 ELSE cursor' = 0
  PROVE  PathInv' /\ AnswerInv' /\ OutcomeInv'
<1>1. usable /\ Linking /\ named /\ error = None /\ details = None /\ gotHeaders = FALSE
  BY DEF PathInv, Answering
<1>2. usable' /\ Linking' /\ Call' = Call
  BY <1>1 DEF callVars, Linking, Call
<1>3. Result' = [ret |-> 0, error |-> None, details |-> None, output |-> "parsed",
                 found |-> cursor', headers |-> FALSE, lost |-> FALSE]
  BY <1>1 DEF Result
<1>4. Call.kind = kind /\ Call.answer = answer /\ Call.listing = listing
  BY DEF Call
<1>5. Fetched(Call) = Successes({"parsed"}, {cursor'}, {FALSE}, {FALSE})
  BY <1>4 DEF Fetched
<1>6. Result' \in Fetched(Call)
  BY <1>3, <1>5 DEF Successes
<1>7. Result' \in CallOutcomes(Call)
  BY <1>1, <1>6, Allowed
<1>8. Result' \in CallOutcomes(Call)'
  BY <1>2, <1>7
<1>9. PathInv' /\ AnswerInv'
  BY <1>2 DEF PathInv, AnswerInv, Early, Answering
<1> QED BY <1>8, <1>9 DEF OutcomeInv

(* A change that was made, or whose refusal was lost.                       *)
LEMMA ChangeMade ==
  ASSUME IInv, ClassifyAnswer, data # "error"
  PROVE  PathInv' /\ AnswerInv' /\ OutcomeInv'
<1>1. /\ pc = "classify" /\ kind \notin Fetching /\ pc' = "cleanup" /\ ret' = 0
      /\ UNCHANGED <<error, details, lost, cursor>> /\ UNCHANGED callVars
      /\ gotHeaders' = ("headers" \in heap)
      /\ output' \in IF "data" \in wanted /\ data # NULL THEN {"data", NULL} ELSE {output}
  BY DEF ClassifyAnswer, Goto
<1>2. /\ usable /\ Linking /\ named /\ error = None /\ details = None /\ output = "untouched" /\ cursor = 0
      /\ DataIsAnswer /\ ("headers" \in heap => "headers" \in wanted) /\ lost \in BOOLEAN
  BY <1>1 DEF IInv, PathInv, AnswerInv, Answering, TypeOK
<1>3. usable' /\ Linking' /\ Call' = Call
  BY <1>1, <1>2 DEF callVars, Linking, Call
<1>4. answer = "error" => lost = TRUE
  BY <1>2 DEF DataIsAnswer
<1>5. Result' = [ret |-> 0, error |-> None, details |-> None, output |-> output', found |-> 0,
                 headers |-> gotHeaders', lost |-> lost]
  BY <1>1, <1>2 DEF Result
<1>6. Call.wanted = wanted /\ Call.answer = answer /\ Call.kind = kind
  BY DEF Call
<1> DEFINE outputs == IF "data" \in wanted THEN {"untouched", "data", NULL} ELSE {"untouched"}
           hdrs == IF "headers" \in wanted THEN BOOLEAN ELSE {FALSE}
           losses == IF answer = "error" THEN {TRUE} ELSE BOOLEAN
<1>7. Changed(Call) = Successes(outputs, {0}, hdrs, losses)
  BY <1>6 DEF Changed
<1>8. output' \in outputs /\ gotHeaders' \in hdrs /\ lost \in losses
  <2>1. output' \in outputs
    BY <1>1, <1>2
  <2>2. gotHeaders' \in hdrs
    <3>1. CASE "headers" \in wanted
      <4>1. ("headers" \in heap) \in BOOLEAN
        OBVIOUS
      <4> QED BY <1>1, <3>1, <4>1
    <3>2. CASE "headers" \notin wanted
      <4>1. ("headers" \in heap) = FALSE
        BY <1>2, <3>2
      <4> QED BY <1>1, <3>2, <4>1
    <3> QED BY <3>1, <3>2
  <2>3. lost \in losses
    BY <1>2, <1>4, Zenon
  <2> QED BY <2>1, <2>2, <2>3
<1> HIDE DEF outputs, hdrs, losses
<1>9. Result' \in Changed(Call)
  BY <1>5, <1>7, <1>8 DEF Successes
<1>10. Result' \in CallOutcomes(Call)
  BY <1>1, <1>2, <1>9, Allowed
<1>11. Result' \in CallOutcomes(Call)'
  BY <1>3, <1>10
<1>12. PathInv' /\ AnswerInv'
  BY <1>1, <1>3 DEF PathInv, AnswerInv, Early, Answering
<1> QED BY <1>1, <1>11, <1>12 DEF OutcomeInv

(* The first instance that has the name is the first place where it is.     *)
LEMMA FirstPlace ==
  ASSUME TypeOK, NotYetFound
  PROVE  /\ cursor <= Len(listing) /\ listing[cursor] = "wanted" =>
              Places(listing) # {} /\ cursor = Min(Places(listing))
         /\ cursor > Len(listing) => Places(listing) = {}
<1>1. /\ listing \in Seq({"wanted", "other", NULL}) /\ Len(listing) \in Nat
      /\ cursor \in 0..(Len(listing) + 1) /\ cursor > 0
  BY BoundedIs, BoundsAssumption DEF TypeOK, Listings, NotYetFound
<1>2. \A j \in Places(listing) : j \in 1..Len(listing) /\ j >= cursor
  <2> SUFFICES ASSUME NEW j \in Places(listing) PROVE j \in 1..Len(listing) /\ j >= cursor
    OBVIOUS
  <2>1. j \in 1..Len(listing) /\ listing[j] = "wanted"
    BY <1>1 DEF Places
  <2>2. ~(j < cursor)
    BY <1>1, <2>1 DEF NotYetFound
  <2> QED BY <1>1, <2>1, <2>2
<1>3. ASSUME cursor <= Len(listing), listing[cursor] = "wanted"
      PROVE  Places(listing) # {} /\ cursor = Min(Places(listing))
  <2>1. cursor \in Places(listing)
    BY <1>1, <1>3 DEF Places
  <2>2. Places(listing) \subseteq Nat /\ \A j \in Places(listing) : cursor <= j
    BY <1>1, <1>2
  <2> QED BY <2>1, <2>2, ExtremeIs
<1>4. ASSUME cursor > Len(listing) PROVE Places(listing) = {}
  BY <1>1, <1>2, <1>4
<1> QED BY <1>3, <1>4

(* Every step keeps to the contract.                                        *)
LEMMA ContractNext == IInv /\ [Next]_vars => PathInv' /\ AnswerInv' /\ OutcomeInv'
<1> SUFFICES ASSUME IInv, [Next]_vars PROVE PathInv' /\ AnswerInv' /\ OutcomeInv'
  OBVIOUS
<1>1. /\ TypeOK /\ PathInv /\ AnswerInv /\ OutcomeInv /\ UNCHANGED callVars
  BY CallKept DEF IInv
<1>2. CASE UNCHANGED vars
  <2>1. Call' = Call /\ Result' = Result /\ (Linking' <=> Linking)
    BY <1>2 DEF vars, Call, Result, Linking
  <2> QED BY <1>1, <1>2, <2>1 DEF vars, PathInv, AnswerInv, OutcomeInv, DataIsAnswer, NotYetFound
<1>3. CASE CheckApi \/ FindLink \/ BuildAddress \/ NothingToBuild \/ BuildUrl \/ BuildParams
  <2>1. UNCHANGED <<data, lost, cursor, output, gotHeaders, ret>>
    BY <1>3, PrepareStep
  <2>2. pc \in Early => /\ ret = -1 /\ error = None /\ details = None /\ gotHeaders = FALSE
                        /\ output = "untouched" /\ lost = FALSE
    BY <1>1 DEF PathInv, Early
  <2>3. Call' = Call /\ Call.usable = usable /\ Call.kind = kind /\ Call.links = links
    BY <1>1 DEF callVars, Call
  <2>4. CASE /\ UNCHANGED <<error, details>>
             /\ \/ pc = "check" /\ pc' = "link" /\ usable
                \/ pc = "link" /\ pc' = "address" /\ Linking
                \/ pc = "address" /\ pc' = "build"
                \/ pc = "build" /\ pc' = "transfer"
    <3>1. /\ pc \in Early /\ pc' \in Early /\ (pc' # "check" => usable)
          /\ pc' \notin {"check", "link"} => Linking
      BY <1>1, <2>4 DEF PathInv, Early
    <3> QED BY <1>1, <2>1, <2>4, <3>1, GoesOn
  <2>5. CASE pc = "check" /\ pc' = "done" /\ ~usable /\ error' = "INVALID_ARGUMENT" /\ details' = None
    <3>1. /\ Result' = [ret |-> -1, error |-> error', details |-> details', output |-> output',
                        found |-> 0, headers |-> FALSE, lost |-> lost']
          /\ output' = "untouched" /\ lost' = FALSE
      BY <2>1, <2>2, <2>5, FailureResult DEF Early
    <3>2. CallOutcomes(Call) = Failures({"INVALID_ARGUMENT"}, {None}, {FALSE})
      BY <2>3, <2>5 DEF CallOutcomes
    <3>3. Result' \in CallOutcomes(Call)
      BY <2>5, <3>1, <3>2 DEF Failures
    <3> QED BY <2>3, <2>5, <3>3 DEF PathInv, AnswerInv, OutcomeInv, Early, Answering
  <2>6. CASE /\ pc = "link" /\ pc' = "done" /\ kind \in Linked /\ links = "missing"
             /\ error' = "URL_DOES_NOT_EXIST" /\ details' = None
    <3>1. /\ Result' = [ret |-> -1, error |-> error', details |-> details', output |-> output',
                        found |-> 0, headers |-> FALSE, lost |-> lost']
          /\ output' = "untouched" /\ lost' = FALSE
      BY <2>1, <2>2, <2>6, FailureResult DEF Early
    <3>2. usable
      BY <1>1, <2>6 DEF PathInv
    <3>3. CallOutcomes(Call) = Failures({"URL_DOES_NOT_EXIST"}, {None}, {FALSE})
      BY <2>3, <2>6, <3>2 DEF CallOutcomes
    <3>4. Result' \in CallOutcomes(Call)
      BY <2>6, <3>1, <3>3 DEF Failures
    <3> QED BY <2>3, <2>6, <3>4 DEF PathInv, AnswerInv, OutcomeInv, Early, Answering
  <2>7. CASE pc = "link" /\ pc' = "crashed" /\ kind \in Linked /\ links = "nameless"
    <3>1. usable /\ usable'
      BY <1>1, <2>7 DEF PathInv, callVars
    <3>2. CallOutcomes(Call) = {Crashed}
      BY <2>3, <2>7, <3>1 DEF CallOutcomes
    <3> QED BY <2>3, <2>7, <3>1, <3>2 DEF PathInv, AnswerInv, OutcomeInv, Early, Answering
  <2>8. CASE /\ pc \in {"address", "build"} /\ pc' \in {"done", "leave", "cleanup"}
             /\ kind \in Building /\ error' = "OOM" /\ details' = None
    <3>1. ret' = -1 /\ gotHeaders' = FALSE /\ output' = "untouched" /\ lost' = FALSE
      BY <2>1, <2>2, <2>8 DEF Early
    <3> QED BY <1>1, <2>8, <3>1, Unbuilt
  <2> QED BY <1>3, <2>4, <2>5, <2>6, <2>7, <2>8, PrepareStep
<1>4. CASE Transfer
  <2>1. /\ pc = "transfer" /\ named /\ UNCHANGED <<cursor, output, gotHeaders, ret>>
        /\ ret = -1 /\ error = None /\ details = None /\ gotHeaders = FALSE
        /\ output = "untouched" /\ lost = FALSE /\ cursor = 0 /\ usable /\ Linking
    BY <1>1, <1>4, TransferStep DEF PathInv, Early
  <2>2. CASE /\ pc' = "cleanup" /\ error' \in {errcode, "OOM"} /\ details' = None
             /\ UNCHANGED <<data, heap, lost>>
    <3>1. error' \in RefusalErrors /\ details' \in RefusalTexts
      BY <2>2, ErrcodeKnown DEF RefusalErrors, RefusalTexts
    <3> QED BY <1>1, <2>1, <2>2, <3>1, Refused
  <2>3. CASE /\ pc' = "classify" /\ UNCHANGED <<error, details>>
             /\ \/ data' = NULL /\ lost' = (answer # "none")
                \/ data' = answer /\ answer # "none" /\ lost' = FALSE
             /\ heap' \subseteq heap \cup {"data", "headers"}
             /\ "headers" \in heap' => "headers" \in heap \cup wanted
    <3>1. DataIsAnswer' /\ usable' /\ Linking' /\ named'
      BY <1>1, <2>1, <2>3 DEF DataIsAnswer, Linking, callVars
    <3>2. "headers" \notin heap
      BY <2>1 DEF IInv, HeapInv, Addresses, Temporaries
    <3>3. "headers" \in heap' => "headers" \in wanted'
      BY <1>1, <2>3, <3>2 DEF callVars
    <3> QED BY <2>1, <2>3, <3>1, <3>3 DEF PathInv, AnswerInv, OutcomeInv, Early, Answering
  <2> QED BY <1>4, <2>2, <2>3, TransferStep
<1>13. CASE TransferCrashes
  <2>1. /\ pc = "transfer" /\ pc' = "crashed" /\ ~named
        /\ usable /\ Linking
    BY <1>1, <1>13 DEF TransferCrashes, Goto, PathInv
  <2>2. usable' /\ Linking' /\ Call' = Call
    BY <1>1, <2>1 DEF callVars, Linking, Call
  <2>3. Crashed \in CallOutcomes(Call)
    BY <2>1, AllowedUnsent DEF Unsent
  <2>4. Crashed \in CallOutcomes(Call)'
    BY <2>2, <2>3
  <2> QED BY <2>1, <2>2, <2>4 DEF PathInv, AnswerInv, OutcomeInv, Early, Answering
<1>5. CASE ClassifyFetched
  <2>1. /\ pc = "classify" /\ kind \in Fetching /\ UNCHANGED <<data, heap, lost, cursor, output, gotHeaders, ret>>
        /\ ret = -1 /\ error = None /\ details = None /\ gotHeaders = FALSE /\ DataIsAnswer
        /\ output = "untouched" /\ cursor = 0 /\ usable /\ Linking /\ named /\ lost \in BOOLEAN
    BY <1>1, <1>5 DEF ClassifyFetched, workVars, resultVars, PathInv, AnswerInv, TypeOK, Answering
  <2>2. CASE data = NULL /\ FailAt("cleanup", errcode)
    <3>1. pc' = "cleanup" /\ error' \in RefusalErrors /\ details' \in RefusalTexts
      BY <2>2, ErrcodeKnown DEF FailAt, RefusalErrors, RefusalTexts
    <3> QED BY <1>1, <2>1, <3>1, Refused DEF Answering
  <2>3. CASE (data = "error" /\ Goto("explain")) \/ (data \in {"good", "other"} /\ Goto("parse"))
    <3>1. DataIsAnswer' /\ usable' /\ Linking' /\ named' /\ kind' \in Fetching
      BY <1>1, <2>1 DEF DataIsAnswer, Linking, callVars
    <3>2. /\ UNCHANGED <<error, details>>
          /\ (pc' = "explain" /\ data' = "error") \/ (pc' = "parse" /\ data' # "error")
      BY <2>1, <2>3 DEF Goto
    <3> QED BY <2>1, <3>1, <3>2 DEF PathInv, AnswerInv, OutcomeInv, Early, Answering
  <2> QED BY <1>5, <2>2, <2>3 DEF ClassifyFetched
<1>6. CASE ClassifyAnswer
  <2>1. CASE data = "error"
    <3>1. /\ pc = "classify" /\ pc' = "explain"
          /\ UNCHANGED <<data, heap, lost, cursor, output, gotHeaders, ret, error, details>>
      BY <1>6, <2>1 DEF ClassifyAnswer, Goto, resultVars
    <3>2. /\ ret = -1 /\ error = None /\ details = None /\ gotHeaders = FALSE /\ DataIsAnswer
          /\ output = "untouched" /\ cursor = 0 /\ usable /\ Linking /\ named
      BY <1>1, <3>1 DEF PathInv, AnswerInv, Answering
    <3>3. DataIsAnswer' /\ usable' /\ Linking' /\ named'
      BY <1>1, <3>1, <3>2 DEF DataIsAnswer, Linking, callVars
    <3> QED BY <2>1, <3>1, <3>2, <3>3 DEF PathInv, AnswerInv, OutcomeInv, Early, Answering
  <2>2. CASE data # "error"
    BY <1>6, <2>2, ChangeMade
  <2> QED BY <2>1, <2>2
<1>7. CASE SetXmlError
  <2>1. /\ pc = "explain" /\ UNCHANGED <<lost, output, gotHeaders, ret>>
        /\ ret = -1 /\ gotHeaders = FALSE /\ output = "untouched" /\ lost \in BOOLEAN /\ named
    BY <1>1, <1>7 DEF SetXmlError, resultVars, PathInv, AnswerInv, TypeOK, Answering
  <2>2. answer = "error"
    BY <1>1, <2>1, OutputsAssumption DEF AnswerInv, DataIsAnswer, Answering, Answers
  <2>3. CASE pc' = "crashed"
    BY <1>1, <2>1, <2>2, <2>3, Crashing DEF Answering
  <2>4. CASE pc' # "crashed"
    <3>1. message \in Text
      BY <1>1, BoundedIs, BoundsAssumption DEF TypeOK, Messages, Text
    <3>2. pc' = "cleanup" /\ error' = errcode /\ details' \in {Trimmed(message), Unknown}
      BY <1>7, <2>4, <3>1, Stripped DEF SetXmlError
    <3>3. error' \in RefusalErrors /\ details' \in RefusalTexts
      BY <2>2, <3>2, ErrcodeKnown DEF RefusalErrors, RefusalTexts
    <3> QED BY <1>1, <2>1, <3>2, <3>3, Refused DEF Answering
  <2> QED BY <2>3, <2>4
<1>8. CASE Parse
  <2>1. /\ pc = "parse" /\ UNCHANGED <<data, heap, lost, gotHeaders, ret>>
        /\ ret = -1 /\ error = None /\ details = None /\ gotHeaders = FALSE /\ DataIsAnswer
        /\ output' \in {"untouched", NULL} /\ usable /\ Linking /\ named /\ lost \in BOOLEAN /\ kind \in Fetching
    BY <1>1, <1>8 DEF Parse, PathInv, AnswerInv, TypeOK, Answering
  <2>2. CASE data = "good" /\ Goto("search")
    <3>1. DataIsAnswer' /\ usable' /\ Linking' /\ named' /\ kind' \in Fetching
      BY <1>1, <2>1 DEF DataIsAnswer, Linking, callVars
    <3>2. pc' = "search" /\ cursor' = 1 /\ UNCHANGED <<error, details>> /\ data' = "good"
      BY <1>8, <2>1, <2>2 DEF Parse, Goto
    <3>3. NotYetFound'
      BY <3>2 DEF NotYetFound
    <3> QED BY <2>1, <3>1, <3>2, <3>3 DEF PathInv, AnswerInv, OutcomeInv, Early, Answering
  <2>3. CASE FailAt("cleanup", "XML")
    <3>1. pc' = "cleanup" /\ error' \in RefusalErrors /\ details' \in RefusalTexts
      BY <2>1, <2>3 DEF FailAt, RefusalErrors, RefusalTexts
    <3> QED BY <1>1, <2>1, <3>1, Refused DEF Answering
  <2> QED BY <1>8, <2>2, <2>3 DEF Parse
<1>9. pc = "search" => /\ ret = -1 /\ error = None /\ details = None /\ gotHeaders = FALSE
                       /\ output \in {"untouched", NULL} /\ usable /\ Linking /\ named /\ kind \in Fetching
                       /\ data = "good" /\ answer = "good" /\ lost = FALSE
                       /\ kind = "get_by_name" => NotYetFound
  BY <1>1, OutputsAssumption DEF PathInv, AnswerInv, DataIsAnswer, Answering, Answers
<1>10. CASE ParseAll
  <2>1. pc = "search" /\ kind # "get_by_name" /\ UNCHANGED <<data, lost, gotHeaders>> /\ cursor' = 0
    BY <1>10 DEF ParseAll
  <2>2. CASE Parsed
    <3>1. output' = "parsed" /\ ret' = 0 /\ pc' = "cleanup" /\ UNCHANGED <<error, details>>
      BY <2>2 DEF Parsed, Goto
    <3> QED BY <1>1, <1>9, <2>1, <3>1, FetchedWhole
  <2>3. CASE FailAt("cleanup", "OOM") /\ UNCHANGED <<output, ret>>
    <3>1. pc' = "cleanup" /\ error' \in RefusalErrors /\ details' \in RefusalTexts
      BY <2>3 DEF FailAt, RefusalErrors, RefusalTexts
    <3> QED BY <1>1, <1>9, <2>1, <2>3, <3>1, Refused DEF Answering
  <2> QED BY <1>10, <2>2, <2>3 DEF ParseAll
<1>11. CASE FindAndParseInstance
  <2>1. pc = "search" /\ kind = "get_by_name" /\ UNCHANGED <<data, heap, lost, gotHeaders>> /\ NotYetFound
    BY <1>9, <1>11 DEF FindAndParseInstance
  <2>2. /\ Len(listing) \in Nat /\ cursor \in 0..(Len(listing) + 1)
        /\ listing \in Seq({"wanted", "other", NULL})
    BY <1>1, BoundedIs, BoundsAssumption DEF TypeOK, Listings
  <2>3. CASE cursor > Len(listing) /\ FailAt("cleanup", "NAME_NOT_FOUND") /\ UNCHANGED <<cursor, output, ret>>
    <3>1. Places(listing) = {}
      BY <1>1, <2>1, <2>3, FirstPlace
    <3>2. pc' = "cleanup" /\ error' \in RefusalErrors /\ details' \in RefusalTexts
      BY <2>1, <2>3, <3>1 DEF FailAt, RefusalErrors, RefusalTexts
    <3> QED BY <1>1, <1>9, <2>1, <2>3, <3>2, Refused DEF Answering
  <2>4. CASE cursor <= Len(listing) /\ Goto("crashed")
    <3>1. listing # <<>> /\ pc' = "crashed"
      BY <2>1, <2>2, <2>4 DEF NotYetFound, Goto
    <3> QED BY <1>1, <2>1, <3>1, Crashing DEF Answering
  <2>5. CASE cursor <= Len(listing) /\ listing[cursor] = "wanted" /\ Parsed /\ UNCHANGED cursor
    <3>1. Places(listing) # {} /\ cursor' = Min(Places(listing))
      BY <1>1, <2>1, <2>5, FirstPlace
    <3>2. output' = "parsed" /\ ret' = 0 /\ pc' = "cleanup" /\ UNCHANGED <<error, details>>
      BY <2>5 DEF Parsed, Goto
    <3> QED BY <1>1, <1>9, <2>1, <3>1, <3>2, FetchedWhole
  <2>6. CASE FailAt("cleanup", "OOM") /\ UNCHANGED <<output, ret>>
    <3>1. pc' = "cleanup" /\ error' \in RefusalErrors /\ details' \in RefusalTexts
      BY <2>6 DEF FailAt, RefusalErrors, RefusalTexts
    <3> QED BY <1>1, <1>9, <2>1, <2>6, <3>1, Refused DEF Answering
  <2>7. CASE /\ cursor <= Len(listing) /\ listing[cursor] = "other" /\ cursor' = cursor + 1
             /\ Goto("search") /\ UNCHANGED <<output, ret>>
    <3>1. pc' = "search" /\ UNCHANGED <<error, details, listing, kind, answer>>
      BY <1>1, <2>7 DEF Goto, callVars
    <3>2. NotYetFound'
      <4>1. \A j \in 1..((cursor + 1) - 1) : j \in 1..(cursor - 1) \/ j = cursor
        BY <2>2
      <4>2. cursor + 1 > 0
        BY <2>2
      <4> QED BY <2>1, <2>7, <3>1, <4>1, <4>2 DEF NotYetFound
    <3>3. DataIsAnswer' /\ usable' /\ Linking' /\ named'
      BY <1>1, <1>9, <2>1 DEF DataIsAnswer, Linking, callVars
    <3> QED BY <1>9, <2>1, <2>7, <3>1, <3>2, <3>3 DEF PathInv, AnswerInv, OutcomeInv, Early, Answering
  <2> QED BY <1>11, <2>3, <2>4, <2>5, <2>6, <2>7 DEF FindAndParseInstance
<1>12. CASE Cleanup \/ Leave
  <2>1. /\ pc \in {"cleanup", "leave"} /\ pc' \in {"leave", "done"} /\ (pc = "cleanup" \/ pc' = "done")
        /\ UNCHANGED <<lost, cursor, output, gotHeaders, ret, error, details>>
    BY <1>12 DEF Cleanup, Leave, Goto, resultVars
  <2>2. Call' = Call /\ Result' = Result /\ (Linking' <=> Linking) /\ usable' = usable
    BY <1>1, <2>1 DEF callVars, Call, Result, Linking
  <2> QED BY <1>1, <2>1, <2>2 DEF PathInv, AnswerInv, OutcomeInv, Early, Answering
<1> QED BY <1>2, <1>3, <1>4, <1>5, <1>6, <1>7, <1>8, <1>10, <1>11, <1>12, <1>13 DEF Next, Returned

(* Every step keeps the invariant.                                          *)
LEMMA InvNext == IInv /\ [Next]_vars => IInv'
<1> SUFFICES ASSUME IInv, [Next]_vars PROVE IInv'
  OBVIOUS
<1>1. ResultInv'
  BY ResultKeeps
<1>2. HeapInv'
  <2>1. CASE UNCHANGED vars
    BY <2>1 DEF vars, IInv, HeapInv, Temporaries
  <2>2. CASE TransferCrashes
    <3>1. pc' = "crashed" /\ wanted' = wanted /\ kind' = kind
      BY <2>2 DEF TransferCrashes, Goto, callVars
    <3> QED BY <3>1 DEF IInv, HeapInv, Labels
  <2> QED BY <2>1, <2>2, PrepareKeeps, BuildKeeps, TransferKeeps, AnswerKeeps, CleanupKeeps
          DEF Next, Returned
<1>3. TypeOK'
  BY TypeNext
<1>4. PathInv' /\ AnswerInv' /\ OutcomeInv'
  BY ContractNext
<1> QED BY <1>1, <1>2, <1>3, <1>4 DEF IInv

-----------------------------------------------------------------------------
(* The invariant of one call of a request helper.                           *)
THEOREM Invariance == Spec => []IInv
BY InvInit, InvNext, PTL DEF Spec

(* The variables keep their types, for listings and messages of any length. *)
THEOREM TypeCorrect == Spec => []TypeOK
<1>1. IInv => TypeOK
  BY DEF IInv
<1> QED BY <1>1, Invariance, PTL

(* For any listing and any message, and wherever a call fails: it has freed *)
(* what it allocated when it returns, and hands nothing over with a -1.     *)
THEOREM TemporariesFreedAlways == Spec => []TemporariesFreed
<1>1. IInv => TemporariesFreed
  BY DEF IInv, HeapInv, ResultInv, TemporariesFreed
<1> QED BY <1>1, Invariance, PTL

(* Every call of a request helper is one step of the contract its clients   *)
(* rely on: what it returns, hands over and reports is what the contract    *)
(* allows for what it was given and what the server answered, for listings  *)
(* and messages of any length.                                              *)
THEOREM ContractImplemented == Spec => CallPromised
<1>1. Init => Contract!Init
  BY DEF Init, Contract!Init, Outcome
<1>2. IInv /\ IInv' /\ [Next]_vars => [Contract!Return]_(Contract!vars)
  <2> SUFFICES ASSUME IInv, IInv', [Next]_vars PROVE [Contract!Return]_(Contract!vars)
    OBVIOUS
  <2>1. Call' = Call
    BY CallKept DEF callVars, Call
  <2>2. CASE pc \in {"done", "crashed"}
    <3>1. UNCHANGED vars
      BY <2>2 DEF Next, CheckApi, FindLink, BuildAddress, NothingToBuild, BuildUrl, BuildParams, Transfer,
                  TransferCrashes, ClassifyFetched, ClassifyAnswer, SetXmlError, Parse, ParseAll, FindAndParseInstance,
                  Cleanup, Leave, Returned
    <3> QED BY <2>1, <3>1 DEF vars, Contract!vars, Outcome
  <2>3. CASE pc \notin {"done", "crashed"} /\ pc' \notin {"done", "crashed"}
    BY <2>1, <2>3 DEF Contract!vars, Outcome
  <2>4. CASE pc \notin {"done", "crashed"} /\ pc' \in {"done", "crashed"}
    <3>1. Outcome = NULL
      BY <2>4 DEF Outcome
    <3>2. Outcome' = IF pc' = "done" THEN Result' ELSE Crashed
      BY <2>4 DEF Outcome, Result
    <3>3. Outcome' \in CallOutcomes(Call)'
      BY <2>4, <3>2 DEF IInv, OutcomeInv
    <3>4. Outcome' \in CallOutcomes(Call)
      BY <2>1, <3>3
    <3>5. Contract!CallOutcomes(Call) = CallOutcomes(Call)
      <4>1. Contract!Linked = Linked /\ Contract!Fetching = Fetching
        BY DEF Contract!Linked, Contract!Fetching, Linked, Fetching
      <4>2. \A k : Contract!ErrcodeOf(k) = ErrcodeOf(k)
        BY DEF Contract!ErrcodeOf, ErrcodeOf
      <4>3. \A S : Contract!Min(S) = Min(S) /\ Contract!Max(S) = Max(S)
        BY DEF Contract!Min, Contract!Max, Min, Max
      <4>4. \A text : Contract!Trimmed(text) = Trimmed(text)
        BY <4>3 DEF Contract!Trimmed, Contract!Inked, Trimmed, Inked
      <4>5. \A names : Contract!Places(names) = Places(names)
        BY DEF Contract!Places, Places
      <4>6. \A errors, texts, l : Contract!Failures(errors, texts, l) = Failures(errors, texts, l)
        BY DEF Contract!Failures, Failures
      <4>7. \A outputs, places, headers, l :
              Contract!Successes(outputs, places, headers, l) = Successes(outputs, places, headers, l)
        BY DEF Contract!Successes, Successes
      <4>8. Contract!Fetched(Call) = Fetched(Call)
        BY <4>3, <4>5, <4>7 DEF Contract!Fetched, Fetched
      <4>9. Contract!Changed(Call) = Changed(Call)
        BY <4>7 DEF Contract!Changed, Changed
      <4>10. Contract!Refusals(Call) = Refusals(Call)
        BY <4>1, <4>2, <4>4, <4>5, <4>6 DEF Contract!Refusals, Refusals
      <4>11. Contract!Crashes(Call) = Crashes(Call)
        BY DEF Contract!Crashes, Crashes
      <4>12. Contract!Unsent(Call) = Unsent(Call)
        BY <4>6 DEF Contract!Unsent, Contract!Building, Unsent, Building
      <4> QED BY <4>1, <4>6, <4>8, <4>9, <4>10, <4>11, <4>12 DEF Contract!CallOutcomes, CallOutcomes
    <3> QED BY <2>1, <3>1, <3>4, <3>5 DEF Contract!Return
  <2> QED BY <2>2, <2>3, <2>4
<1> QED BY <1>1, <1>2, Invariance, PTL DEF Spec, CallPromised, Contract!Spec
=============================================================================
