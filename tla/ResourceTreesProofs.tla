------------------------- MODULE ResourceTreesProofs -------------------------
(***************************************************************************)
(* Proofs about ResourceTrees for documents of any width.  Everything in    *)
(* them rests on the order in which a document is parsed: a position in the *)
(* parse is the element that comes next, and what was passed before it is   *)
(* what is linked.                                                          *)
(***************************************************************************)
EXTENDS ResourceTrees, TLAPS, WellFoundedInduction, SequenceTheorems

-----------------------------------------------------------------------------
(* p is q, or an element above it.                                          *)
Within(q, p) == Len(p) <= Len(q) /\ \A i \in 1..Len(p) : q[i] = p[i]

(* q is parsed before the parser comes to x: it is left of x, or below      *)
(* something that is.                                                       *)
Before(q, x) ==
  \E n \in 1..Len(x) : /\ n <= Len(q)
                       /\ \A i \in 1..(n - 1) : q[i] = x[i]
                       /\ q[n] < x[n]

(* The structures being filled.                                             *)
Opened == {frames[n].path : n \in 2..Len(frames)}

Running == pc \in {"parse", "unwind"}

(* The answer is a document of its kind, and stays what it is.              *)
DocumentInv ==
  /\ resource \in Resources
  /\ single \in BOOLEAN /\ (resource = "blobs" => single)
  /\ document \in Documents[resource]

(* The parsers under way are nested as the elements are, and each one has   *)
(* gone on to the child its callee parses.                                  *)
Frame == [path : Elements, oldnode : Elements, next : 1..(Width + 1)]

Nested(fs) ==
  /\ fs[1].path = Root
  /\ \A n \in 1..Len(fs) : Len(fs[n].path) = n - 1
  /\ \A n \in 2..Len(fs) : fs[n].path = Append(fs[n - 1].path, fs[n - 1].next - 1)
  /\ \A n \in 1..Len(fs) : \A m \in 1..n : Within(fs[n].path, fs[m].path)

StackInv == frames \in Seq(Frame) /\ Len(frames) > 0 /\ Nested(frames)

(* What is linked is what the parser has passed, but for addresses, samples *)
(* without children and lists that were not found; when it is through that  *)
(* is everything.                                                           *)
LinkedInv ==
  /\ attached \subseteq document
  /\ pc = "parse" => /\ \A q \in attached : Before(q, Child)
                     /\ \A q \in document \ (Optional \cup Forgone) : Before(q, Child) => q \in attached
  /\ pc = "done" /\ ret = 0 => document \ attached \subseteq Optional \cup Forgone
  /\ Running => Opened \cap attached = {}

(* While a failure unwinds, what is above a linked structure is linked or   *)
(* still being filled; below a rule that was dropped it is not.             *)
UnwindInv ==
  pc = "unwind" /\ resource # "firewalls" =>
    \A q \in attached : \A k \in 1..(Len(q) - 1) : SubSeq(q, 1, k) \in attached \cup Opened

(* What is linked is allocated, and so is what is being filled.             *)
Allocated(p) == <<p, "fields">> \in heap /\ (Provided(p) \/ <<p, "struct">> \in heap)

HeapInv ==
  /\ heap \subseteq document \X Parts
  /\ \A p \in attached : Allocated(p)
  /\ pc = "parse" => \A p \in Opened : Allocated(p)

(* The other way round, what is allocated is linked, being filled, or one   *)
(* of the known leftovers.                                                  *)
Leftover(a) ==
  \/ a[2] = "forgotten"
  \/ a[2] = "struct" /\ a[1] \in Optional /\ ~TypeOf(a[1]).tested
  \/ resource = "firewalls" /\ pc # "parse" /\ ret = -1 /\ Len(a[1]) > 1

OwnedInv ==
  /\ Running => \A a \in heap : Leftover(a) \/ a[1] \in attached \cup Opened
  /\ pc = "done" /\ ret = 0 => \A a \in heap : Leftover(a) \/ a[1] \in attached
  /\ LeftoversKnown

(* Whether the context is moved to the elements of a level.                 *)
Moves(k) == Chain[resource][k].moves \/ (single /\ k = 1)

(* The context a parser notes is its own element, or, if that is not moved  *)
(* to, what its caller noted; and that is where it comes back to.           *)
ContextInv ==
  /\ context \in Elements
  /\ frames[1].oldnode = Root
  /\ \A n \in 2..Len(frames) :
       frames[n].oldnode = IF Moves(n - 1) THEN frames[n].path ELSE frames[n - 1].oldnode
  /\ pc = "parse" => context = Top.oldnode \/ Moves(Len(frames))

FieldsInv ==
  /\ DOMAIN fields \subseteq document /\ Range(fields) \subseteq Elements
  /\ FieldsNearby

OutcomeInv ==
  /\ pc \in {"parse", "unwind", "done", "freed", "crashed", "hung"}
  /\ pc \in {"crashed", "hung"} => resource = "metrics"
  /\ pc \in {"parse", "crashed", "hung"} => ret = -1 /\ error = None
  /\ pc = "unwind" => ret = -1 /\ error = "OOM"
  /\ pc = "done" => \/ ret = 0 /\ error = None
                    \/ ret = -1 /\ error = "OOM" /\ Reached(Root) = {}
  /\ pc = "freed" => ret = 0 /\ error = None

IInv ==
  /\ DocumentInv /\ StackInv /\ LinkedInv /\ UnwindInv /\ HeapInv /\ OwnedInv
  /\ ContextInv /\ FieldsInv /\ OutcomeInv

-----------------------------------------------------------------------------
(* The table of types.                                                      *)
Plain(t) == /\ t.tested = TRUE /\ t.frees = TRUE
            /\ t.reads = "element" \/ (t.reads = "context" /\ t.moves = TRUE)

(* Most types: their memory is tested, their contents are freed, and their  *)
(* fields are read from their own element.                                  *)
LEMMA PlainTypes ==
  \A t \in {Firewall, Source, Bucket, Entry, LoadBalancer, LbInstance, Link, Feature, Instance,
            Profile, Property, Param, Action, Driver, Provider, State, Transition, Image, Key,
            Realm, Volume, Snapshot} : Plain(t)
<1>1. Plain(Item)
  BY DEF Plain, Item
<1>2. Plain(Attributes)
  <2>1. Attributes.tested = TRUE /\ Attributes.frees = TRUE
    BY DEF Item, Attributes
  <2>2. Attributes.reads = "element"
    BY DEF Item, Attributes
  <2> QED BY <2>1, <2>2 DEF Plain
<1>3. Plain(Instance)
  <2>1. Instance.tested = TRUE /\ Instance.frees = TRUE
    BY DEF Item, Instance
  <2>2. Instance.reads = "context" /\ Instance.moves = TRUE
    BY DEF Item, Instance
  <2> QED BY <2>1, <2>2 DEF Plain
<1>4. Plain(LoadBalancer)
  <2>1. LoadBalancer.tested = TRUE /\ LoadBalancer.frees = TRUE
    BY DEF Item, LoadBalancer
  <2>2. LoadBalancer.reads = "context" /\ LoadBalancer.moves = TRUE
    BY DEF Item, LoadBalancer
  <2> QED BY <2>1, <2>2 DEF Plain
<1> QED
  BY <1>1, <1>2, <1>3, <1>4
  DEF Firewall, Source, Bucket, Entry, LbInstance, Link, Feature, Profile, Property,
      Param, Action, Driver, Provider, State, Transition, Image, Key, Realm, Volume, Snapshot

(* The types that differ in one of these.                                   *)
LEMMA OtherTypes ==
  /\ Rule.tested = TRUE /\ Rule.reads = "context" /\ Rule.moves = TRUE
  /\ Bucket.moves = TRUE /\ Instance.moves = TRUE
  /\ \A t \in {Blob, InstanceProfile} : t.tested = TRUE /\ t.frees = TRUE /\ t.reads = "context"
  /\ \A t \in {Listener, Address} : t.tested = TRUE /\ t.frees = TRUE /\ t.reads = "first"
  /\ \A t \in {Metric, Sample, SampleProperty} : t.frees = TRUE /\ t.reads = "element"
<1>1. Rule.tested = TRUE /\ Rule.reads = "context" /\ Rule.moves = TRUE
  BY DEF Item, Rule
<1>2. Bucket.moves = TRUE /\ Instance.moves = TRUE
  BY DEF Item, Bucket, Instance
<1>3. Blob.tested = TRUE /\ Blob.frees = TRUE /\ Blob.reads = "context"
  BY DEF Item, Blob
<1>4. InstanceProfile.tested = TRUE /\ InstanceProfile.frees = TRUE /\ InstanceProfile.reads = "context"
  BY DEF Item, InstanceProfile
<1>5. Listener.tested = TRUE /\ Listener.frees = TRUE /\ Listener.reads = "first"
  BY DEF Item, Listener
<1>6. Address.tested = TRUE /\ Address.frees = TRUE /\ Address.reads = "first"
  BY DEF Item, Address
<1>7. Metric.frees = TRUE /\ Metric.reads = "element"
  BY DEF Item, Metric
<1>8. Sample.frees = TRUE /\ Sample.reads = "element"
  BY DEF Item, Metric, Sample
<1>9. SampleProperty.frees = TRUE /\ SampleProperty.reads = "element"
  BY DEF Item, Metric, SampleProperty
<1> QED BY <1>1, <1>2, <1>3, <1>4, <1>5, <1>6, <1>7, <1>8, <1>9

(* What the table says of the type at level k of a document: only samples   *)
(* and metrics are allocated untested, only a rule is not freed by its      *)
(* caller, and fields are read somewhere else only for the four resources.  *)
TypeFacts(r, k) ==
  /\ Chain[r][k].reads \in {"context", "element", "first"}
  /\ ~Chain[r][k].tested => r = "metrics"
  /\ ~Chain[r][k].frees => r = "firewalls" /\ k = 2
  /\ Chain[r][k].reads = "first" => r \in Borrowing
  /\ Chain[r][k].reads = "context" /\ ~Chain[r][k].moves =>
       \/ r = "blobs" /\ k = 1
       \/ r \in Borrowing /\ k = 2 /\ Chain[r][1].moves

(* A plain type satisfies what is said of every entry of the table.         *)
LEMMA PlainFacts ==
  ASSUME NEW r, NEW k, Plain(Chain[r][k])
  PROVE  TypeFacts(r, k)
BY DEF Plain, TypeFacts

(* The table keeps to it, at every level of every kind of document.         *)
LEMMA Table ==
  ASSUME NEW r \in DOMAIN Chain
  PROVE  /\ Len(Chain[r]) \in Nat
         /\ DOMAIN Chain[r] = 1..Len(Chain[r])
         /\ \A k \in DOMAIN Chain[r] : TypeFacts(r, k)
<1> DEFINE Holds(s) == /\ Len(Chain[s]) \in Nat
                       /\ DOMAIN Chain[s] = 1..Len(Chain[s])
                       /\ \A k \in DOMAIN Chain[s] : TypeFacts(s, k)
<1>1. ASSUME NEW s, NEW a, NEW b, NEW c, Plain(a), Plain(b), Plain(c),
             Chain[s] \in {<<a>>, <<a, b>>, <<a, b, c>>}
      PROVE  Holds(s)
  <2>1. \A k \in DOMAIN Chain[s] : Plain(Chain[s][k])
    BY <1>1
  <2> QED BY <1>1, <2>1, PlainFacts
<1>2. Holds("lb_instances") /\ Holds("link_features") /\ Holds("hardware_profiles")
  <2>1. /\ Chain["lb_instances"] = <<LoadBalancer, LbInstance, Link>>
        /\ Chain["link_features"] = <<LbInstance, Link, Feature>>
        /\ Chain["hardware_profiles"] = <<Profile, Property, Param>>
    BY Zenon DEF Chain
  <2> HIDE DEF Holds
  <2> QED BY <1>1, <2>1, PlainTypes
<1>3. Holds("actions") /\ Holds("drivers") /\ Holds("instance_states")
  <2>1. /\ Chain["actions"] = <<Instance, Action>>
        /\ Chain["drivers"] = <<Driver, Provider>>
        /\ Chain["instance_states"] = <<State, Transition>>
    BY Zenon DEF Chain
  <2> HIDE DEF Holds
  <2> QED BY <1>1, <2>1, PlainTypes
<1>4. /\ Holds("images") /\ Holds("keys") /\ Holds("realms")
      /\ Holds("storage_volumes") /\ Holds("storage_snapshots")
  <2>1. /\ Chain["images"] = <<Image>> /\ Chain["keys"] = <<Key>> /\ Chain["realms"] = <<Realm>>
        /\ Chain["storage_volumes"] = <<Volume>> /\ Chain["storage_snapshots"] = <<Snapshot>>
    BY Zenon DEF Chain
  <2> HIDE DEF Holds
  <2> QED BY <1>1, <2>1, PlainTypes
<1>5. Holds("firewalls")
  <2>1. Chain["firewalls"] = <<Firewall, Rule, Source>>
    BY Zenon DEF Chain
  <2>2. \A k \in DOMAIN Chain["firewalls"] : k # 2 => Plain(Chain["firewalls"][k])
    BY <2>1, PlainTypes
  <2>3. TypeFacts("firewalls", 2)
    BY <2>1, OtherTypes DEF TypeFacts
  <2> QED BY <2>1, <2>2, <2>3, PlainFacts
<1>6. Holds("blobs")
  <2>1. Chain["blobs"] = <<Blob, Entry>>
    BY Zenon DEF Chain
  <2>2. Plain(Chain["blobs"][2])
    BY <2>1, PlainTypes
  <2>3. TypeFacts("blobs", 1)
    BY <2>1, OtherTypes DEF TypeFacts
  <2> QED BY <2>1, <2>2, <2>3, PlainFacts
<1>7. Holds("buckets")
  <2>1. Chain["buckets"] = <<Bucket, Blob, Entry>>
    BY Zenon DEF Chain
  <2>2. \A k \in DOMAIN Chain["buckets"] : k # 2 => Plain(Chain["buckets"][k])
    BY <2>1, PlainTypes
  <2>3. TypeFacts("buckets", 2)
    BY <2>1, OtherTypes DEF TypeFacts, Borrowing
  <2> QED BY <2>1, <2>2, <2>3, PlainFacts
<1>8. Holds("listeners")
  <2>1. Chain["listeners"] = <<LoadBalancer, Listener>>
    BY Zenon DEF Chain
  <2>2. Plain(Chain["listeners"][1])
    BY <2>1, PlainTypes
  <2>3. TypeFacts("listeners", 2)
    BY <2>1, OtherTypes DEF TypeFacts, Borrowing
  <2> QED BY <2>1, <2>2, <2>3, PlainFacts
<1>9. Holds("addresses")
  <2>1. Chain["addresses"] = <<Instance, Address>>
    BY Zenon DEF Chain
  <2>2. Plain(Chain["addresses"][1])
    BY <2>1, PlainTypes
  <2>3. TypeFacts("addresses", 2)
    BY <2>1, OtherTypes DEF TypeFacts, Borrowing
  <2> QED BY <2>1, <2>2, <2>3, PlainFacts
<1>10. Holds("instance_profiles")
  <2>1. Chain["instance_profiles"] = <<Instance, InstanceProfile, Property>>
    BY Zenon DEF Chain
  <2>2. \A k \in DOMAIN Chain["instance_profiles"] : k # 2 => Plain(Chain["instance_profiles"][k])
    BY <2>1, PlainTypes
  <2>3. TypeFacts("instance_profiles", 2)
    BY <2>1, OtherTypes DEF TypeFacts, Borrowing
  <2> QED BY <2>1, <2>2, <2>3, PlainFacts
<1>11. Holds("metrics")
  <2>1. Chain["metrics"] = <<Metric, Sample, SampleProperty>>
    BY Zenon DEF Chain
  <2>2. \A k \in DOMAIN Chain["metrics"] : TypeFacts("metrics", k)
    BY <2>1, OtherTypes DEF TypeFacts
  <2> QED BY <2>1, <2>2
<1>12. r \in {"firewalls", "blobs", "buckets", "listeners", "lb_instances", "link_features",
              "actions", "addresses", "instance_profiles", "hardware_profiles", "drivers",
              "instance_states", "images", "keys", "realms", "storage_volumes",
              "storage_snapshots", "metrics"}
  BY DEF Chain
<1> HIDE DEF Holds
<1>13. Holds(r)
  BY <1>2, <1>3, <1>4, <1>5, <1>6, <1>7, <1>8, <1>9, <1>10, <1>11, <1>12
<1> QED BY <1>13 DEF Holds

-----------------------------------------------------------------------------
(* Induction, in the form the provers can use: about a set of numbers.      *)
LEMMA NatSet ==
  ASSUME NEW S, 0 \in S, \A n \in Nat : n \in S => n + 1 \in S
  PROVE  Nat \subseteq S
<1> DEFINE less == OpToRel(<, Nat)
<1> SUFFICES ASSUME Nat \ S # {} PROVE FALSE
  OBVIOUS
<1>1. PICK x \in Nat \ S : \A y \in Nat \ S : <<y, x>> \notin less
  <2>1. IsWellFoundedOn(less, Nat)
    BY NatLessThanWellFounded
  <2>2. Nat \ S \subseteq Nat
    OBVIOUS
  <2> HIDE DEF less
  <2> QED BY <2>1, <2>2, WFMin
<1>2. x - 1 \in Nat \ S /\ x - 1 < x
  <2>1. x # 0
    OBVIOUS
  <2> QED BY <2>1
<1>3. <<x - 1, x>> \in less
  BY <1>2 DEF OpToRel
<1> QED BY <1>1, <1>2, <1>3

-----------------------------------------------------------------------------
(* Paths.                                                                   *)

(* The first elements of a sequence.                                        *)
LEMMA SubSeqIs ==
  ASSUME NEW S, NEW q \in Seq(S), NEW k \in 0..Len(q)
  PROVE  /\ SubSeq(q, 1, k) \in Seq(S) /\ Len(SubSeq(q, 1, k)) = k
         /\ \A i \in 1..k : SubSeq(q, 1, k)[i] = q[i]
OBVIOUS

(* Two sequences with the same elements are one.                            *)
LEMMA SeqsEqual ==
  ASSUME NEW S, NEW p \in Seq(S), NEW q \in Seq(S), Len(p) = Len(q), \A i \in 1..Len(p) : p[i] = q[i]
  PROVE  p = q
OBVIOUS

(* A sequence without its last element.                                     *)
LEMMA FrontIs ==
  ASSUME NEW S, NEW q \in Seq(S), Len(q) > 0
  PROVE  /\ Front(q) \in Seq(S) /\ Len(Front(q)) = Len(q) - 1
         /\ \A i \in 1..(Len(q) - 1) : Front(q)[i] = q[i]
         /\ Last(q) = q[Len(q)] /\ Last(q) \in S
         /\ q = Append(Front(q), Last(q))
<1>1. Len(q) - 1 \in 0..Len(q)
  OBVIOUS
<1>2. /\ Front(q) \in Seq(S) /\ Len(Front(q)) = Len(q) - 1
      /\ \A i \in 1..(Len(q) - 1) : Front(q)[i] = q[i]
  BY <1>1, SubSeqIs DEF Front
<1>3. Last(q) = q[Len(q)] /\ Last(q) \in S
  BY DEF Last
<1>4. q = Append(Front(q), Last(q))
  <2>1. Append(Front(q), Last(q)) \in Seq(S) /\ Len(Append(Front(q), Last(q))) = Len(q)
    BY <1>2, <1>3
  <2>2. \A i \in 1..Len(q) : q[i] = Append(Front(q), Last(q))[i]
    BY <1>2, <1>3
  <2> QED BY <2>1, <2>2, SeqsEqual
<1> QED BY <1>2, <1>3, <1>4

(* A sequence and one more element.                                         *)
LEMMA AppendIs ==
  ASSUME NEW S, NEW q \in Seq(S), NEW e \in S
  PROVE  /\ Append(q, e) \in Seq(S) /\ Len(Append(q, e)) = Len(q) + 1
         /\ \A i \in 1..Len(q) : Append(q, e)[i] = q[i]
         /\ Append(q, e)[Len(q) + 1] = e
         /\ Front(Append(q, e)) = q /\ Last(Append(q, e)) = e
<1>1. /\ Append(q, e) \in Seq(S) /\ Len(Append(q, e)) = Len(q) + 1
      /\ \A i \in 1..Len(q) : Append(q, e)[i] = q[i]
      /\ Append(q, e)[Len(q) + 1] = e
  OBVIOUS
<1>2. Last(Append(q, e)) = e
  BY <1>1 DEF Last
<1>3. Front(Append(q, e)) = q
  <2> DEFINE r == Append(q, e)
  <2>1. r \in Seq(S) /\ Len(r) = Len(q) + 1 /\ \A i \in 1..Len(q) : r[i] = q[i]
    BY <1>1
  <2> HIDE DEF r
  <2>2. Len(r) > 0 /\ Len(r) - 1 = Len(q)
    BY <2>1
  <2>3. /\ Front(r) \in Seq(S) /\ Len(Front(r)) = Len(q)
        /\ \A i \in 1..Len(q) : Front(r)[i] = q[i]
    BY <2>1, <2>2, FrontIs
  <2>4. Front(r) = q
    BY <2>3, SeqsEqual
  <2> QED BY <2>4 DEF r
<1> QED BY <1>1, <1>2, <1>3

(* What a document is: a tree whose children are counted from 1.            *)
LEMMA DocumentPaths ==
  ASSUME DocumentInv
  PROVE  /\ IsDocument(document, Chain[resource])
         /\ \A p \in document : /\ p \in Seq(1..Width) /\ p \in Seq(Nat)
                               /\ Len(p) \in 1..Len(Chain[resource])
         /\ resource \in DOMAIN Chain /\ Width \in Nat
<1>1. resource \in DOMAIN Chain /\ Width \in Nat
  BY ConstantsAssumption DEF DocumentInv
<1>2. IsDocument(document, Chain[resource]) /\ document \subseteq Paths(Len(Chain[resource]))
  BY DEF DocumentInv, Documents
<1>3. Len(Chain[resource]) \in Nat
  BY <1>1, Table
<1>4. ASSUME NEW p \in document
      PROVE  p \in Seq(1..Width) /\ p \in Seq(Nat) /\ Len(p) \in 1..Len(Chain[resource])
  <2>1. PICK k \in 1..Len(Chain[resource]) : p \in [1..k -> 1..Width]
    BY <1>2 DEF Paths
  <2>2. k \in Nat /\ 1..Width \subseteq Nat
    BY <1>1, <1>3
  <2>3. p \in Seq(1..Width)
    BY <2>1, <2>2, SeqDef
  <2>4. Len(p) = k
    BY <2>1, <2>2, <2>3
  <2>5. p \in Seq(Nat)
    BY <2>2, <2>3, SeqMonotonic
  <2> QED BY <2>3, <2>4, <2>5
<1> QED BY <1>1, <1>2, <1>4

(* The root has the empty path.                                             *)
LEMMA RootIs == Root \in Seq(Nat) /\ Len(Root) = 0
BY DEF Root

(* An element is a path, no deeper than its kind of document.               *)
LEMMA ElementPaths ==
  ASSUME DocumentInv, NEW p \in Elements
  PROVE  p \in Seq(Nat) /\ Len(p) \in 0..Len(Chain[resource])
<1>1. Len(Chain[resource]) \in Nat
  BY DocumentPaths, Table
<1>2. CASE p = Root
  BY <1>1, <1>2, RootIs
<1>3. CASE p \in document
  BY <1>1, <1>3, DocumentPaths
<1> QED BY <1>2, <1>3 DEF Elements

(* What is above an element is one.                                         *)
LEMMA AboveInDocument ==
  ASSUME DocumentInv, NEW p \in document, NEW k \in 1..Len(p)
  PROVE  SubSeq(p, 1, k) \in document
<1> DEFINE S == {j \in Nat : j < Len(p) => SubSeq(p, 1, Len(p) - j) \in document}
<1>1. p \in Seq(Nat) /\ Len(p) \in Nat
  BY DocumentPaths
<1>2. 0 \in S
  <2>1. SubSeq(p, 1, Len(p)) = p
    BY <1>1, SubSeqIs, SeqsEqual
  <2>2. Len(p) - 0 = Len(p)
    BY <1>1
  <2> QED BY <2>1, <2>2
<1>3. ASSUME NEW j \in Nat, j \in S PROVE j + 1 \in S
  <2> SUFFICES ASSUME j + 1 < Len(p) PROVE SubSeq(p, 1, Len(p) - (j + 1)) \in document
    BY <1>1
  <2> DEFINE r == SubSeq(p, 1, Len(p) - j)
  <2>1. r \in document
    BY <1>1, <1>3
  <2>2. Len(p) - j \in 0..Len(p)
    BY <1>1
  <2>3. r \in Seq(Nat) /\ Len(r) = Len(p) - j /\ \A i \in 1..(Len(p) - j) : r[i] = p[i]
    BY <1>1, <2>2, SubSeqIs
  <2> HIDE DEF r
  <2>4. Front(r) \in document
    <3>1. Len(r) > 1
      BY <1>1, <2>3
    <3>2. IsDocument(document, Chain[resource])
      BY DocumentPaths
    <3> QED BY <2>1, <3>1, <3>2 DEF IsDocument
  <2>5. Len(p) - (j + 1) \in 0..Len(p)
    BY <1>1
  <2>6. /\ SubSeq(p, 1, Len(p) - (j + 1)) \in Seq(Nat)
        /\ Len(SubSeq(p, 1, Len(p) - (j + 1))) = Len(p) - (j + 1)
        /\ \A i \in 1..(Len(p) - (j + 1)) : SubSeq(p, 1, Len(p) - (j + 1))[i] = p[i]
    BY <1>1, <2>5, SubSeqIs
  <2>7. /\ Front(r) \in Seq(Nat) /\ Len(Front(r)) = Len(r) - 1
        /\ \A i \in 1..(Len(r) - 1) : Front(r)[i] = r[i]
    <3>1. Len(r) > 0
      BY <1>1, <2>3
    <3> QED BY <2>3, <3>1, FrontIs
  <2>8. Front(r) = SubSeq(p, 1, Len(p) - (j + 1))
    <3> DEFINE n == Len(p) - (j + 1)
               a == Front(r)
               b == SubSeq(p, 1, n)
    <3>1. /\ n \in Nat /\ Len(r) - 1 = n /\ \A i \in 1..n : i \in 1..(Len(p) - j)
      BY <1>1, <2>3, <2>5
    <3>2. /\ a \in Seq(Nat) /\ b \in Seq(Nat) /\ Len(a) = n /\ Len(b) = n
          /\ \A i \in 1..n : b[i] = p[i]
      BY <2>6, <2>7, <3>1
    <3>3. \A i \in 1..n : a[i] = p[i]
      BY <2>3, <2>7, <3>1
    <3> HIDE DEF a, b, n
    <3>4. a = b
      BY <3>2, <3>3, SeqsEqual
    <3> QED BY <3>4 DEF a, b, n
  <2> QED BY <2>4, <2>8
<1>4. Nat \subseteq S
  <2> HIDE DEF S
  <2> QED BY <1>2, <1>3, NatSet
<1>5. Len(p) - k \in Nat /\ Len(p) - k < Len(p) /\ Len(p) - (Len(p) - k) = k
  BY <1>1
<1> QED BY <1>4, <1>5

(* What is before an element of a list is one.                              *)
LEMMA BesideInDocument ==
  ASSUME DocumentInv, NEW p \in document, NEW k \in 1..Last(p)
  PROVE  Append(Front(p), k) \in document
<1> DEFINE sibling(j) == Append(Front(p), j)
           S == {j \in Nat : j < Last(p) => sibling(Last(p) - j) \in document}
<1>1. p \in Seq(Nat) /\ Len(p) \in Nat /\ Len(p) > 0
  BY DocumentPaths
<1>2. /\ Front(p) \in Seq(Nat) /\ Len(Front(p)) = Len(p) - 1 /\ Last(p) \in Nat
      /\ p = Append(Front(p), Last(p))
  BY <1>1, FrontIs
<1>3. 0 \in S
  <2>1. Last(p) - 0 = Last(p)
    BY <1>2
  <2> QED BY <1>2, <2>1
<1>4. ASSUME NEW j \in Nat, j \in S PROVE j + 1 \in S
  <2> SUFFICES ASSUME j + 1 < Last(p) PROVE sibling(Last(p) - (j + 1)) \in document
    BY <1>2
  <2> DEFINE r == sibling(Last(p) - j)
             n == Len(p)
  <2>1. r \in document
    BY <1>2, <1>4
  <2>2. Last(p) - j \in Nat /\ Last(p) - j > 1 /\ Last(p) - (j + 1) \in Nat
    BY <1>2
  <2>3. /\ r \in Seq(Nat) /\ Len(r) = n /\ \A i \in 1..(n - 1) : r[i] = Front(p)[i]
        /\ r[n] = Last(p) - j /\ Last(r) = Last(p) - j
    BY <1>1, <1>2, <2>2, AppendIs
  <2>4. [r EXCEPT ![n] = @ - 1] \in document
    <3> HIDE DEF r
    <3> QED BY <2>1, <2>2, <2>3, DocumentPaths DEF IsDocument
  <2>5. /\ [r EXCEPT ![n] = @ - 1] \in Seq(Nat) /\ Len([r EXCEPT ![n] = @ - 1]) = n
        /\ \A i \in 1..(n - 1) : [r EXCEPT ![n] = @ - 1][i] = Front(p)[i]
        /\ [r EXCEPT ![n] = @ - 1][n] = Last(p) - (j + 1)
    <3> HIDE DEF r
    <3>1. [r EXCEPT ![n] = @ - 1] \in Seq(Nat) /\ Len([r EXCEPT ![n] = @ - 1]) = n
      BY <2>4, <2>3, DocumentPaths
    <3>2. n \in 1..Len(r) /\ r[n] - 1 = Last(p) - (j + 1)
      BY <1>1, <1>2, <2>2, <2>3
    <3> QED BY <1>1, <2>3, <3>1, <3>2, LenProperties
  <2>6. /\ sibling(Last(p) - (j + 1)) \in Seq(Nat) /\ Len(sibling(Last(p) - (j + 1))) = n
        /\ \A i \in 1..(n - 1) : sibling(Last(p) - (j + 1))[i] = Front(p)[i]
        /\ sibling(Last(p) - (j + 1))[n] = Last(p) - (j + 1)
    BY <1>1, <1>2, <2>2, AppendIs
  <2>7. [r EXCEPT ![n] = @ - 1] = sibling(Last(p) - (j + 1))
    <3> DEFINE a == [r EXCEPT ![n] = @ - 1]
               b == sibling(Last(p) - (j + 1))
    <3>1. /\ a \in Seq(Nat) /\ b \in Seq(Nat) /\ Len(a) = n /\ Len(b) = n
          /\ \A i \in 1..(n - 1) : a[i] = b[i]
          /\ a[n] = b[n]
      BY <2>5, <2>6
    <3> HIDE DEF a, b
    <3>2. \A i \in 1..n : a[i] = b[i]
      BY <1>1, <3>1
    <3>3. a = b
      BY <3>1, <3>2, SeqsEqual
    <3> QED BY <3>3 DEF a, b
  <2> QED BY <2>4, <2>7
<1>5. Nat \subseteq S
  <2> HIDE DEF S
  <2> QED BY <1>3, <1>4, NatSet
<1>6. Last(p) - k \in Nat /\ Last(p) - k < Last(p) /\ Last(p) - (Last(p) - k) = k
  BY <1>2
<1> QED BY <1>5, <1>6

-----------------------------------------------------------------------------
(* The parser at work.                                                      *)
TopFacts ==
  /\ Top = frames[Len(frames)] /\ Top \in Frame /\ Len(frames) \in Nat
  /\ Top.path \in Seq(Nat) /\ Len(Top.path) = Len(frames) - 1
  /\ Top.next \in 1..(Width + 1) /\ Top.next \in Nat
  /\ Child \in Seq(Nat) /\ Len(Child) = Len(frames)
  /\ \A i \in 1..(Len(frames) - 1) : Child[i] = Top.path[i]
  /\ Child[Len(frames)] = Top.next
  /\ Front(Child) = Top.path /\ Last(Child) = Top.next

(* The parser on top is at the level of the stack, and its next child is    *)
(* one level below its element.                                             *)
LEMMA TopIs == DocumentInv /\ StackInv => TopFacts
<1> SUFFICES ASSUME DocumentInv, StackInv PROVE TopFacts
  OBVIOUS
<1>1. Len(frames) \in Nat /\ Len(frames) \in 1..Len(frames) /\ Top = frames[Len(frames)]
  BY DEF StackInv, Top, Last
<1>2. Top \in Frame /\ Len(Top.path) = Len(frames) - 1
  BY <1>1, ElementOfSeq DEF StackInv, Nested
<1>3. Top.path \in Elements /\ Top.next \in 1..(Width + 1)
  BY <1>2 DEF Frame
<1>4. Top.path \in Seq(Nat) /\ Top.next \in Nat
  BY <1>3, ElementPaths, ConstantsAssumption
<1>5. /\ Child \in Seq(Nat) /\ Len(Child) = Len(Top.path) + 1
      /\ \A i \in 1..Len(Top.path) : Child[i] = Top.path[i]
      /\ Child[Len(Top.path) + 1] = Top.next
      /\ Front(Child) = Top.path /\ Last(Child) = Top.next
  BY <1>4, AppendIs DEF Child
<1>6. Len(Top.path) + 1 = Len(frames) /\ Len(Top.path) = Len(frames) - 1
  BY <1>1, <1>2
<1> QED BY <1>1, <1>2, <1>3, <1>4, <1>5, <1>6 DEF TopFacts

(* So it is after a step.                                                   *)
LEMMA TopIsNext == DocumentInv' /\ StackInv' => TopFacts'
BY TopIs, PTL

(* An element that is opened is one of the document.                        *)
LEMMA ChildIs ==
  ASSUME DocumentInv, StackInv, Child \in document
  PROVE  /\ Child \in Elements /\ Top.next \in 1..Width /\ Top.next + 1 \in 1..(Width + 1)
         /\ Len(frames) \in DOMAIN Chain[resource]
         /\ TypeOf(Child) = Chain[resource][Len(frames)]
<1>1. TopFacts
  BY TopIs
<1>2. Child \in Seq(1..Width) /\ Len(Child) \in 1..Len(Chain[resource]) /\ resource \in DOMAIN Chain
  BY DocumentPaths
<1>3. Len(frames) \in 1..Len(Child)
  BY <1>1, <1>2 DEF TopFacts, StackInv
<1>4. Top.next \in 1..Width
  BY <1>1, <1>2, <1>3, ElementOfSeq DEF TopFacts
<1>5. Top.next + 1 \in 1..(Width + 1)
  BY <1>4, ConstantsAssumption
<1>6. Len(frames) \in DOMAIN Chain[resource]
  BY <1>1, <1>2, Table DEF TopFacts
<1> QED BY <1>1, <1>4, <1>5, <1>6 DEF TopFacts, Elements, TypeOf

(* The three things that happen to the stack.                               *)
Bumped == [frames EXCEPT ![Len(frames)].next = @ + 1]

(* A parser that goes on to its next child.                                 *)
LEMMA BumpedIs ==
  ASSUME DocumentInv, StackInv, Child \in document
  PROVE  /\ Bumped \in Seq(Frame) /\ Len(Bumped) = Len(frames)
         /\ \A n \in 1..(Len(frames) - 1) : Bumped[n] = frames[n]
         /\ \A n \in 1..Len(frames) : Bumped[n].path = frames[n].path /\ Bumped[n].oldnode = frames[n].oldnode
         /\ Bumped[Len(frames)].next = Top.next + 1
<1> DEFINE n == Len(frames)
           bumped == [frames[n] EXCEPT !.next = @ + 1]
<1>1. n \in Nat /\ n \in 1..n /\ frames[n] = Top /\ frames \in Seq(Frame)
  BY TopIs DEF TopFacts, StackInv
<1>2. frames[n] \in Frame /\ frames[n].next + 1 \in 1..(Width + 1)
  BY <1>1, TopIs, ChildIs DEF TopFacts
<1>3. /\ bumped \in Frame /\ bumped.path = frames[n].path /\ bumped.oldnode = frames[n].oldnode
      /\ bumped.next = frames[n].next + 1
  BY <1>2 DEF Frame
<1>4. Bumped = [frames EXCEPT ![n] = bumped]
  BY DEF Bumped
<1> HIDE DEF bumped
<1>5. /\ Bumped \in Seq(Frame) /\ Len(Bumped) = n
      /\ \A j \in 1..n : Bumped[j] = IF j = n THEN bumped ELSE frames[j]
  BY <1>1, <1>3, <1>4, ExceptSeq
<1> QED BY <1>1, <1>3, <1>5

(* The parser on top has gone on to its next child, and f is entered for    *)
(* it.                                                                      *)
Pushed(f) ==
  /\ frames' \in Seq(Frame) /\ Len(frames') = Len(frames) + 1
  /\ \A n \in 1..(Len(frames) - 1) : frames'[n] = frames[n]
  /\ \A n \in 1..Len(frames) : frames'[n].path = frames[n].path /\ frames'[n].oldnode = frames[n].oldnode
  /\ frames'[Len(frames)].next = Top.next + 1
  /\ frames'[Len(frames) + 1] = f

(* A parser that is entered.                                                *)
LEMMA PushedIs ==
  ASSUME DocumentInv, StackInv, Child \in document, NEW f \in Frame, frames' = Append(Bumped, f)
  PROVE  Pushed(f)
<1>1. Len(frames) \in Nat
  BY TopIs DEF TopFacts
<1>2. /\ frames' \in Seq(Frame) /\ Len(frames') = Len(frames) + 1
      /\ \A n \in 1..Len(frames) : frames'[n] = Bumped[n]
      /\ frames'[Len(frames) + 1] = f
  BY BumpedIs, AppendProperties
<1> QED BY <1>1, <1>2, BumpedIs DEF Pushed, StackInv

(* The parser on top has returned.                                          *)
Popped ==
  /\ frames' \in Seq(Frame) /\ Len(frames') = Len(frames) - 1
  /\ \A n \in 1..(Len(frames) - 1) : frames'[n] = frames[n]

(* A parser that returns.                                                   *)
LEMMA PoppedIs ==
  ASSUME StackInv, frames' = Front(frames)
  PROVE  Popped
BY FrontIs DEF StackInv, Popped

-----------------------------------------------------------------------------
(* The stack.                                                               *)

(* An element is within itself.                                             *)
LEMMA WithinItself ==
  ASSUME NEW q \in Seq(Nat)
  PROVE  Within(q, q)
BY DEF Within

(* What is below a child is below its parent.                               *)
LEMMA WithinAppend ==
  ASSUME NEW q \in Seq(Nat), NEW e \in Nat, NEW p \in Seq(Nat), Within(q, p)
  PROVE  Within(Append(q, e), p)
<1>1. Len(q) \in Nat /\ Len(p) \in Nat /\ Len(p) <= Len(q)
  BY DEF Within
<1>2. /\ Len(Append(q, e)) = Len(q) + 1
      /\ \A i \in 1..Len(q) : Append(q, e)[i] = q[i]
  BY AppendIs
<1> QED BY <1>1, <1>2 DEF Within

(* A parser is entered for the child its caller has come to.                *)
LEMMA OpenKeepsStack ==
  ASSUME IInv, Open
  PROVE  StackInv'
<1> USE DEF IInv
<1> DEFINE n == Len(frames)
           f == [path |-> Child, oldnode |-> context', next |-> 1]
<1>1. Child \in document /\ UNCHANGED document /\ context' \in {Child, context}
  BY DEF Open, inputs, ContextFor
<1>2. /\ TopFacts /\ Child \in Elements /\ Top.next \in 1..Width
  BY <1>1, TopIs, ChildIs
<1>3. f \in Frame
  BY <1>1, <1>2, ConstantsAssumption DEF Frame, ContextInv
<1>4. Pushed(f)
  BY <1>1, <1>3, PushedIs DEF Open, Bumped
<1>5. Frame' = Frame
  BY <1>1 DEF Frame, Elements
<1>6. /\ n \in Nat /\ n > 0 /\ Len(frames') = n + 1 /\ frames'[n + 1].path = Child
      /\ \A m \in 1..n : frames'[m].path = frames[m].path
  BY <1>2, <1>4 DEF TopFacts, Pushed, StackInv
<1> HIDE DEF f
<1>7. \A m \in 1..Len(frames') : Len(frames'[m].path) = m - 1
  <2>1. Len(Child) = n
    BY <1>2 DEF TopFacts
  <2>2. \A m \in 1..n : Len(frames[m].path) = m - 1
    BY DEF StackInv, Nested
  <2> SUFFICES ASSUME NEW m \in 1..(n + 1) PROVE Len(frames'[m].path) = m - 1
    BY <1>6
  <2>3. CASE m = n + 1
    BY <1>6, <2>1, <2>3
  <2>4. CASE m # n + 1
    <3>1. m \in 1..n
      BY <1>6, <2>4
    <3> QED BY <1>6, <2>2, <3>1
  <2> QED BY <2>3, <2>4
<1>8. \A m \in 2..Len(frames') : frames'[m].path = Append(frames'[m - 1].path, frames'[m - 1].next - 1)
  <2> SUFFICES ASSUME NEW m \in 2..Len(frames')
               PROVE  frames'[m].path = Append(frames'[m - 1].path, frames'[m - 1].next - 1)
    OBVIOUS
  <2>1. CASE m = n + 1
    <3>1. frames'[n].path = Top.path /\ frames'[n].next - 1 = Top.next
      BY <1>2, <1>4, <1>6 DEF Pushed, TopFacts
    <3>2. m - 1 = n
      BY <1>6, <2>1
    <3> QED BY <1>6, <2>1, <3>1, <3>2 DEF Child
  <2>2. CASE m # n + 1
    <3>1. m \in 2..n /\ m - 1 \in 1..(n - 1)
      BY <1>6, <2>2
    <3>2. frames'[m - 1] = frames[m - 1] /\ frames'[m].path = frames[m].path
      BY <1>4, <1>6, <3>1 DEF Pushed
    <3> QED BY <3>1, <3>2 DEF StackInv, Nested
  <2> QED BY <2>1, <2>2
<1>9. \A m \in 1..Len(frames') : \A l \in 1..m : Within(frames'[m].path, frames'[l].path)
  <2> SUFFICES ASSUME NEW m \in 1..(n + 1), NEW l \in 1..m
               PROVE  Within(frames'[m].path, frames'[l].path)
    BY <1>6
  <2>1. CASE m = n + 1 /\ l = n + 1
    BY <1>2, <1>6, <2>1, WithinItself DEF TopFacts
  <2>2. CASE m = n + 1 /\ l # n + 1
    <3>1. l \in 1..n /\ n \in 1..n
      BY <1>6, <2>2
    <3>2. Within(Top.path, frames[l].path)
      BY <1>2, <3>1 DEF StackInv, Nested, TopFacts
    <3>3. frames[l].path \in Seq(Nat)
      <4>1. frames[l] \in Frame
        BY <3>1, ElementOfSeq DEF StackInv
      <4> QED BY <4>1, ElementPaths DEF Frame
    <3>4. Within(Child, frames[l].path)
      BY <1>2, <3>2, <3>3, WithinAppend DEF TopFacts, Child
    <3> QED BY <1>6, <2>2, <3>1, <3>4
  <2>3. CASE m # n + 1
    <3>1. m \in 1..n /\ l \in 1..n
      BY <1>6, <2>3
    <3> QED BY <1>6, <3>1 DEF StackInv, Nested
  <2> QED BY <2>1, <2>2, <2>3
<1>10. frames'[1].path = Root
  <2>1. 1 \in 1..n
    BY <1>6
  <2> QED BY <1>6, <2>1 DEF StackInv, Nested
<1>11. Nested(frames')
  BY <1>7, <1>8, <1>9, <1>10 DEF Nested
<1> QED BY <1>4, <1>5, <1>6, <1>11 DEF StackInv, Pushed

(* Going on to the next child leaves the nesting alone.                     *)
LEMMA LeaveOutKeepsStack ==
  ASSUME IInv, LeaveOut
  PROVE  StackInv'
<1> USE DEF IInv
<1>1. Child \in document /\ UNCHANGED document /\ frames' = Bumped
  BY DEF LeaveOut, inputs, Bumped
<1>2. /\ frames' \in Seq(Frame) /\ Len(frames') = Len(frames)
      /\ \A m \in 1..(Len(frames) - 1) : frames'[m] = frames[m]
      /\ \A m \in 1..Len(frames) : frames'[m].path = frames[m].path
  BY <1>1, BumpedIs
<1>3. Frame' = Frame /\ Len(frames) \in Nat
  BY <1>1, TopIs DEF Frame, Elements, TopFacts
<1>4. \A m \in 2..Len(frames') : frames'[m].path = Append(frames'[m - 1].path, frames'[m - 1].next - 1)
  <2> SUFFICES ASSUME NEW m \in 2..Len(frames)
               PROVE  frames'[m].path = Append(frames'[m - 1].path, frames'[m - 1].next - 1)
    BY <1>2
  <2>1. m - 1 \in 1..(Len(frames) - 1) /\ m \in 1..Len(frames)
    BY <1>3
  <2> QED BY <1>2, <2>1 DEF StackInv, Nested
<1>5. 1 \in 1..Len(frames)
  BY <1>3 DEF StackInv
<1>6. Nested(frames')
  <2>1. Nested(frames)
    BY DEF StackInv
  <2>2. frames'[1].path = Root
    BY <1>2, <1>5, <2>1 DEF Nested
  <2>3. \A m \in 1..Len(frames') : Len(frames'[m].path) = m - 1
    BY <1>2, <2>1 DEF Nested
  <2>4. \A m \in 1..Len(frames') : \A l \in 1..m : Within(frames'[m].path, frames'[l].path)
    <3> SUFFICES ASSUME NEW m \in 1..Len(frames), NEW l \in 1..m
                 PROVE  Within(frames'[m].path, frames'[l].path)
      BY <1>2
    <3>1. l \in 1..Len(frames)
      BY <1>3
    <3> QED BY <1>2, <2>1, <3>1 DEF Nested
  <2> QED BY <1>4, <2>2, <2>3, <2>4 DEF Nested
<1> QED BY <1>2, <1>3, <1>6 DEF StackInv

(* So does returning.                                                       *)
LEMMA PopKeepsStack ==
  ASSUME StackInv, Len(frames) > 1, frames' = Front(frames), UNCHANGED document
  PROVE  StackInv'
<1>1. Popped /\ Len(frames) \in Nat
  BY PoppedIs DEF StackInv
<1>2. Frame' = Frame
  BY DEF Frame, Elements
<1>3. Len(frames') = Len(frames) - 1 /\ \A m \in 1..Len(frames') : m \in 1..Len(frames) /\ frames'[m] = frames[m]
  BY <1>1 DEF Popped
<1>4. \A m \in 2..Len(frames') : m \in 2..Len(frames) /\ m \in 1..Len(frames') /\ m - 1 \in 1..Len(frames')
  BY <1>1, <1>3
<1>5. 1 \in 1..Len(frames')
  BY <1>1, <1>3
<1>6. Nested(frames')
  <2>1. Nested(frames)
    BY DEF StackInv
  <2>2. frames'[1].path = Root
    BY <1>3, <1>5, <2>1 DEF Nested
  <2>3. \A m \in 1..Len(frames') : Len(frames'[m].path) = m - 1
    BY <1>3, <2>1 DEF Nested
  <2>4. \A m \in 2..Len(frames') : frames'[m].path = Append(frames'[m - 1].path, frames'[m - 1].next - 1)
    BY <1>3, <1>4, <2>1 DEF Nested
  <2>5. \A m \in 1..Len(frames') : \A l \in 1..m : Within(frames'[m].path, frames'[l].path)
    <3> SUFFICES ASSUME NEW m \in 1..Len(frames'), NEW l \in 1..m
                 PROVE  Within(frames'[m].path, frames'[l].path)
      OBVIOUS
    <3>1. l \in 1..Len(frames')
      BY <1>1, <1>3
    <3> QED BY <1>3, <2>1, <3>1 DEF Nested
  <2> QED BY <2>2, <2>3, <2>4, <2>5 DEF Nested
<1> QED BY <1>1, <1>2, <1>3, <1>6 DEF StackInv, Popped

-----------------------------------------------------------------------------
(* The order in which a document is parsed.                                 *)

(* What is passed before a child: what is passed before its parent, and     *)
(* what is below its elder siblings.                                        *)
LEMMA BeforeAppend ==
  ASSUME NEW q \in Seq(Nat), NEW x \in Seq(Nat), NEW j \in Nat
  PROVE  Before(q, Append(x, j)) <=>
           \/ Before(q, x)
           \/ Within(q, x) /\ Len(q) > Len(x) /\ q[Len(x) + 1] < j
<1> DEFINE y == Append(x, j)
           n == Len(x)
<1>1. /\ n \in Nat /\ Len(q) \in Nat /\ Len(y) = n + 1 /\ y[n + 1] = j
      /\ \A i \in 1..n : y[i] = x[i]
  BY AppendIs
<1> HIDE DEF y, n
<1>2. ASSUME Before(q, y) PROVE Before(q, x) \/ (Within(q, x) /\ Len(q) > n /\ q[n + 1] < j)
  <2>1. PICK m \in 1..Len(y) : m <= Len(q) /\ (\A i \in 1..(m - 1) : q[i] = y[i]) /\ q[m] < y[m]
    BY <1>2 DEF Before
  <2>2. CASE m = n + 1
    <3>1. m - 1 = n /\ Len(q) > n
      BY <1>1, <2>1, <2>2
    <3>2. Within(q, x)
      BY <1>1, <2>1, <3>1 DEF Within, n
    <3> QED BY <1>1, <2>1, <2>2, <3>1, <3>2
  <2>3. CASE m # n + 1
    <3>1. m \in 1..n /\ \A i \in 1..(m - 1) : i \in 1..n
      BY <1>1, <2>3
    <3>2. (\A i \in 1..(m - 1) : q[i] = x[i]) /\ q[m] < x[m]
      BY <1>1, <2>1, <3>1
    <3> QED BY <2>1, <3>1, <3>2 DEF Before, n
  <2> QED BY <2>2, <2>3
<1>3. ASSUME Before(q, x) PROVE Before(q, y)
  <2>1. PICK m \in 1..n : m <= Len(q) /\ (\A i \in 1..(m - 1) : q[i] = x[i]) /\ q[m] < x[m]
    BY <1>3 DEF Before, n
  <2>2. m \in 1..Len(y) /\ \A i \in 1..(m - 1) : i \in 1..n
    BY <1>1, <2>1
  <2>3. (\A i \in 1..(m - 1) : q[i] = y[i]) /\ q[m] < y[m]
    BY <1>1, <2>1, <2>2
  <2> QED BY <2>1, <2>2, <2>3 DEF Before
<1>4. ASSUME Within(q, x), Len(q) > n, q[n + 1] < j PROVE Before(q, y)
  <2>1. n + 1 \in 1..Len(y) /\ n + 1 <= Len(q) /\ (n + 1) - 1 = n
    BY <1>1, <1>4
  <2>2. \A i \in 1..n : q[i] = y[i]
    BY <1>1, <1>4 DEF Within, n
  <2> QED BY <1>1, <1>4, <2>1, <2>2 DEF Before
<1> QED BY <1>2, <1>3, <1>4 DEF y, n

(* Entering a structure passes nothing.                                     *)
LEMMA BeforeFirst ==
  ASSUME NEW q \in Seq(1..Width), q \in Seq(Nat), NEW x \in Seq(Nat)
  PROVE  Before(q, Append(x, 1)) <=> Before(q, x)
<1>1. Len(x) \in Nat /\ Len(q) \in Nat
  OBVIOUS
<1>2. ASSUME Len(q) > Len(x) PROVE ~(q[Len(x) + 1] < 1)
  <2>1. Len(x) + 1 \in 1..Len(q)
    BY <1>1, <1>2
  <2>2. q[Len(x) + 1] \in 1..Width
    BY <2>1, ElementOfSeq
  <2> QED BY <2>2, ConstantsAssumption
<1> QED BY <1>2, BeforeAppend

(* Going on to the next sibling passes the last one and what is below it.   *)
LEMMA BeforeNext ==
  ASSUME NEW q \in Seq(Nat), NEW x \in Seq(Nat), NEW j \in Nat
  PROVE  Before(q, Append(x, j + 1)) <=> Before(q, Append(x, j)) \/ Within(q, Append(x, j))
<1> DEFINE n == Len(x)
<1>1. n \in Nat /\ Len(q) \in Nat
  OBVIOUS
<1>2. Within(q, Append(x, j)) <=> Within(q, x) /\ Len(q) > n /\ q[n + 1] = j
  <2>1. /\ Len(Append(x, j)) = n + 1 /\ Append(x, j)[n + 1] = j
        /\ \A i \in 1..n : Append(x, j)[i] = x[i]
    BY AppendIs
  <2> DEFINE y == Append(x, j)
  <2> HIDE DEF y
  <2>2. Len(y) = n + 1 /\ y[n + 1] = j /\ \A i \in 1..n : y[i] = x[i]
    BY <2>1 DEF y
  <2>3. Within(q, y) <=> Within(q, x) /\ Len(q) > n /\ q[n + 1] = j
    BY <1>1, <2>2 DEF Within
  <2> QED BY <2>3 DEF y
<1>3. ASSUME Len(q) > n PROVE q[n + 1] < j + 1 <=> q[n + 1] < j \/ q[n + 1] = j
  <2>1. q[n + 1] \in Nat
    BY <1>1, <1>3, ElementOfSeq
  <2> QED BY <2>1
<1> QED BY <1>2, <1>3, BeforeAppend

(* What is above an element or below it is not passed before it.            *)
LEMMA NotBefore ==
  ASSUME NEW q \in Seq(Nat), NEW x \in Seq(Nat), Within(x, q) \/ Within(q, x)
  PROVE  ~Before(q, x)
<1> SUFFICES ASSUME Before(q, x) PROVE FALSE
  OBVIOUS
<1>1. PICK n \in 1..Len(x) : n <= Len(q) /\ q[n] < x[n]
  BY DEF Before
<1>2. n \in 1..Len(q) /\ q[n] = x[n] /\ x[n] \in Nat
  BY <1>1, ElementOfSeq DEF Within
<1> QED BY <1>1, <1>2

(* What is above something that was passed was passed, or is still open.    *)
LEMMA BeforeAbove ==
  ASSUME NEW q \in Seq(Nat), NEW x \in Seq(Nat), Before(q, x), NEW k \in 1..Len(q)
  PROVE  Before(SubSeq(q, 1, k), x) \/ (k < Len(x) /\ \A i \in 1..k : q[i] = x[i])
<1> DEFINE p == SubSeq(q, 1, k)
<1>1. Len(p) = k /\ \A i \in 1..k : p[i] = q[i]
  BY SubSeqIs
<1> HIDE DEF p
<1>2. PICK n \in 1..Len(x) : n <= Len(q) /\ (\A i \in 1..(n - 1) : q[i] = x[i]) /\ q[n] < x[n]
  BY DEF Before
<1>3. Len(q) \in Nat /\ Len(x) \in Nat
  OBVIOUS
<1>4. CASE n <= k
  <2>1. n \in 1..k /\ \A i \in 1..(n - 1) : i \in 1..k
    BY <1>2, <1>3, <1>4
  <2>2. n <= Len(p) /\ (\A i \in 1..(n - 1) : p[i] = x[i]) /\ p[n] < x[n]
    BY <1>1, <1>2, <1>4, <2>1
  <2>3. Before(p, x)
    BY <1>2, <2>2 DEF Before
  <2> QED BY <2>3 DEF p
<1>5. CASE ~(n <= k)
  BY <1>2, <1>3, <1>5
<1> QED BY <1>4, <1>5

(* When the next child is not there, everything below was passed.           *)
LEMMA PassedBelow ==
  ASSUME DocumentInv, NEW t \in Seq(Nat), NEW j \in Nat, j >= 1, Append(t, j) \notin document,
         NEW q \in document, Within(q, t), Len(q) > Len(t)
  PROVE  Before(q, Append(t, j))
<1> DEFINE n == Len(t)
           p == SubSeq(q, 1, n + 1)
<1>1. q \in Seq(Nat) /\ n \in Nat /\ n + 1 \in 1..Len(q)
  BY DocumentPaths
<1>2. p \in document
  BY <1>1, AboveInDocument
<1>3. /\ p \in Seq(Nat) /\ Len(p) = n + 1
      /\ \A i \in 1..(n + 1) : p[i] = q[i]
  BY <1>1, SubSeqIs
<1> HIDE DEF p
<1>4. /\ Front(p) \in Seq(Nat) /\ Len(Front(p)) = n /\ \A i \in 1..n : Front(p)[i] = p[i]
      /\ Last(p) = p[n + 1]
  <2>1. Len(p) > 0 /\ Len(p) - 1 = n
    BY <1>1, <1>3
  <2> QED BY <1>3, <2>1, FrontIs
<1>5. Front(p) = t
  <2>1. ASSUME NEW i \in 1..n PROVE Front(p)[i] = t[i]
    <3>1. i \in 1..(n + 1)
      BY <1>1
    <3>2. Front(p)[i] = p[i] /\ p[i] = q[i]
      BY <1>3, <1>4, <3>1
    <3>3. q[i] = t[i]
      BY DEF Within
    <3> QED BY <3>2, <3>3
  <2>2. Len(Front(p)) = n /\ Front(p) \in Seq(Nat)
    BY <1>4
  <2>3. \A i \in 1..Len(Front(p)) : Front(p)[i] = t[i]
    BY <2>1, <2>2
  <2> QED BY <2>2, <2>3, SeqsEqual
<1>6. q[n + 1] < j
  <2>1. q[n + 1] \in Nat /\ Last(p) = q[n + 1]
    BY <1>1, <1>3, <1>4, ElementOfSeq
  <2>2. j \notin 1..Last(p)
    BY <1>2, <1>5, BesideInDocument
  <2> QED BY <2>1, <2>2
<1> QED BY <1>1, <1>6, BeforeAppend

-----------------------------------------------------------------------------
(* What the parser has passed, and how a step changes it.                   *)
Passed == {q \in document : Before(q, Child)}

(* The lists below an element are those of elements strictly below it.      *)
LEMMA PrefixIs ==
  ASSUME NEW p \in Seq(Nat), NEW q \in Seq(Nat)
  PROVE  IsStrictPrefix(p, q) <=> Within(q, p) /\ Len(p) < Len(q)
<1>1. Len(p) \in Nat /\ Len(q) \in Nat
  OBVIOUS
<1>2. SubSeq(p, 1, Len(p)) = p
  <2>1. Len(p) \in 0..Len(p)
    BY <1>1
  <2>2. /\ SubSeq(p, 1, Len(p)) \in Seq(Nat) /\ Len(SubSeq(p, 1, Len(p))) = Len(p)
        /\ \A i \in 1..Len(p) : SubSeq(p, 1, Len(p))[i] = p[i]
    BY <2>1, SubSeqIs
  <2> QED BY <2>2, SeqsEqual
<1>3. ASSUME Len(p) <= Len(q) PROVE SubSeq(q, 1, Len(p)) = p <=> Within(q, p)
  <2> DEFINE r == SubSeq(q, 1, Len(p))
  <2>1. Len(p) \in 0..Len(q)
    BY <1>1, <1>3
  <2>2. r \in Seq(Nat) /\ Len(r) = Len(p) /\ \A i \in 1..Len(p) : r[i] = q[i]
    BY <2>1, SubSeqIs
  <2> HIDE DEF r
  <2>3. Within(q, p) => r = p
    <3> SUFFICES ASSUME Within(q, p) PROVE r = p
      OBVIOUS
    <3>1. \A i \in 1..Len(r) : r[i] = p[i]
      BY <2>2 DEF Within
    <3> QED BY <2>2, <3>1, SeqsEqual
  <2>4. r = p => Within(q, p)
    BY <1>3, <2>2 DEF Within
  <2> QED BY <2>3, <2>4 DEF r
<1>4. ASSUME Len(p) = Len(q), Within(q, p) PROVE p = q
  <2>1. \A i \in 1..Len(p) : p[i] = q[i]
    BY <1>4 DEF Within
  <2> QED BY <1>4, <2>1, SeqsEqual
<1> QED BY <1>1, <1>2, <1>3, <1>4 DEF IsStrictPrefix, IsPrefix, Within

(* A structure with something below it has a first child.                   *)
LEMMA NotChildless ==
  ASSUME DocumentInv, NEW q \in document, NEW t \in Seq(Nat), Within(q, t), Len(t) < Len(q)
  PROVE  ~Childless(t)
<1> SUFFICES ASSUME Append(t, 1) \notin document PROVE FALSE
  BY DEF Childless
<1>1. q \in Seq(Nat) /\ q \in Seq(1..Width)
  BY DocumentPaths
<1>2. Before(q, Append(t, 1))
  <2>1. 1 \in Nat /\ 1 >= 1 /\ Len(q) > Len(t)
    BY <1>1
  <2> QED BY <2>1, PassedBelow
<1>3. Before(q, t)
  BY <1>1, <1>2, BeforeFirst
<1> QED BY <1>1, <1>3, NotBefore

(* Entering the parser of a child passes nothing.                           *)
LEMMA PassedByOpen ==
  ASSUME DocumentInv, StackInv, StackInv', Pushed([path |-> Child, oldnode |-> context', next |-> 1]),
         UNCHANGED inputs
  PROVE  Passed' = Passed
<1>1. document' = document /\ DocumentInv'
  BY DEF inputs, DocumentInv
<1>2. TopFacts /\ TopFacts'
  BY <1>1, TopIs, TopIsNext
<1>3. Child' = Append(Child, 1)
  <2>1. Top' = [path |-> Child, oldnode |-> context', next |-> 1]
    BY <1>2 DEF TopFacts, Pushed
  <2> QED BY <2>1 DEF Child
<1>4. ASSUME NEW q \in document PROVE Before(q, Append(Child, 1)) <=> Before(q, Child)
  <2>1. q \in Seq(Nat) /\ q \in Seq(1..Width) /\ Child \in Seq(Nat)
    BY <1>2, DocumentPaths DEF TopFacts
  <2> QED BY <2>1, BeforeFirst
<1>5. Passed' = {q \in document : Before(q, Append(Child, 1))}
  BY <1>1, <1>3 DEF Passed
<1> QED BY <1>4, <1>5 DEF Passed

(* Leaving a child out passes that child, which has nothing below it.       *)
LEMMA PassedByLeaveOut ==
  ASSUME DocumentInv, StackInv, StackInv', frames' = Bumped, UNCHANGED inputs,
         Child \in document, Childless(Child)
  PROVE  Passed' = Passed \cup {Child}
<1>1. document' = document /\ DocumentInv'
  BY DEF inputs, DocumentInv
<1>2. TopFacts /\ TopFacts'
  BY <1>1, TopIs, TopIsNext
<1>3. Child' = Append(Top.path, Top.next + 1)
  <2>1. Top'.path = Top.path /\ Top'.next = Top.next + 1
    <3>1. Len(frames) \in 1..Len(frames)
      BY <1>2 DEF TopFacts, StackInv
    <3> QED BY <1>2, <3>1, BumpedIs DEF TopFacts
  <2> QED BY <2>1 DEF Child
<1>4. ASSUME NEW q \in document
      PROVE  Before(q, Append(Top.path, Top.next + 1)) <=> Before(q, Child) \/ q = Child
  <2>1. q \in Seq(Nat) /\ Top.path \in Seq(Nat) /\ Top.next \in Nat /\ Child \in Seq(Nat)
    BY <1>2, DocumentPaths DEF TopFacts
  <2>2. Before(q, Append(Top.path, Top.next + 1)) <=> Before(q, Child) \/ Within(q, Child)
    BY <2>1, BeforeNext DEF Child
  <2>3. Within(q, Child) => q = Child
    <3> SUFFICES ASSUME Within(q, Child) PROVE q = Child
      OBVIOUS
    <3>1. Len(q) = Len(Child)
      BY <2>1, NotChildless DEF Within
    <3>2. \A i \in 1..Len(q) : q[i] = Child[i]
      BY <3>1 DEF Within
    <3> QED BY <2>1, <3>1, <3>2, SeqsEqual
  <2>4. q = Child => Within(q, Child)
    BY <2>1, WithinItself
  <2> QED BY <2>2, <2>3, <2>4
<1>5. Passed' = {q \in document : Before(q, Append(Top.path, Top.next + 1))}
  BY <1>1, <1>3 DEF Passed
<1> QED BY <1>4, <1>5 DEF Passed

(* A parser that returns has passed its own element and what is below.      *)
LEMMA PassedByReturn ==
  ASSUME DocumentInv, StackInv, StackInv', frames' = Front(frames), Len(frames) > 1,
         UNCHANGED inputs
  PROVE  /\ \A q \in document : Before(q, Child)' <=> Before(q, Child) \/ Within(q, Top.path)
         /\ Top.path \in document
<1> DEFINE n == Len(frames)
           t == Top.path
           x == frames[n - 1].path
           j == frames[n - 1].next - 1
<1>1. document' = document /\ DocumentInv'
  BY DEF inputs, DocumentInv
<1>2. TopFacts /\ TopFacts' /\ Popped
  BY <1>1, TopIs, TopIsNext, PoppedIs
<1>3. n \in Nat /\ n - 1 \in 1..(n - 1) /\ n \in 2..n /\ Len(frames') = n - 1
  BY <1>2 DEF TopFacts, Popped
<1>4. Top' = frames[n - 1] /\ Top'.path = x /\ Top'.next = j + 1
  <2>1. Top' = frames[n - 1]
    BY <1>2, <1>3 DEF TopFacts, Popped
  <2>2. Top'.next \in Nat
    BY <1>2 DEF TopFacts
  <2> QED BY <2>1, <2>2
<1>5. x \in Seq(Nat) /\ t \in Seq(Nat) /\ Len(t) = n - 1 /\ t = Append(x, j)
  <2>1. t = Append(x, j)
    BY <1>2, <1>3 DEF TopFacts, StackInv, Nested
  <2>2. Top'.path \in Seq(Nat)
    BY <1>2 DEF TopFacts
  <2> QED BY <1>2, <1>4, <2>1, <2>2 DEF TopFacts
<1>6. t \in document
  <2>1. t \in Elements
    BY <1>2 DEF TopFacts, Frame
  <2>2. t # Root
    BY <1>3, <1>5, RootIs
  <2> QED BY <2>1, <2>2 DEF Elements
<1>7. j \in Nat
  <2>1. Top'.next \in 1..(Width + 1) /\ Width \in Nat
    <3>1. (Top'.next \in 1..(Width + 1)) = (Top.next \in 1..(Width + 1))'
      OBVIOUS
    <3> QED BY <1>2, <3>1, ConstantsAssumption DEF TopFacts
  <2> QED BY <1>4, <2>1
<1>8. Child' = Append(x, j + 1)
  BY <1>4 DEF Child
<1>9. ASSUME NEW q \in document
      PROVE  Before(q, Append(x, j + 1)) <=> Before(q, Child) \/ Within(q, t)
  <2>1. q \in Seq(Nat) /\ Top.next \in Nat /\ Child = Append(t, Top.next) /\ Top.next >= 1
    BY <1>2, DocumentPaths, ConstantsAssumption DEF TopFacts, Child
  <2> HIDE DEF t, x, j, n
  <2>2. Before(q, Append(x, j + 1)) <=> Before(q, t) \/ Within(q, t)
    BY <1>5, <1>7, <2>1, BeforeNext
  <2>3. Before(q, Child) => Before(q, t) \/ Within(q, t)
    BY <1>5, <2>1, BeforeAppend
  <2>4. Before(q, t) => Before(q, Child)
    BY <1>5, <2>1, BeforeAppend
  <2> QED BY <2>2, <2>3, <2>4
<1>10. \A q : Before(q, Child)' <=> Before(q, Child')
  BY DEF Before
<1> HIDE DEF x, j, n
<1> QED BY <1>6, <1>8, <1>9, <1>10

(* When its children are done, what is below was passed already.            *)
LEMMA PassedByClose ==
  ASSUME DocumentInv, StackInv, StackInv', frames' = Front(frames), Len(frames) > 1,
         UNCHANGED inputs, Child \notin document
  PROVE  Passed' = Passed \cup {Top.path} /\ Top.path \in document
<1> DEFINE t == Top.path
<1>1. document' = document /\ TopFacts
  BY TopIs DEF inputs
<1>2. /\ \A q \in document : Before(q, Child)' <=> Before(q, Child) \/ Within(q, t)
      /\ t \in document
  BY PassedByReturn
<1>3. ASSUME NEW q \in document, Within(q, t), q # t PROVE Before(q, Child)
  <2>1. /\ q \in Seq(Nat) /\ t \in Seq(Nat) /\ Child = Append(t, Top.next)
        /\ Top.next \in Nat /\ Top.next >= 1
    BY <1>1, DocumentPaths, ConstantsAssumption DEF TopFacts, Child
  <2> HIDE DEF t
  <2>2. CASE Len(q) > Len(t)
    BY <1>3, <2>1, <2>2, PassedBelow
  <2>3. CASE ~(Len(q) > Len(t))
    <3>1. Len(q) = Len(t)
      BY <1>3, <2>1, <2>3 DEF Within
    <3>2. \A i \in 1..Len(q) : q[i] = t[i]
      BY <1>3, <3>1 DEF Within
    <3> QED BY <1>3, <2>1, <3>1, <3>2, SeqsEqual
  <2> QED BY <2>2, <2>3
<1>4. Within(t, t)
  BY <1>1, WithinItself DEF TopFacts
<1>5. Passed' = {q \in document : Before(q, Child)'}
  BY <1>1 DEF Passed
<1> HIDE DEF t
<1>6. Passed' = Passed \cup {t}
  BY <1>2, <1>3, <1>4, <1>5 DEF Passed
<1> QED BY <1>2, <1>6 DEF t

(* When the list has no further item, the whole document was passed.        *)
LEMMA PassedAtFinish ==
  ASSUME DocumentInv, StackInv, Len(frames) = 1, Child \notin document
  PROVE  Passed = document
<1>1. TopFacts
  BY TopIs
<1>2. Child = Append(Root, Top.next) /\ Top.next \in Nat /\ Top.next >= 1
  <2>1. Top.path = Root
    BY <1>1 DEF TopFacts, StackInv, Nested
  <2> QED BY <1>1, <2>1, ConstantsAssumption DEF TopFacts, Child
<1>3. ASSUME NEW q \in document PROVE Before(q, Child)
  <2>1. q \in Seq(Nat) /\ Len(q) \in 1..Len(Chain[resource])
    BY DocumentPaths
  <2>2. Within(q, Root) /\ Len(q) > Len(Root)
    BY <2>1, RootIs DEF Within
  <2> QED BY <1>2, <2>2, PassedBelow, RootIs
<1> QED BY <1>3 DEF Passed

-----------------------------------------------------------------------------
(* The structures being filled: each is at a level of its own.              *)
LEMMA OpenedIs ==
  ASSUME DocumentInv, StackInv
  PROVE  /\ Opened \subseteq document
         /\ \A p \in Opened : p \in Seq(Nat) /\ Len(p) \in 1..(Len(frames) - 1)
         /\ Len(frames) = 1 => Opened = {}
<1>1. ASSUME NEW n \in 2..Len(frames)
      PROVE  frames[n].path \in document /\ frames[n].path \in Seq(Nat) /\ Len(frames[n].path) = n - 1
  <2>1. n \in 1..Len(frames) /\ Len(frames) \in Nat
    BY DEF StackInv
  <2>2. frames[n] \in Frame /\ Len(frames[n].path) = n - 1
    BY <2>1, ElementOfSeq DEF StackInv, Nested
  <2>3. frames[n].path \in Elements /\ n - 1 # 0
    BY <2>2 DEF Frame
  <2> QED BY <2>2, <2>3, RootIs, ElementPaths DEF Elements
<1>2. Len(frames) \in Nat
  BY DEF StackInv
<1>3. ASSUME NEW p \in Opened
      PROVE  p \in document /\ p \in Seq(Nat) /\ Len(p) \in 1..(Len(frames) - 1)
  <2>1. PICK n \in 2..Len(frames) : p = frames[n].path
    BY DEF Opened
  <2> QED BY <1>1, <1>2, <2>1
<1>4. Len(frames) = 1 => Opened = {}
  BY DEF Opened
<1> QED BY <1>3, <1>4

(* Entering a parser opens one structure more.                              *)
LEMMA OpenedByOpen ==
  ASSUME DocumentInv, StackInv, NEW f, Pushed(f)
  PROVE  Opened' = Opened \cup {f.path}
<1>1. Len(frames) \in Nat /\ Len(frames) > 0 /\ Len(frames') = Len(frames) + 1
  BY DEF StackInv, Pushed
<1>2. \A n \in 1..Len(frames) : frames'[n].path = frames[n].path
  BY DEF Pushed
<1>3. frames'[Len(frames) + 1].path = f.path
  BY DEF Pushed
<1>4. Len(frames) + 1 \in 2..(Len(frames) + 1)
  BY <1>1
<1>5. \A n \in 2..(Len(frames) + 1) : n \in 2..Len(frames) \/ n = Len(frames) + 1
  BY <1>1
<1>6. \A n \in 2..Len(frames) : n \in 1..Len(frames) /\ n \in 2..(Len(frames) + 1)
  BY <1>1
<1>7. Opened' = {frames'[n].path : n \in 2..(Len(frames) + 1)}
  BY <1>1 DEF Opened
<1> QED BY <1>2, <1>3, <1>4, <1>5, <1>6, <1>7 DEF Opened

(* Returning from one closes the deepest, and no other.                     *)
LEMMA OpenedByPop ==
  ASSUME DocumentInv, StackInv, Len(frames) > 1, frames' = Front(frames)
  PROVE  /\ Opened = Opened' \cup {Top.path}
         /\ Top.path \notin Opened'
         /\ Top.path \in document /\ Len(Top.path) = Len(frames) - 1
         /\ Opened \subseteq document
         /\ \A p \in Opened : p \in Seq(Nat) /\ Len(p) <= Len(Top.path)
<1> DEFINE n == Len(frames)
<1>1. TopFacts /\ Popped
  BY TopIs, PoppedIs
<1>2. n \in Nat /\ Len(frames') = n - 1 /\ n \in 2..n
  BY <1>1 DEF TopFacts, Popped
<1>3. /\ \A m \in 2..n : m = n \/ m \in 2..(n - 1)
      /\ \A m \in 2..(n - 1) : m \in 2..n /\ m \in 1..(n - 1) /\ m # n
  BY <1>2
<1>4. Opened' = {frames[m].path : m \in 2..(n - 1)}
  <2>1. Opened' = {frames'[m].path : m \in 2..(n - 1)}
    BY <1>2 DEF Opened
  <2>2. \A m \in 2..(n - 1) : frames'[m] = frames[m]
    BY <1>1, <1>3 DEF Popped
  <2> QED BY <2>1, <2>2
<1>5. Top.path = frames[n].path /\ Len(Top.path) = n - 1
  BY <1>1 DEF TopFacts
<1>6. Opened = Opened' \cup {Top.path}
  <2> HIDE DEF n
  <2> QED BY <1>2, <1>3, <1>4, <1>5 DEF Opened, n
<1>7. Top.path \notin Opened'
  <2>1. \A m \in 2..(n - 1) : Len(frames[m].path) = m - 1 /\ m - 1 # n - 1
    BY <1>2, <1>3 DEF StackInv, Nested
  <2> QED BY <1>4, <1>5, <2>1
<1>8. /\ Opened \subseteq document
      /\ \A p \in Opened : p \in Seq(Nat) /\ Len(p) <= Len(Top.path)
  <2>1. \A p \in Opened : Len(p) \in 1..(n - 1) => Len(p) <= n - 1
    BY <1>2
  <2> QED BY <1>5, <2>1, OpenedIs
<1> QED BY <1>5, <1>6, <1>7, <1>8

(* Leaving a child out opens and closes none.                               *)
LEMMA OpenedByLeaveOut ==
  ASSUME DocumentInv, StackInv, Child \in document, frames' = Bumped
  PROVE  Opened' = Opened
<1>1. Len(frames') = Len(frames) /\ \A n \in 1..Len(frames) : frames'[n].path = frames[n].path
  BY BumpedIs
<1>2. Len(frames) \in Nat
  BY DEF StackInv
<1> QED BY <1>1, <1>2 DEF Opened

-----------------------------------------------------------------------------
(* No step changes what is parsed, nor what depends on that alone.          *)
LEMMA InputsStay ==
  ASSUME DocumentInv, [Next]_vars
  PROVE  /\ UNCHANGED inputs /\ document' = document /\ resource' = resource /\ single' = single
         /\ DocumentInv' /\ Optional' = Optional
         /\ \A p : TypeOf(p)' = TypeOf(p)
<1>1. UNCHANGED inputs
  BY Zenon DEF Next, Open, OutOfMemory, LeaveOut, Crash, Hang, Close, CloseWithoutList, AddToList, Finish, Unwind, UnwindList, FreeResult,
      Ended, vars, inputs
<1>2. document' = document /\ resource' = resource /\ single' = single
  BY <1>1 DEF inputs
<1>3. DocumentInv'
  BY <1>2 DEF DocumentInv
<1>4. Optional' = Optional /\ \A p : TypeOf(p)' = TypeOf(p)
  BY <1>2 DEF Optional, TypeOf, Childless
<1> QED BY <1>1, <1>2, <1>3, <1>4

(* A step that leaves the stack alone leaves all that is read from it       *)
(* alone.                                                                   *)
LEMMA StackStays ==
  ASSUME StackInv, UNCHANGED <<frames, document>>
  PROVE  StackInv' /\ Opened' = Opened /\ Top' = Top /\ Child' = Child
BY DEF StackInv, Nested, Frame, Elements, Opened, Top, Child

(* The stack is kept by every step.                                         *)
LEMMA StackKept ==
  ASSUME IInv, [Next]_vars
  PROVE  StackInv'
<1>1. DocumentInv /\ StackInv
  BY DEF IInv
<1>2. document' = document
  BY <1>1, InputsStay
<1>3. CASE Open
  BY <1>3, OpenKeepsStack
<1>4. CASE LeaveOut
  BY <1>4, LeaveOutKeepsStack
<1>5. CASE Close \/ CloseWithoutList
  BY <1>1, <1>2, <1>5, PopKeepsStack DEF Close, CloseWithoutList, AddToList
<1>6. CASE Unwind
  BY <1>1, <1>2, <1>6, PopKeepsStack DEF Unwind
<1>7. CASE UNCHANGED frames
  BY <1>1, <1>2, <1>7, StackStays
<1>8. Open \/ LeaveOut \/ Close \/ CloseWithoutList \/ Unwind \/ UNCHANGED frames
  BY Zenon DEF Next, OutOfMemory, Crash, Hang, Finish, UnwindList, FreeResult, Ended, vars
<1> QED BY <1>3, <1>4, <1>5, <1>6, <1>7, <1>8

-----------------------------------------------------------------------------
(* What is linked.                                                          *)

(* While the parse goes on, all that was passed is linked, but for what may *)
(* be missing.                                                              *)
LinkedWhileParsing == attached \subseteq Passed /\ Passed \subseteq attached \cup Optional \cup Forgone

(* What is linked, said of what was passed.                                 *)
LEMMA LinkedIs ==
  LinkedInv <=> /\ attached \subseteq document
                /\ pc = "parse" => LinkedWhileParsing
                /\ pc = "done" /\ ret = 0 => document \ attached \subseteq Optional \cup Forgone
                /\ Running => Opened \cap attached = {}
BY DEF LinkedInv, LinkedWhileParsing, Passed

(* The same after a step.                                                   *)
LEMMA LinkedIsNext ==
  LinkedInv' <=> /\ attached' \subseteq document'
                 /\ pc' = "parse" => LinkedWhileParsing'
                 /\ pc' = "done" /\ ret' = 0 => document' \ attached' \subseteq Optional' \cup Forgone'
                 /\ Running' => Opened' \cap attached' = {}
BY DEF LinkedInv, LinkedWhileParsing, Passed

(* What is missing is missing while nothing is linked.                      *)
LEMMA ForgoneStays ==
  ASSUME UNCHANGED inputs, attached' = attached
  PROVE  Forgone' = Forgone
BY DEF inputs, Forgone, TypeOf

(* Nothing is missing above a linked structure.                             *)
LEMMA ForgoneAbove ==
  ASSUME DocumentInv, attached \subseteq document, NEW q \in attached,
         NEW p \in document, Within(q, p)
  PROVE  p \notin Forgone
<1> SUFFICES ASSUME p \in Forgone PROVE FALSE
  OBVIOUS
<1>1. PICK g \in attached : IsStrictPrefix(g, p) /\ ~IsStrictPrefix(g, q)
  BY DEF Forgone
<1>2. g \in Seq(Nat) /\ p \in Seq(Nat) /\ q \in Seq(Nat)
  BY DocumentPaths
<1>3. Within(p, g) /\ Len(g) < Len(p)
  BY <1>1, <1>2, PrefixIs
<1>4. Within(q, g) /\ Len(g) < Len(q)
  <2>1. Len(g) \in Nat /\ Len(p) \in Nat /\ Len(q) \in Nat
    BY <1>2
  <2>2. \A i \in 1..Len(g) : i \in 1..Len(p)
    BY <1>3, <2>1
  <2> QED BY <1>3, <2>1, <2>2 DEF Within
<1> QED BY <1>1, <1>2, <1>4, PrefixIs

(* A list that was not found stays so: it is that of a structure that is    *)
(* linked, and those above the one that is linked next are not.             *)
LEMMA ForgoneGrows ==
  ASSUME DocumentInv, StackInv, attached \subseteq document, Opened \cap attached = {},
         UNCHANGED inputs, Len(frames) > 1, attached' = attached \cup {Top.path}
  PROVE  Forgone \subseteq Forgone'
<1> DEFINE t == Top.path
<1> SUFFICES ASSUME NEW q \in Forgone PROVE q \in Forgone'
  OBVIOUS
<1>1. PICK p \in attached : /\ TypeOf(p).mayLoseLists /\ IsStrictPrefix(p, q)
                             /\ \A r \in attached : ~IsStrictPrefix(p, r)
  BY DEF Forgone
<1>2. TopFacts
  BY TopIs
<1>3. ~IsStrictPrefix(p, t)
  <2> SUFFICES ASSUME IsStrictPrefix(p, t) PROVE FALSE
    OBVIOUS
  <2> DEFINE n == Len(frames)
             k == Len(p)
             a == frames[k + 1].path
  <2>1. p \in document /\ p \in Seq(Nat) /\ k \in 1..Len(Chain[resource]) /\ t \in Seq(Nat)
    BY <1>2, DocumentPaths DEF TopFacts
  <2>2. Within(t, p) /\ k < Len(t)
    BY <2>1, PrefixIs
  <2>3. n \in Nat /\ k \in Nat /\ k >= 1 /\ Len(t) = n - 1
    BY <1>2, <2>1 DEF TopFacts, StackInv
  <2>4. k + 1 \in 2..n /\ k + 1 \in 1..n /\ n \in 1..n
    BY <2>2, <2>3
  <2>5. a \in Opened /\ Len(a) = k
    <3> HIDE DEF k
    <3>1. a \in Opened
      BY <2>4 DEF Opened
    <3>2. Len(a) = (k + 1) - 1
      BY <2>4 DEF StackInv, Nested
    <3>3. (k + 1) - 1 = k
      BY <2>3
    <3> QED BY <3>1, <3>2, <3>3
  <2>6. Within(t, a)
    BY <1>2, <2>4 DEF StackInv, Nested, TopFacts
  <2>7. a \in Seq(Nat)
    BY <2>5, OpenedIs
  <2>8. p = a
    <3> HIDE DEF a, t
    <3>1. \A i \in 1..Len(p) : p[i] = a[i]
      BY <2>2, <2>5, <2>6 DEF Within
    <3> QED BY <2>1, <2>5, <2>7, <3>1, SeqsEqual
  <2> QED BY <2>5, <2>8
<1>4. \A r \in attached' : ~IsStrictPrefix(p, r)
  BY <1>1, <1>3
<1>5. q \in document' /\ p \in attached' /\ TypeOf(p)'.mayLoseLists
  BY <1>1 DEF Forgone, inputs, TypeOf
<1> QED BY <1>1, <1>4, <1>5 DEF Forgone

(* The child whose parser is entered is not linked, and nothing was passed. *)
LEMMA OpenKeepsLinked ==
  ASSUME IInv, Open
  PROVE  LinkedInv' /\ Opened' = Opened \cup {Child} /\ Child \notin attached
<1> DEFINE f == [path |-> Child, oldnode |-> context', next |-> 1]
<1>1. DocumentInv /\ StackInv /\ LinkedInv /\ StackInv' /\ Open /\ ContextInv
  BY StackKept DEF IInv, Next
<1>2. UNCHANGED inputs /\ document' = document /\ Optional' = Optional
  BY <1>1, InputsStay DEF Next
<1>3. /\ pc = "parse" /\ pc' = "parse" /\ attached' = attached /\ Child \in document
      /\ frames' = Append(Bumped, f) /\ context' \in {Child, context}
  BY <1>1 DEF Open, Bumped, ContextFor
<1>4. f \in Frame
  BY <1>1, <1>3, ChildIs, ConstantsAssumption DEF Frame, ContextInv
<1>5. Pushed(f)
  BY <1>1, <1>3, <1>4, PushedIs
<1>6. Passed' = Passed
  BY <1>1, <1>2, <1>5, PassedByOpen
<1>7. Opened' = Opened \cup {Child}
  <2>1. f.path = Child
    OBVIOUS
  <2> HIDE DEF f
  <2> QED BY <1>1, <1>5, <2>1, OpenedByOpen
<1>8. Child \notin attached
  <2>1. Child \in Seq(Nat)
    BY <1>1, <1>3, DocumentPaths
  <2>2. ~Before(Child, Child)
    BY <2>1, WithinItself, NotBefore
  <2> QED BY <1>1, <1>3, <2>2 DEF LinkedInv
<1>9. Opened \cap attached = {} /\ LinkedWhileParsing
  BY <1>1, <1>3, LinkedIs DEF Running
<1>10. Forgone' = Forgone
  BY <1>2, <1>3, ForgoneStays
<1> QED BY <1>1, <1>2, <1>3, <1>6, <1>7, <1>8, <1>9, <1>10, LinkedIs, LinkedIsNext DEF LinkedWhileParsing

(* A child left out is passed without being linked, and may be.             *)
LEMMA LeaveOutKeepsLinked ==
  ASSUME IInv, LeaveOut
  PROVE  LinkedInv' /\ Opened' = Opened /\ Child \in Optional
<1>1. DocumentInv /\ StackInv /\ LinkedInv /\ StackInv'
  BY StackKept DEF IInv, Next
<1>2. UNCHANGED inputs /\ document' = document /\ Optional' = Optional
  BY <1>1, InputsStay DEF Next
<1>3. /\ pc = "parse" /\ pc' = "parse" /\ attached' = attached /\ Child \in document
      /\ frames' = Bumped /\ Childless(Child)
  BY DEF LeaveOut, Bumped
<1>4. Passed' = Passed \cup {Child}
  BY <1>1, <1>2, <1>3, PassedByLeaveOut
<1>5. Child \in Optional
  BY <1>3 DEF LeaveOut, Optional
<1>6. Opened' = Opened
  BY <1>1, <1>3, OpenedByLeaveOut
<1>7. Opened \cap attached = {} /\ LinkedWhileParsing
  BY <1>1, <1>3, LinkedIs DEF Running
<1>8. Forgone' = Forgone
  BY <1>2, <1>3, ForgoneStays
<1> QED BY <1>1, <1>2, <1>3, <1>4, <1>5, <1>6, <1>7, <1>8, LinkedIs, LinkedIsNext DEF LinkedWhileParsing

(* The structure whose parser returns is the one that is passed, and it is  *)
(* linked.                                                                  *)
LEMMA CloseKeepsLinked ==
  ASSUME IInv, Close
  PROVE  LinkedInv'
<1>1. DocumentInv /\ StackInv /\ LinkedInv /\ StackInv'
  BY StackKept DEF IInv, Next
<1>2. UNCHANGED inputs /\ document' = document /\ Optional' = Optional
  BY <1>1, InputsStay DEF Next
<1>3. /\ pc = "parse" /\ pc' = "parse" /\ attached' = attached \cup {Top.path}
      /\ Child \notin document /\ Len(frames) > 1 /\ frames' = Front(frames)
  BY DEF Close, AddToList
<1>4. Passed' = Passed \cup {Top.path} /\ Top.path \in document
  BY <1>1, <1>2, <1>3, PassedByClose
<1>5. Opened = Opened' \cup {Top.path} /\ Top.path \notin Opened'
  BY <1>1, <1>3, OpenedByPop
<1>6. Opened \cap attached = {} /\ LinkedWhileParsing /\ attached \subseteq document
  BY <1>1, <1>3, LinkedIs DEF Running
<1>7. Forgone \subseteq Forgone'
  BY <1>1, <1>2, <1>3, <1>6, ForgoneGrows
<1> QED BY <1>1, <1>2, <1>3, <1>4, <1>5, <1>6, <1>7, LinkedIs, LinkedIsNext DEF LinkedWhileParsing

(* One whose list was not found is linked without what is below it.         *)
LEMMA CloseWithoutListKeepsLinked ==
  ASSUME IInv, CloseWithoutList
  PROVE  LinkedInv'
<1> DEFINE t == Top.path
<1>1. DocumentInv /\ StackInv /\ LinkedInv /\ StackInv'
  BY StackKept DEF IInv, Next
<1>2. /\ UNCHANGED inputs /\ document' = document /\ Optional' = Optional
      /\ \A p : TypeOf(p)' = TypeOf(p)
  BY <1>1, InputsStay DEF Next
<1>3. /\ pc = "parse" /\ pc' = "parse" /\ attached' = attached \cup {t}
      /\ Top.next = 1 /\ Len(frames) > 1 /\ frames' = Front(frames) /\ TypeOf(t).mayLoseLists
  BY DEF CloseWithoutList, AddToList
<1>4. /\ \A q \in document : Before(q, Child)' <=> Before(q, Child) \/ Within(q, t)
      /\ t \in document
  BY <1>1, <1>2, <1>3, PassedByReturn
<1>5. Opened = Opened' \cup {t} /\ t \notin Opened'
  BY <1>1, <1>3, OpenedByPop
<1>6. Opened \cap attached = {} /\ LinkedWhileParsing /\ attached \subseteq document
  BY <1>1, <1>3, LinkedIs DEF Running
<1>7. Forgone \subseteq Forgone'
  BY <1>1, <1>2, <1>3, <1>6, ForgoneGrows
<1>8. t \in Seq(Nat) /\ \A q \in document : q \in Seq(Nat) /\ q \in Seq(1..Width)
  BY <1>1, <1>4, DocumentPaths
<1>9. ASSUME NEW r \in attached' PROVE ~IsStrictPrefix(t, r)
  <2> SUFFICES ASSUME IsStrictPrefix(t, r) PROVE FALSE
    OBVIOUS
  <2>1. r \in document /\ r \in Seq(Nat) /\ r \in Seq(1..Width)
    BY <1>3, <1>4, <1>6, <1>8
  <2>2. Within(r, t) /\ Len(t) < Len(r)
    BY <1>8, <2>1, PrefixIs
  <2>3. r \in attached
    BY <1>3, <1>8, <2>2
  <2>4. Before(r, Append(t, 1))
    BY <1>3, <1>6, <2>3 DEF LinkedWhileParsing, Passed, Child
  <2>5. Before(r, t)
    BY <1>8, <2>1, <2>4, BeforeFirst
  <2> QED BY <1>8, <2>1, <2>2, <2>5, NotBefore
<1>10. ASSUME NEW q \in document, Within(q, t), q # t PROVE q \in Forgone'
  <2>1. Len(q) # Len(t)
    <3> SUFFICES ASSUME Len(q) = Len(t) PROVE FALSE
      OBVIOUS
    <3>1. \A i \in 1..Len(q) : q[i] = t[i]
      BY <1>10 DEF Within
    <3> HIDE DEF t
    <3> QED BY <1>8, <1>10, <3>1, SeqsEqual
  <2>2. Len(t) < Len(q)
    <3>1. Len(t) \in Nat /\ Len(q) \in Nat /\ Len(t) <= Len(q)
      BY <1>8, <1>10 DEF Within
    <3> QED BY <2>1, <3>1
  <2>3. IsStrictPrefix(t, q)
    BY <1>8, <1>10, <2>2, PrefixIs
  <2>4. t \in attached' /\ TypeOf(t).mayLoseLists /\ q \in document'
    BY <1>2, <1>3
  <2> HIDE DEF t
  <2>5. PICK p \in attached' : /\ TypeOf(p).mayLoseLists /\ IsStrictPrefix(p, q)
                              /\ \A r \in attached' : ~IsStrictPrefix(p, r)
    BY <1>9, <2>3, <2>4
  <2>6. TypeOf(p)'.mayLoseLists
    BY <1>2, <2>5
  <2> QED BY <2>4, <2>5, <2>6 DEF Forgone
<1> HIDE DEF t
<1>11. Passed' = {q \in document : Before(q, Child) \/ Within(q, t)}
  BY <1>2, <1>4 DEF Passed
<1>12. attached' \subseteq Passed' /\ Passed' \subseteq attached' \cup Optional' \cup Forgone'
  BY <1>2, <1>3, <1>4, <1>6, <1>7, <1>8, <1>10, <1>11, WithinItself DEF LinkedWhileParsing, Passed
<1> QED BY <1>2, <1>3, <1>4, <1>5, <1>6, <1>12, LinkedIsNext DEF LinkedWhileParsing

(* The parser of the list ends when the whole document was passed.          *)
LEMMA FinishKeepsLinked ==
  ASSUME IInv, Finish
  PROVE  LinkedInv'
<1>1. DocumentInv /\ StackInv /\ LinkedInv
  BY DEF IInv
<1>2. document' = document /\ Optional' = Optional /\ UNCHANGED inputs
  BY <1>1, InputsStay DEF Next
<1>3. pc = "parse" /\ pc' = "done" /\ attached' = attached /\ Child \notin document /\ Len(frames) = 1
  BY DEF Finish
<1>4. Passed = document
  BY <1>1, <1>3, PassedAtFinish
<1>5. LinkedWhileParsing /\ Forgone' = Forgone
  BY <1>1, <1>2, <1>3, LinkedIs, ForgoneStays
<1> QED BY <1>2, <1>3, <1>4, <1>5, LinkedIsNext DEF LinkedWhileParsing, Running, Passed

(* A failure links nothing.                                                 *)
LEMMA UnwindKeepsLinked ==
  ASSUME IInv, Unwind
  PROVE  LinkedInv'
<1>1. DocumentInv /\ StackInv /\ LinkedInv
  BY DEF IInv
<1>2. document' = document
  BY <1>1, InputsStay DEF Next
<1>3. /\ pc = "unwind" /\ pc' = "unwind" /\ attached' \subseteq attached
      /\ Len(frames) > 1 /\ frames' = Front(frames)
  BY DEF Unwind
<1>4. Opened = Opened' \cup {Top.path}
  BY <1>1, <1>3, OpenedByPop
<1> QED BY <1>1, <1>2, <1>3, <1>4, LinkedIs, LinkedIsNext DEF Running

(* Every step keeps what is said of the linked structures.                  *)
LEMMA LinkedKept ==
  ASSUME IInv, [Next]_vars
  PROVE  LinkedInv'
<1>1. DocumentInv /\ StackInv /\ LinkedInv /\ OutcomeInv
  BY DEF IInv
<1>2. document' = document /\ Optional' = Optional
  BY <1>1, InputsStay
<1>3. CASE Open
  BY <1>3, OpenKeepsLinked
<1>4. CASE LeaveOut
  BY <1>4, LeaveOutKeepsLinked
<1>5. CASE Close
  BY <1>5, CloseKeepsLinked
<1>11. CASE CloseWithoutList
  BY <1>11, CloseWithoutListKeepsLinked
<1>6. CASE Finish
  BY <1>6, FinishKeepsLinked
<1>7. CASE Unwind
  BY <1>7, UnwindKeepsLinked
<1>8. CASE OutOfMemory
  <2>1. pc = "parse" /\ pc' = "unwind" /\ UNCHANGED <<frames, attached>>
    BY <1>8 DEF OutOfMemory
  <2>2. Opened' = Opened
    BY <1>1, <1>2, <2>1, StackStays
  <2> QED BY <1>1, <1>2, <2>1, <2>2, LinkedIs, LinkedIsNext DEF Running
<1>9. CASE Crash \/ Hang \/ UnwindList \/ FreeResult
  <2>1. attached' \subseteq attached /\ pc' \notin {"parse", "unwind"} /\ (pc' = "done" => ret' = -1)
    BY <1>1, <1>9, Zenon DEF OutcomeInv, Crash, Hang, UnwindList, FreeResult
  <2> QED BY <1>1, <1>2, <2>1, LinkedIs, LinkedIsNext DEF Running
<1>10. CASE UNCHANGED vars
  BY <1>1, <1>10, StackStays DEF LinkedInv, vars, Running, Optional, Forgone, TypeOf, Childless
<1> QED BY <1>3, <1>4, <1>5, <1>6, <1>7, <1>8, <1>9, <1>10, <1>11, Zenon DEF Next, Ended

-----------------------------------------------------------------------------
(* What a failure passes on the way up.                                     *)

(* What is above q is linked, or being filled.                              *)
Anchored(q) == \A k \in 1..(Len(q) - 1) : SubSeq(q, 1, k) \in attached \cup Opened

(* When a child fails, what is above a linked structure was passed, and is  *)
(* linked, or is being filled.                                              *)
LEMMA FailureFindsTree ==
  ASSUME DocumentInv, StackInv, LinkedInv, pc = "parse", NEW q \in attached
  PROVE  Anchored(q)
<1> SUFFICES ASSUME NEW k \in 1..(Len(q) - 1) PROVE SubSeq(q, 1, k) \in attached \cup Opened
  BY DEF Anchored
<1> DEFINE p == SubSeq(q, 1, k)
<1>1. q \in document /\ q \in Seq(Nat) /\ k \in 1..Len(q) /\ k < Len(q) /\ Before(q, Child)
  BY DocumentPaths DEF LinkedInv
<1>2. p \in document /\ p \in Seq(Nat) /\ Len(p) = k /\ \A i \in 1..k : p[i] = q[i]
  <2>1. k \in 0..Len(q)
    BY <1>1
  <2> QED BY <1>1, <2>1, AboveInDocument, SubSeqIs
<1>3. p \notin Optional \cup Forgone
  <2> HIDE DEF p
  <2>1. Within(q, p)
    BY <1>1, <1>2 DEF Within
  <2>2. p \notin Forgone
    BY <1>2, <2>1, ForgoneAbove DEF LinkedInv
  <2> QED BY <1>1, <1>2, <2>1, <2>2, NotChildless DEF Optional
<1>4. CASE Before(p, Child)
  BY <1>2, <1>3, <1>4 DEF LinkedInv
<1>5. CASE k < Len(Child) /\ \A i \in 1..k : q[i] = Child[i]
  <2> DEFINE n == Len(frames)
             a == frames[k + 1].path
  <2> HIDE DEF p
  <2>1. TopFacts
    BY TopIs
  <2>2. n \in Nat /\ k + 1 \in 2..n /\ k + 1 \in 1..n /\ n \in 1..n /\ Len(Child) = n
    BY <1>5, <2>1 DEF TopFacts, StackInv
  <2>3. a \in Opened /\ Len(a) = k
    BY <2>2 DEF Opened, StackInv, Nested
  <2>4. Within(Top.path, a)
    BY <2>1, <2>2 DEF StackInv, Nested, TopFacts
  <2>5. a \in Seq(Nat)
    BY <2>3, OpenedIs
  <2>6. \A i \in 1..k : p[i] = a[i]
    <3> SUFFICES ASSUME NEW i \in 1..k PROVE p[i] = a[i]
      OBVIOUS
    <3>1. Top.path[i] = a[i]
      BY <2>3, <2>4 DEF Within
    <3>2. Child[i] = Top.path[i]
      BY <2>1, <2>2 DEF TopFacts
    <3> QED BY <1>2, <1>5, <3>1, <3>2
  <2>7. p = a
    BY <1>2, <2>3, <2>5, <2>6, SeqsEqual
  <2> QED BY <2>3, <2>7 DEF p
<1>6. Child \in Seq(Nat)
  BY TopIs DEF TopFacts
<1> QED BY <1>1, <1>4, <1>5, <1>6, BeforeAbove

(* Where what is above a linked structure is linked or still being filled,  *)
(* and nothing deeper than p is being filled, freeing what p holds frees    *)
(* all that is below it.                                                    *)
LEMMA AllReached ==
  ASSUME DocumentInv, LinkedInv, NEW p \in Seq(Nat), \A o \in Opened : Len(o) <= Len(p),
         NEW q \in attached, Anchored(q), Within(q, p), Len(p) < Len(q)
  PROVE  q \in Reached(p)
<1>1. q \in Seq(Nat) /\ Len(q) \in Nat /\ Len(p) \in Nat
  BY DocumentPaths DEF LinkedInv
<1>2. ASSUME NEW n \in (Len(p) + 1)..Len(q) PROVE SubSeq(q, 1, n) \in attached
  <2>1. n \in 0..Len(q)
    BY <1>1
  <2>2. /\ SubSeq(q, 1, n) \in Seq(Nat) /\ Len(SubSeq(q, 1, n)) = n
        /\ \A i \in 1..n : SubSeq(q, 1, n)[i] = q[i]
    BY <1>1, <2>1, SubSeqIs
  <2>3. CASE n = Len(q)
    <3>1. SubSeq(q, 1, n) = q
      BY <1>1, <2>2, <2>3, SeqsEqual
    <3> QED BY <3>1
  <2>4. CASE n # Len(q)
    <3>1. n \in 1..(Len(q) - 1) /\ ~(n <= Len(p))
      BY <1>1, <2>4
    <3>2. SubSeq(q, 1, n) \in attached \cup Opened
      BY <3>1 DEF Anchored
    <3> QED BY <2>2, <3>1, <3>2
  <2> QED BY <2>3, <2>4
<1> QED BY <1>1, <1>2, PrefixIs DEF Reached

(* So it is one level up, once what the structure there held was freed.     *)
LEMMA UnwindKeepsTree ==
  ASSUME IInv, Unwind, resource # "firewalls", NEW q \in attached'
  PROVE  Anchored(q)'
<1> DEFINE t == Top.path
<1>1. DocumentInv /\ StackInv /\ LinkedInv /\ UnwindInv
  BY DEF IInv
<1>2. pc = "unwind" /\ Len(frames) > 1 /\ frames' = Front(frames)
  BY DEF Unwind
<1>3. /\ Opened = Opened' \cup {t} /\ t \in document /\ Len(t) = Len(frames) - 1
      /\ \A o \in Opened : o \in Seq(Nat) /\ Len(o) <= Len(t)
  BY <1>1, <1>2, OpenedByPop
<1>4. t \in Seq(Nat) /\ resource \in DOMAIN Chain /\ Len(t) \in DOMAIN Chain[resource]
  BY <1>1, <1>3, DocumentPaths, Table
<1>5. attached' = attached \ Reached(t)
  <2>1. TypeFacts(resource, Len(t))
    BY <1>4, Table
  <2>2. TypeOf(t).frees
    BY <2>1 DEF TypeFacts, TypeOf
  <2> QED BY <2>2 DEF Unwind
<1> HIDE DEF t
<1>6. q \in attached /\ Anchored(q)
  BY <1>1, <1>2, <1>5 DEF UnwindInv, Anchored
<1>7. q \in document /\ q \in Seq(Nat) /\ Len(q) \in Nat
  BY <1>1, <1>6, DocumentPaths DEF LinkedInv
<1>8. ~(Within(q, t) /\ Len(t) < Len(q))
  BY <1>1, <1>3, <1>4, <1>5, <1>6, AllReached
<1>9. ASSUME NEW k \in 1..(Len(q) - 1) PROVE SubSeq(q, 1, k) \in attached' \cup Opened'
  <2> DEFINE p == SubSeq(q, 1, k)
  <2>1. p \in attached \cup Opened
    BY <1>6 DEF Anchored
  <2>2. k \in 0..Len(q) /\ k < Len(q)
    BY <1>7
  <2>3. p \in Seq(Nat) /\ Len(p) = k /\ \A i \in 1..k : p[i] = q[i]
    BY <1>7, <2>2, SubSeqIs
  <2> HIDE DEF p
  <2>4. ~Within(p, t)
    <3> SUFFICES ASSUME Within(p, t) PROVE FALSE
      OBVIOUS
    <3>1. Len(t) <= k /\ \A i \in 1..Len(t) : i \in 1..k /\ p[i] = t[i]
      BY <1>4, <2>3 DEF Within
    <3>2. Within(q, t) /\ Len(t) < Len(q)
      BY <1>4, <1>7, <2>2, <2>3, <3>1 DEF Within
    <3> QED BY <1>8, <3>2
  <2>5. p # t
    BY <1>4, <2>4, WithinItself
  <2>6. p \notin Reached(t)
    BY <1>4, <2>3, <2>4, PrefixIs DEF Reached
  <2> QED BY <1>3, <1>5, <2>1, <2>5, <2>6 DEF p
<1> QED BY <1>9 DEF Anchored

(* Every step keeps that.                                                   *)
LEMMA UnwindInvKept ==
  ASSUME IInv, [Next]_vars
  PROVE  UnwindInv'
<1>1. DocumentInv /\ StackInv /\ LinkedInv /\ UnwindInv
  BY DEF IInv
<1>2. resource' = resource /\ document' = document
  BY <1>1, InputsStay
<1>3. UnwindInv <=> (pc = "unwind" /\ resource # "firewalls" => \A q \in attached : Anchored(q))
  BY DEF UnwindInv, Anchored
<1>4. UnwindInv' <=> (pc' = "unwind" /\ resource' # "firewalls" => \A q \in attached' : Anchored(q)')
  BY DEF UnwindInv, Anchored
<1>5. CASE OutOfMemory
  <2>1. pc = "parse" /\ UNCHANGED <<frames, attached>>
    BY <1>5 DEF OutOfMemory
  <2>2. Opened' = Opened
    BY <1>1, <1>2, <2>1, StackStays
  <2>3. \A q \in attached : Anchored(q)
    BY <1>1, <2>1, FailureFindsTree
  <2> QED BY <1>4, <2>1, <2>2, <2>3 DEF Anchored
<1>6. CASE Unwind
  BY <1>2, <1>4, <1>6, UnwindKeepsTree
<1>7. CASE UNCHANGED vars
  BY <1>1, <1>2, <1>3, <1>4, <1>7, StackStays DEF vars, Anchored
<1>8. CASE pc' # "unwind"
  BY <1>4, <1>8
<1>9. OutOfMemory \/ Unwind \/ UNCHANGED vars \/ pc' # "unwind"
  <2>1. pc' # "unwind" \/ OutOfMemory \/ Unwind \/ Ended \/ UNCHANGED vars
    BY DEF Next, Open, LeaveOut, Crash, Hang, Close, CloseWithoutList, AddToList, Finish,
           UnwindList, FreeResult
  <2> QED BY <2>1 DEF Ended
<1> QED BY <1>5, <1>6, <1>7, <1>8, <1>9

-----------------------------------------------------------------------------
(* What is allocated.                                                       *)

(* No structure is made of the root.                                        *)
LEMMA RootHolds ==
  ASSUME DocumentInv, NEW p \in document
  PROVE  p # Root
BY DocumentPaths, RootIs

(* A structure stays allocated while nothing of it is freed.                *)
LEMMA AllocatedKept ==
  ASSUME NEW p, UNCHANGED inputs, Allocated(p), heap \cap ({p} \X {"struct", "fields"}) \subseteq heap'
  PROVE  Allocated(p)'
<1>1. Provided(p)' <=> Provided(p)
  BY DEF Provided, TypeOf, inputs
<1>2. \A part \in {"struct", "fields"} : <<p, part>> \in heap => <<p, part>> \in heap'
  OBVIOUS
<1> QED BY <1>1, <1>2 DEF Allocated

(* Freeing what p holds leaves what is linked after it as it was.           *)
LEMMA ContentsOfOthers ==
  ASSUME NEW p, NEW q, q # p, q \notin Reached(p)
  PROVE  (Contents(p) \cup {<<p, "struct">>}) \cap ({q} \X {"struct", "fields"}) = {}
BY DEF Contents

(* Every step keeps what is linked allocated.                               *)
LEMMA HeapKept ==
  ASSUME IInv, [Next]_vars
  PROVE  HeapInv'
<1>1. DocumentInv /\ StackInv /\ LinkedInv /\ LinkedInv' /\ HeapInv /\ OutcomeInv
  BY LinkedKept DEF IInv
<1>2. UNCHANGED inputs /\ document' = document /\ DocumentInv'
  BY <1>1, InputsStay
<1>3. ASSUME heap \subseteq heap', heap' \subseteq document \X Parts, attached' \subseteq attached,
             pc' = "parse" => pc = "parse" /\ Opened' \subseteq Opened
      PROVE  HeapInv'
  <2>1. \A p : Allocated(p) => Allocated(p)'
    BY <1>2, <1>3, AllocatedKept
  <2> QED BY <1>1, <1>2, <1>3, <2>1 DEF HeapInv
<1>4. ASSUME NEW p, p \in Elements, heap' = heap \ Contents(p) \/ heap' = heap \ (Contents(p) \cup {<<p, "struct">>}),
             attached' = attached \ Reached(p), p \notin attached, pc' # "parse"
      PROVE  HeapInv'
  <2>1. ASSUME NEW q \in attached' PROVE Allocated(q)'
    <3>1. q # p /\ q \notin Reached(p) /\ Allocated(q)
      BY <1>1, <1>4 DEF HeapInv
    <3>2. (Contents(p) \cup {<<p, "struct">>}) \cap ({q} \X {"struct", "fields"}) = {}
      BY <3>1, ContentsOfOthers
    <3>3. heap \cap ({q} \X {"struct", "fields"}) \subseteq heap'
      BY <1>4, <3>2
    <3> QED BY <1>2, <3>1, <3>3, AllocatedKept
  <2> QED BY <1>1, <1>2, <1>4, <2>1 DEF HeapInv
<1>5. CASE Open
  <2>1. /\ pc = "parse" /\ pc' = "parse" /\ attached' = attached /\ Child \in document
        /\ heap' = heap \cup Allocations(Child)
    BY <1>5 DEF Open
  <2>2. Opened' = Opened \cup {Child}
    BY <1>5, OpenKeepsLinked
  <2>3. Allocations(Child) \subseteq document \X Parts
    BY <2>1 DEF Allocations, Parts
  <2>4. \A p : Allocated(p) => Allocated(p)'
    BY <1>2, <2>1, AllocatedKept
  <2>5. \A p : p = Child => Allocated(p)'
    <3>1. <<Child, "fields">> \in heap' /\ (Provided(Child) \/ <<Child, "struct">> \in heap')
      BY <2>1 DEF Allocations
    <3>2. \A p : Provided(p)' <=> Provided(p)
      BY <1>2 DEF Provided, TypeOf, inputs
    <3> QED BY <3>1, <3>2 DEF Allocated
  <2> QED BY <1>1, <1>2, <2>1, <2>2, <2>3, <2>4, <2>5 DEF HeapInv
<1>6. CASE LeaveOut
  <2>1. /\ pc = "parse" /\ attached' = attached /\ Child \in document
        /\ heap' \in {heap, heap \cup {<<Child, "struct">>}}
    BY <1>6 DEF LeaveOut
  <2>2. Opened' = Opened
    BY <1>6, LeaveOutKeepsLinked
  <2> QED BY <1>1, <1>3, <2>1, <2>2 DEF HeapInv, Parts
<1>7. CASE Close \/ CloseWithoutList
  <2>1. /\ pc = "parse" /\ pc' = "parse" /\ attached' = attached \cup {Top.path} /\ heap' = heap
        /\ Len(frames) > 1 /\ frames' = Front(frames)
    BY <1>7 DEF Close, CloseWithoutList, AddToList
  <2>2. Opened = Opened' \cup {Top.path}
    BY <1>1, <2>1, OpenedByPop
  <2>3. \A p : Allocated(p) => Allocated(p)'
    BY <1>2, <2>1, AllocatedKept
  <2> QED BY <1>1, <1>2, <2>1, <2>2, <2>3 DEF HeapInv
<1>8. CASE Unwind
  <2>1. pc = "unwind" /\ pc' = "unwind" /\ Len(frames) > 1 /\ frames' = Front(frames)
    BY <1>8 DEF Unwind
  <2>2. Top.path \in Opened /\ Top.path \in document
    BY <1>1, <2>1, OpenedByPop
  <2>3. Top.path \notin attached /\ Top.path \in Elements
    BY <1>1, <2>1, <2>2, LinkedIs DEF Running, Elements
  <2>4. CASE TypeOf(Top.path).frees
    <3>1. /\ heap' = heap \ (Contents(Top.path) \cup {<<Top.path, "struct">>})
          /\ attached' = attached \ Reached(Top.path)
      BY <1>8, <2>4 DEF Unwind
    <3> QED BY <1>4, <2>1, <2>3, <3>1
  <2>5. CASE ~TypeOf(Top.path).frees
    <3>1. heap' = heap \ {<<Top.path, "struct">>} /\ attached' = attached
      BY <1>8, <2>5 DEF Unwind
    <3>2. ASSUME NEW q \in attached PROVE Allocated(q)'
      <4>1. q # Top.path /\ Allocated(q)
        BY <1>1, <2>3 DEF HeapInv
      <4>2. heap \cap ({q} \X {"struct", "fields"}) \subseteq heap'
        BY <3>1, <4>1
      <4> QED BY <1>2, <4>1, <4>2, AllocatedKept
    <3> QED BY <1>1, <1>2, <2>1, <3>1, <3>2 DEF HeapInv
  <2> QED BY <2>4, <2>5
<1>9. CASE UnwindList \/ FreeResult
  <2>1. heap' = heap \ Contents(Root) /\ attached' = attached \ Reached(Root) /\ pc' # "parse"
    BY <1>9 DEF UnwindList, FreeResult
  <2>2. Root \in Elements /\ Root \notin attached
    BY <1>1, RootHolds DEF LinkedInv, Elements
  <2> QED BY <1>4, <2>1, <2>2
<1>10. CASE OutOfMemory \/ Crash \/ Hang \/ Finish
  <2>1. heap' = heap /\ attached' = attached /\ pc' # "parse"
    BY <1>10 DEF OutOfMemory, Crash, Hang, Finish
  <2> QED BY <1>1, <1>3, <2>1 DEF HeapInv
<1>11. CASE UNCHANGED vars
  <2>1. heap' = heap /\ attached' = attached /\ pc' = pc /\ UNCHANGED <<frames, document>>
    BY <1>11 DEF vars
  <2>2. Opened' = Opened
    BY <1>1, <2>1, StackStays
  <2> QED BY <1>1, <1>3, <2>1, <2>2 DEF HeapInv
<1> QED BY <1>5, <1>6, <1>7, <1>8, <1>9, <1>10, <1>11, Zenon DEF Next, Ended

-----------------------------------------------------------------------------
(* What is left over.                                                       *)

(* The leftovers there are however a parse ended.                           *)
Known(a) == a[2] = "forgotten" \/ (a[2] = "struct" /\ a[1] \in Optional /\ ~TypeOf(a[1]).tested)

(* What is left over, after a step.                                         *)
LEMMA OwnedIsNext ==
  OwnedInv' <=>
    /\ Running' => \A a \in heap' : Leftover(a)' \/ a[1] \in attached' \cup Opened'
    /\ pc' = "done" /\ ret' = 0 => \A a \in heap' : Leftover(a)' \/ a[1] \in attached'
    /\ pc' = "freed" \/ (pc' = "done" /\ ret' = -1) =>
         \A a \in heap' : Known(a)' \/ (resource' = "firewalls" /\ ret' = -1 /\ Len(a[1]) > 1)
BY DEF OwnedInv, LeftoversKnown, Known

(* The leftovers, and those of a rule that was dropped.                     *)
LEMMA LeftoverIs ==
  \A a : /\ Leftover(a) <=> Known(a) \/ (resource = "firewalls" /\ pc # "parse" /\ ret = -1 /\ Len(a[1]) > 1)
         /\ Leftover(a)' <=> Known(a)' \/ (resource' = "firewalls" /\ pc' # "parse" /\ ret' = -1 /\ Len(a[1]) > 1)
BY DEF Leftover, Known

(* A parser whose child failed leaves nothing it held, but for a rule.      *)
LEMMA UnwindFrees ==
  ASSUME IInv, Unwind, NEW a \in heap'
  PROVE  Leftover(a)' \/ a[1] \in attached' \cup Opened'
<1> DEFINE t == Top.path
<1>1. DocumentInv /\ StackInv /\ HeapInv /\ OwnedInv /\ OutcomeInv
  BY DEF IInv
<1>2. UNCHANGED inputs /\ resource' = resource /\ Optional' = Optional /\ \A p : TypeOf(p)' = TypeOf(p)
  BY <1>1, InputsStay DEF Next
<1>3. /\ pc = "unwind" /\ pc' = "unwind" /\ ret' = ret /\ ret = -1
      /\ Len(frames) > 1 /\ frames' = Front(frames)
  BY <1>1 DEF Unwind, OutcomeInv
<1>4. Opened = Opened' \cup {t} /\ t \in document /\ Len(t) = Len(frames) - 1
  BY <1>1, <1>3, OpenedByPop
<1>5. /\ heap' = heap \ ({<<t, "struct">>} \cup IF TypeOf(t).frees THEN Contents(t) ELSE {})
      /\ attached' = attached \ IF TypeOf(t).frees THEN Reached(t) ELSE {}
  BY DEF Unwind
<1> HIDE DEF t
<1>6. a \in heap /\ a \in document \X Parts /\ a = <<a[1], a[2]>> /\ a[2] \in {"struct", "fields", "forgotten"}
  BY <1>1, <1>5 DEF HeapInv, Parts
<1>7. Leftover(a) \/ a[1] \in attached \cup Opened
  BY <1>1, <1>3, <1>6 DEF OwnedInv, Running
<1>8. CASE Leftover(a)
  BY <1>2, <1>3, <1>8 DEF Leftover
<1>9. CASE a[2] = "forgotten"
  BY <1>9 DEF Leftover
<1>10. CASE a[2] # "forgotten" /\ a[1] = t
  <2>1. a[2] = "fields"
    BY <1>5, <1>6, <1>10
  <2>2. ~TypeOf(t).frees
    BY <1>5, <1>6, <1>10, <2>1 DEF Contents
  <2>3. resource \in DOMAIN Chain /\ Len(t) \in DOMAIN Chain[resource]
    BY <1>1, <1>4, DocumentPaths, Table
  <2>4. TypeFacts(resource, Len(t))
    BY <2>3, Table
  <2>5. resource = "firewalls" /\ Len(t) = 2
    BY <2>2, <2>4 DEF TypeFacts, TypeOf
  <2> QED BY <1>2, <1>3, <1>10, <2>5 DEF Leftover
<1>11. CASE a[2] # "forgotten" /\ a[1] \in attached
  <2>1. CASE ~TypeOf(t).frees
    BY <1>5, <1>11, <2>1
  <2>2. CASE TypeOf(t).frees
    <3>1. a \notin Contents(t)
      BY <1>5, <2>2
    <3>2. a[1] \notin Reached(t)
      BY <1>6, <1>11, <3>1 DEF Contents
    <3> QED BY <1>5, <1>11, <2>2, <3>2
  <2> QED BY <2>1, <2>2
<1> QED BY <1>4, <1>6, <1>7, <1>8, <1>9, <1>10, <1>11

(* So does the parser of the list.                                          *)
LEMMA UnwindListFrees ==
  ASSUME IInv, UnwindList, NEW a \in heap'
  PROVE  Known(a)' \/ (resource' = "firewalls" /\ ret' = -1 /\ Len(a[1]) > 1)
<1>1. DocumentInv /\ StackInv /\ LinkedInv /\ HeapInv /\ OwnedInv /\ OutcomeInv /\ UnwindInv
  BY DEF IInv
<1>2. UNCHANGED inputs /\ resource' = resource /\ Optional' = Optional /\ \A p : TypeOf(p)' = TypeOf(p)
  BY <1>1, InputsStay DEF Next
<1>3. pc = "unwind" /\ ret' = ret /\ ret = -1 /\ Len(frames) = 1 /\ heap' = heap \ Contents(Root)
  BY <1>1 DEF UnwindList, OutcomeInv
<1>4. a \in heap /\ a \in document \X Parts /\ a = <<a[1], a[2]>> /\ a[2] \in {"struct", "fields", "forgotten"}
  BY <1>1, <1>3 DEF HeapInv, Parts
<1>5. Opened = {}
  BY <1>1, <1>3, OpenedIs
<1>6. Leftover(a) \/ a[1] \in attached
  BY <1>1, <1>3, <1>4, <1>5 DEF OwnedInv, Running
<1>7. CASE Leftover(a)
  BY <1>2, <1>3, <1>7, LeftoverIs DEF Known
<1>8. CASE a[2] = "forgotten"
  BY <1>8 DEF Known
<1>9. CASE a[2] # "forgotten" /\ a[1] \in attached
  <2>1. a[1] \notin Reached(Root)
    BY <1>3, <1>4, <1>9 DEF Contents
  <2>2. a[1] \in document /\ a[1] \in Seq(Nat) /\ Len(a[1]) \in Nat /\ Len(a[1]) > 0
    BY <1>1, <1>4, DocumentPaths
  <2>3. Within(a[1], Root) /\ Len(Root) < Len(a[1]) /\ Len(Root) = 0
    BY <2>2, RootIs DEF Within
  <2>4. ~Anchored(a[1])
    BY <1>1, <1>5, <1>9, <2>1, <2>3, AllReached, RootIs
  <2>5. Len(a[1]) > 1
    BY <2>2, <2>4 DEF Anchored
  <2>6. resource = "firewalls"
    BY <1>1, <1>3, <1>9, <2>4 DEF UnwindInv, Anchored
  <2> QED BY <1>2, <1>3, <2>5, <2>6
<1> QED BY <1>4, <1>6, <1>7, <1>8, <1>9

(* And the client, of a result.                                             *)
LEMMA FreeResultFrees ==
  ASSUME IInv, FreeResult, NEW a \in heap'
  PROVE  Known(a)'
<1>1. DocumentInv /\ LinkedInv /\ HeapInv /\ OwnedInv
  BY DEF IInv
<1>2. UNCHANGED inputs /\ Optional' = Optional /\ \A p : TypeOf(p)' = TypeOf(p)
  BY <1>1, InputsStay DEF Next
<1>3. pc = "done" /\ ret = 0 /\ heap' = heap \ Contents(Root)
  BY DEF FreeResult
<1>4. a \in heap /\ a \in document \X Parts /\ a = <<a[1], a[2]>> /\ a[2] \in {"struct", "fields", "forgotten"}
  BY <1>1, <1>3 DEF HeapInv, Parts
<1>5. Leftover(a) \/ a[1] \in attached
  BY <1>1, <1>3, <1>4 DEF OwnedInv
<1>6. CASE Leftover(a)
  BY <1>2, <1>3, <1>6, LeftoverIs DEF Known
<1>7. CASE a[2] = "forgotten"
  BY <1>7 DEF Known
<1>8. CASE a[2] # "forgotten" /\ a[1] \in attached
  <2> DEFINE q == a[1]
  <2>1. q \notin Reached(Root)
    BY <1>3, <1>4, <1>8 DEF Contents
  <2>2. q \in document /\ q \in Seq(Nat) /\ Len(q) \in Nat /\ Len(q) > 0
    BY <1>1, <1>4, DocumentPaths
  <2> HIDE DEF q
  <2>3. IsStrictPrefix(Root, q) /\ Len(Root) = 0
    <3>1. Within(q, Root) /\ Len(Root) < Len(q)
      BY <2>2, RootIs DEF Within
    <3> QED BY <2>2, <3>1, RootIs, PrefixIs
  <2>4. PICK n \in 1..Len(q) : SubSeq(q, 1, n) \notin attached
    BY <1>8, <2>1, <2>3 DEF Reached, q
  <2> DEFINE p == SubSeq(q, 1, n)
  <2>5. p \in document /\ p \in Seq(Nat) /\ Len(p) = n /\ \A i \in 1..n : p[i] = q[i]
    <3>1. n \in 0..Len(q)
      BY <2>2
    <3> QED BY <1>1, <2>2, <3>1, AboveInDocument, SubSeqIs
  <2>6. p \in Optional
    <3> HIDE DEF p
    <3>1. Within(q, p)
      BY <2>2, <2>5 DEF Within
    <3>2. p \notin Forgone
      BY <1>1, <1>8, <2>5, <3>1, ForgoneAbove DEF LinkedInv, q
    <3> QED BY <1>1, <1>3, <2>4, <2>5, <3>2, LinkedIs DEF p
  <2> HIDE DEF p
  <2>7. CASE n = Len(q)
    <3>1. p = q
      BY <2>2, <2>5, <2>7, SeqsEqual
    <3> QED BY <1>8, <2>4, <3>1 DEF p, q
  <2>8. CASE n # Len(q)
    <3>1. Within(q, p) /\ Len(p) < Len(q)
      BY <2>2, <2>5, <2>8 DEF Within
    <3> QED BY <1>1, <2>2, <2>5, <2>6, <3>1, NotChildless DEF Optional
  <2> QED BY <2>7, <2>8
<1> QED BY <1>4, <1>5, <1>6, <1>7, <1>8

(* Every step keeps every allocation within reach or among the leftovers.   *)
LEMMA OwnedKept ==
  ASSUME IInv, [Next]_vars
  PROVE  OwnedInv'
<1>1. DocumentInv /\ StackInv /\ LinkedInv /\ HeapInv /\ OutcomeInv /\ OwnedInv
  BY DEF IInv
<1>2. /\ UNCHANGED inputs /\ document' = document /\ resource' = resource /\ Optional' = Optional
      /\ \A p : TypeOf(p)' = TypeOf(p)
  BY <1>1, InputsStay
<1>3. ASSUME Running', \A a \in heap' : Leftover(a)' \/ a[1] \in attached' \cup Opened'
      PROVE  OwnedInv'
  BY <1>3, OwnedIsNext DEF Running
<1>4. ASSUME NEW a, Leftover(a), ret' = ret, pc' = "parse" => pc = "parse" PROVE Leftover(a)'
  BY <1>2, <1>4 DEF Leftover
<1>5. CASE Open
  <2>1. /\ pc = "parse" /\ pc' = "parse" /\ attached' = attached /\ ret' = ret
        /\ heap' = heap \cup Allocations(Child)
    BY <1>5 DEF Open
  <2>2. Opened' = Opened \cup {Child}
    BY <1>5, OpenKeepsLinked
  <2>3. \A a \in Allocations(Child) : a[1] = Child
    BY DEF Allocations
  <2>4. \A a \in heap : Leftover(a) \/ a[1] \in attached \cup Opened
    BY <1>1, <2>1 DEF OwnedInv, Running
  <2> QED BY <1>3, <1>4, <2>1, <2>2, <2>3, <2>4 DEF Running
<1>6. CASE LeaveOut
  <2>1. /\ pc = "parse" /\ pc' = "parse" /\ attached' = attached /\ ret' = ret
        /\ heap' = heap \/ (heap' = heap \cup {<<Child, "struct">>} /\ ~TypeOf(Child).tested)
    BY <1>6 DEF LeaveOut
  <2>2. Opened' = Opened /\ Child \in Optional
    BY <1>6, LeaveOutKeepsLinked
  <2>3. \A a \in heap : Leftover(a) \/ a[1] \in attached \cup Opened
    BY <1>1, <2>1 DEF OwnedInv, Running
  <2>4. \A a : a = <<Child, "struct">> /\ ~TypeOf(Child).tested => Leftover(a)'
    BY <1>2, <2>2 DEF Leftover
  <2> QED BY <1>3, <1>4, <2>1, <2>2, <2>3, <2>4 DEF Running
<1>7. CASE Close \/ CloseWithoutList
  <2>1. /\ pc = "parse" /\ pc' = "parse" /\ attached' = attached \cup {Top.path} /\ heap' = heap
        /\ Len(frames) > 1 /\ frames' = Front(frames) /\ ret' = ret
    BY <1>7 DEF Close, CloseWithoutList, AddToList
  <2>2. Opened = Opened' \cup {Top.path}
    BY <1>1, <2>1, OpenedByPop
  <2>3. \A a \in heap : Leftover(a) \/ a[1] \in attached \cup Opened
    BY <1>1, <2>1 DEF OwnedInv, Running
  <2> QED BY <1>3, <1>4, <2>1, <2>2, <2>3 DEF Running
<1>8. CASE Unwind
  <2>1. Running'
    BY <1>8 DEF Unwind, Running
  <2> QED BY <1>3, <1>8, <2>1, UnwindFrees
<1>9. CASE UnwindList
  <2>1. pc' = "done" /\ ret' = -1
    BY <1>1, <1>9 DEF UnwindList, OutcomeInv
  <2> QED BY <1>9, <2>1, UnwindListFrees, OwnedIsNext DEF Running
<1>10. CASE FreeResult
  <2>1. pc' = "freed"
    BY <1>10 DEF FreeResult
  <2> QED BY <1>10, <2>1, FreeResultFrees, OwnedIsNext DEF Running
<1>11. CASE Finish
  <2>1. /\ pc = "parse" /\ pc' = "done" /\ attached' = attached /\ heap' = heap /\ ret' = 0
        /\ Len(frames) = 1
    BY <1>11 DEF Finish
  <2>2. \A a \in heap : Leftover(a) \/ a[1] \in attached
    BY <1>1, <2>1, OpenedIs DEF OwnedInv, Running
  <2>3. \A a : Leftover(a) => Leftover(a)'
    BY <1>2, <2>1 DEF Leftover
  <2> QED BY <2>1, <2>2, <2>3, OwnedIsNext DEF Running
<1>12. CASE OutOfMemory
  <2>1. pc = "parse" /\ pc' = "unwind" /\ UNCHANGED <<heap, attached, frames, ret>>
    BY <1>12 DEF OutOfMemory
  <2>2. Opened' = Opened
    BY <1>1, <1>2, <2>1, StackStays
  <2>3. \A a \in heap : Leftover(a) \/ a[1] \in attached \cup Opened
    BY <1>1, <2>1 DEF OwnedInv, Running
  <2> QED BY <1>3, <1>4, <2>1, <2>2, <2>3 DEF Running
<1>13. CASE Crash \/ Hang
  <2>1. pc' \in {"crashed", "hung"}
    BY <1>13 DEF Crash, Hang
  <2> QED BY <2>1, OwnedIsNext DEF Running
<1>14. CASE UNCHANGED vars
  <2>1. UNCHANGED <<heap, attached, frames, ret, pc>>
    BY <1>14 DEF vars
  <2>2. Opened' = Opened
    BY <1>1, <1>2, <2>1, StackStays
  <2> QED BY <1>1, <1>2, <2>1, <2>2 DEF OwnedInv, Running, Leftover, LeftoversKnown
<1> QED BY <1>5, <1>6, <1>7, <1>8, <1>9, <1>10, <1>11, <1>12, <1>13, <1>14, Zenon DEF Next, Ended

-----------------------------------------------------------------------------
(* The context.                                                             *)
Noted(fs) ==
  /\ fs[1].oldnode = Root
  /\ \A n \in 2..Len(fs) : fs[n].oldnode = IF Moves(n - 1) THEN fs[n].path ELSE fs[n - 1].oldnode

(* What is said of the context, with the stack as a parameter.              *)
LEMMA ContextIs ==
  ContextInv <=> context \in Elements /\ Noted(frames) /\ (pc = "parse" => context = Top.oldnode \/ Moves(Len(frames)))
BY DEF ContextInv, Noted

(* The same after a step.                                                   *)
LEMMA ContextIsNext ==
  ASSUME UNCHANGED inputs
  PROVE  ContextInv' <=> /\ context' \in Elements /\ Noted(frames')
                         /\ pc' = "parse" => context' = Top'.oldnode \/ Moves(Len(frames'))
BY DEF ContextInv, Noted, Moves, Elements, inputs

(* The context of a child is its element, or what its parent noted.         *)
LEMMA ContextForChild ==
  ASSUME DocumentInv, StackInv, ContextInv, pc = "parse", Child \in document
  PROVE  /\ ContextFor(Child) \in Elements
         /\ Moves(Len(frames)) => ContextFor(Child) = Child
         /\ ~Moves(Len(frames)) => ContextFor(Child) = context /\ context = Top.oldnode
<1>1. TypeOf(Child) = Chain[resource][Len(frames)] /\ Len(Child) = Len(frames)
  BY ChildIs, TopIs DEF TopFacts
<1>2. ContextFor(Child) = IF Moves(Len(frames)) THEN Child ELSE context
  BY <1>1 DEF ContextFor, Moves
<1>3. ~Moves(Len(frames)) => context = Top.oldnode
  BY DEF ContextInv
<1>4. Child \in Elements /\ context \in Elements
  BY DEF ContextInv, Elements
<1> QED BY <1>2, <1>3, <1>4

(* Every step keeps the contexts that were noted, and comes back to them.   *)
LEMMA ContextKept ==
  ASSUME IInv, [Next]_vars
  PROVE  ContextInv'
<1>1. DocumentInv /\ StackInv /\ StackInv' /\ ContextInv
  BY StackKept DEF IInv
<1>2. UNCHANGED inputs /\ document' = document /\ DocumentInv'
  BY <1>1, InputsStay
<1>3. TopFacts /\ TopFacts' /\ Noted(frames)
  BY <1>1, <1>2, TopIs, TopIsNext, ContextIs
<1>4. Top.oldnode \in Elements
  BY <1>3 DEF TopFacts, Frame
<1>5. CASE Open
  <2> DEFINE n == Len(frames)
             f == [path |-> Child, oldnode |-> context', next |-> 1]
  <2>1. /\ pc = "parse" /\ Child \in document /\ context' = ContextFor(Child)
        /\ frames' = Append(Bumped, f)
    BY <1>5 DEF Open, Bumped
  <2>2. f \in Frame
    BY <1>1, <2>1, ContextForChild, ConstantsAssumption DEF Frame, Elements
  <2>3. Pushed(f)
    BY <1>1, <2>1, <2>2, PushedIs
  <2>4. /\ n \in Nat /\ n > 0 /\ Len(frames') = n + 1
        /\ \A m \in 1..n : frames'[m].path = frames[m].path /\ frames'[m].oldnode = frames[m].oldnode
        /\ frames'[n + 1].path = Child /\ frames'[n + 1].oldnode = context'
    BY <1>3, <2>3 DEF TopFacts, Pushed, StackInv
  <2>5. Top' = frames'[n + 1]
    BY <1>3, <2>4 DEF TopFacts
  <2>6. frames'[n + 1].oldnode = IF Moves(n) THEN Child ELSE frames'[n].oldnode
    <3>1. frames'[n].oldnode = Top.oldnode
      BY <1>3, <2>4 DEF TopFacts
    <3> QED BY <1>1, <2>1, <2>4, <3>1, ContextForChild
  <2> HIDE DEF f, n
  <2>7. \A m \in 2..(n + 1) : frames'[m].oldnode = IF Moves(m - 1) THEN frames'[m].path ELSE frames'[m - 1].oldnode
    <3> SUFFICES ASSUME NEW m \in 2..(n + 1)
                 PROVE  frames'[m].oldnode = IF Moves(m - 1) THEN frames'[m].path ELSE frames'[m - 1].oldnode
      OBVIOUS
    <3>1. CASE m = n + 1
      <4>1. m - 1 = n
        BY <2>4, <3>1
      <4> QED BY <2>4, <2>6, <3>1, <4>1
    <3>2. CASE m # n + 1
      <4>1. m \in 2..n /\ m \in 1..n /\ m - 1 \in 1..n
        BY <2>4, <3>2
      <4>2. frames[m].oldnode = IF Moves(m - 1) THEN frames[m].path ELSE frames[m - 1].oldnode
        BY <1>3, <4>1 DEF Noted, n
      <4> QED BY <2>4, <4>1, <4>2
    <3> QED BY <3>1, <3>2
  <2>8. frames'[1].oldnode = Root
    <3>1. 1 \in 1..n
      BY <2>4
    <3> QED BY <1>3, <2>4, <3>1 DEF Noted
  <2>9. Noted(frames')
    BY <2>4, <2>7, <2>8 DEF Noted
  <2> QED BY <1>1, <1>2, <2>1, <2>4, <2>5, <2>9, ContextForChild, ContextIsNext
<1>6. CASE LeaveOut
  <2>1. pc = "parse" /\ Child \in document /\ context' = ContextFor(Child) /\ frames' = Bumped
    BY <1>6 DEF LeaveOut, Bumped
  <2>2. /\ Len(frames') = Len(frames) /\ Len(frames) \in Nat /\ Len(frames) \in 1..Len(frames)
        /\ \A m \in 1..Len(frames) : frames'[m].path = frames[m].path /\ frames'[m].oldnode = frames[m].oldnode
    BY <1>1, <1>3, <2>1, BumpedIs DEF TopFacts, StackInv
  <2>3. Noted(frames')
    <3>1. 1 \in 1..Len(frames) /\ \A m \in 2..Len(frames) : m \in 1..Len(frames) /\ m - 1 \in 1..Len(frames)
      BY <2>2
    <3> QED BY <1>3, <2>2, <3>1 DEF Noted
  <2>4. Top'.oldnode = Top.oldnode
    BY <1>3, <2>2 DEF TopFacts
  <2> QED BY <1>1, <1>2, <2>1, <2>2, <2>3, <2>4, ContextForChild, ContextIsNext
<1>7. CASE Close \/ CloseWithoutList \/ Unwind
  <2> DEFINE n == Len(frames)
  <2>1. frames' = Front(frames) /\ n > 1 /\ context' = Top.oldnode
    BY <1>7 DEF Close, CloseWithoutList, AddToList, Unwind
  <2>2. Popped
    BY <1>1, <2>1, PoppedIs
  <2>3. /\ n \in Nat /\ Len(frames') = n - 1 /\ n \in 2..n /\ n - 1 \in 1..(n - 1)
        /\ \A m \in 1..(n - 1) : frames'[m] = frames[m]
    BY <1>3, <2>1, <2>2 DEF Popped, TopFacts
  <2>4. Top' = frames[n - 1] /\ Top = frames[n]
    BY <1>3, <2>3 DEF TopFacts
  <2>5. Top.oldnode = Top'.oldnode \/ Moves(n - 1)
    BY <1>3, <2>3, <2>4 DEF Noted
  <2>6. Noted(frames')
    <3>1. 1 \in 1..(n - 1) /\ \A m \in 2..(n - 1) : m \in 2..n /\ m \in 1..(n - 1) /\ m - 1 \in 1..(n - 1)
      BY <2>3
    <3> QED BY <1>3, <2>3, <3>1 DEF Noted
  <2> QED BY <1>2, <1>4, <2>1, <2>3, <2>5, <2>6, ContextIsNext
<1>8. CASE UNCHANGED frames /\ context' \in Elements /\ pc' # "parse"
  BY <1>2, <1>3, <1>8, ContextIsNext
<1>9. CASE OutOfMemory
  BY <1>1, <1>8, <1>9, ContextForChild DEF OutOfMemory
<1>10. CASE Finish \/ UnwindList \/ Crash \/ Hang \/ FreeResult
  <2>1. UNCHANGED frames /\ context' \in {context, Top.oldnode} /\ pc' # "parse"
    BY <1>10 DEF Finish, UnwindList, Crash, Hang, FreeResult
  <2> QED BY <1>1, <1>4, <1>8, <2>1, ContextIs
<1>11. CASE UNCHANGED vars
  <2>1. UNCHANGED <<frames, context, pc>> /\ Top' = Top
    BY <1>11 DEF vars, Top
  <2> QED BY <1>1, <1>2, <2>1, ContextIs, ContextIsNext DEF Elements
<1> QED BY <1>5, <1>6, <1>7, <1>9, <1>10, <1>11, Zenon DEF Next, Ended

-----------------------------------------------------------------------------
(* The fields.                                                              *)

(* Where the fields of p may come from.                                     *)
Near(r, p) == IF r \in Borrowing THEN {p, Front(p), Append(Front(p), 1)} ELSE {p}

(* Where the fields of a child are found.                                   *)
LEMMA SourceNear ==
  ASSUME IInv, Open
  PROVE  SourceOf(Child, context') \in Near(resource, Child) \cap Elements
<1> DEFINE n == Len(frames)
           t == Chain[resource][n]
<1>1. DocumentInv /\ StackInv /\ ContextInv /\ TopFacts
  BY TopIs DEF IInv
<1>2. pc = "parse" /\ Child \in document /\ context' = ContextFor(Child)
  BY DEF Open
<1>3. /\ TypeOf(Child) = t /\ n \in DOMAIN Chain[resource] /\ resource \in DOMAIN Chain /\ n \in Nat
      /\ Front(Child) = Top.path
  BY <1>1, <1>2, ChildIs, DocumentPaths DEF TopFacts
<1>4. TypeFacts(resource, n)
  BY <1>3, Table
<1>5. Child \in Elements /\ Top.path \in Elements
  BY <1>1, <1>2 DEF TopFacts, Frame, Elements
<1>6. CASE t.reads = "element"
  <2>1. SourceOf(Child, context') = Child
    BY <1>3, <1>6 DEF SourceOf
  <2> QED BY <1>5, <2>1 DEF Near
<1>7. CASE t.reads = "first"
  <2>1. SourceOf(Child, context') = Append(Front(Child), 1)
    BY <1>3, <1>7 DEF SourceOf
  <2>2. Append(Front(Child), 1) \in document
    <3>1. 1 \in 1..Last(Child)
      BY <1>1, <1>2, ChildIs DEF TopFacts
    <3> QED BY <1>1, <1>2, <3>1, BesideInDocument
  <2>3. resource \in Borrowing
    BY <1>4, <1>7 DEF TypeFacts
  <2> QED BY <2>1, <2>2, <2>3 DEF Near, Elements
<1>8. CASE t.reads = "context"
  <2>1. SourceOf(Child, context') = context'
    BY <1>3, <1>8 DEF SourceOf
  <2>2. CASE Moves(n)
    BY <1>1, <1>2, <1>5, <2>1, <2>2, ContextForChild DEF Near
  <2>3. CASE ~Moves(n)
    <3>1. ~t.moves /\ ~(single /\ n = 1)
      BY <2>3 DEF Moves
    <3>2. resource \in Borrowing /\ n = 2 /\ Chain[resource][1].moves
      BY <1>1, <1>4, <1>8, <3>1 DEF TypeFacts, DocumentInv
    <3>3. Moves(1)
      BY <3>2 DEF Moves
    <3>4. frames[2].oldnode = frames[2].path
      <4>1. 2 \in 2..Len(frames) /\ 2 - 1 = 1
        BY <3>2
      <4> QED BY <1>1, <3>3, <4>1, ContextIs DEF Noted
    <3>5. context' = Top.path
      <4>1. context' = Top.oldnode
        BY <1>1, <1>2, <2>3, ContextForChild
      <4> QED BY <1>1, <3>2, <3>4, <4>1 DEF TopFacts
    <3> QED BY <1>3, <1>5, <2>1, <3>2, <3>5 DEF Near
  <2> QED BY <2>2, <2>3
<1> QED BY <1>4, <1>6, <1>7, <1>8 DEF TypeFacts

(* What is said of the fields, element by element.                          *)
LEMMA FieldsAre ==
  FieldsInv <=> /\ DOMAIN fields \subseteq document
                /\ \A p \in DOMAIN fields : fields[p] \in Near(resource, p) \cap Elements
BY DEF FieldsInv, FieldsNearby, Near, Range

(* The same after a step.                                                   *)
LEMMA FieldsAreNext ==
  ASSUME UNCHANGED inputs
  PROVE  FieldsInv' <=> /\ DOMAIN fields' \subseteq document
                        /\ \A p \in DOMAIN fields' : fields'[p] \in Near(resource, p) \cap Elements
BY DEF FieldsInv, FieldsNearby, Near, Range, Elements, inputs

(* Every step keeps the fields near.                                        *)
LEMMA FieldsKept ==
  ASSUME IInv, [Next]_vars
  PROVE  FieldsInv'
<1>1. DocumentInv /\ FieldsInv
  BY DEF IInv
<1>2. UNCHANGED inputs
  BY <1>1, InputsStay
<1>3. CASE Open
  <2>1. /\ Child \in document
        /\ fields' = [p \in DOMAIN fields \cup {Child} |-> IF p = Child THEN SourceOf(p, context') ELSE fields[p]]
    BY <1>3 DEF Open
  <2>2. SourceOf(Child, context') \in Near(resource, Child) \cap Elements
    BY <1>3, SourceNear
  <2>3. DOMAIN fields' = DOMAIN fields \cup {Child}
    BY <2>1
  <2>4. \A p \in DOMAIN fields' : fields'[p] = IF p = Child THEN SourceOf(Child, context') ELSE fields[p]
    BY <2>1
  <2> QED BY <1>1, <1>2, <2>1, <2>2, <2>3, <2>4, FieldsAre, FieldsAreNext
<1>4. CASE fields' = fields
  BY <1>1, <1>2, <1>4, FieldsAre, FieldsAreNext
<1>5. Open \/ fields' = fields
  BY Zenon DEF Next, OutOfMemory, LeaveOut, Crash, Hang, Close, CloseWithoutList, AddToList, Finish, Unwind,
              UnwindList, FreeResult, Ended, vars
<1> QED BY <1>3, <1>4, <1>5

-----------------------------------------------------------------------------
(* The outcome.                                                             *)

(* Only memory for metrics is used untested, and only a list of samples may *)
(* never end.                                                               *)
LEMMA CrashIsOfMetrics ==
  ASSUME IInv, Crash \/ Hang
  PROVE  resource = "metrics"
<1>1. DocumentInv /\ StackInv
  BY DEF IInv
<1>2. CASE Child \in document /\ ~TypeOf(Child).tested
  <2>1. TypeOf(Child) = Chain[resource][Len(frames)] /\ Len(frames) \in DOMAIN Chain[resource] /\ resource \in DOMAIN Chain
    BY <1>1, <1>2, ChildIs, DocumentPaths
  <2>2. TypeFacts(resource, Len(frames))
    BY <2>1, Table
  <2> QED BY <1>2, <2>1, <2>2 DEF TypeFacts
<1> QED BY <1>2 DEF Crash, Hang

(* Every step keeps what a parse returns.                                   *)
LEMMA OutcomeKept ==
  ASSUME IInv, [Next]_vars
  PROVE  OutcomeInv'
<1>1. DocumentInv /\ OutcomeInv /\ pc \in {"parse", "unwind", "done", "freed", "crashed", "hung"}
  BY DEF IInv, OutcomeInv
<1>2. resource' = resource
  BY <1>1, InputsStay
<1>3. CASE Open \/ LeaveOut \/ Close \/ CloseWithoutList
  <2>1. pc = "parse" /\ pc' = "parse" /\ ret' = ret /\ error' = error
    BY <1>3 DEF Open, LeaveOut, Close, CloseWithoutList, AddToList
  <2> QED BY <1>1, <2>1 DEF OutcomeInv
<1>4. CASE OutOfMemory
  <2>1. pc = "parse" /\ pc' = "unwind" /\ ret' = ret /\ error' = "OOM"
    BY <1>4 DEF OutOfMemory
  <2> QED BY <1>1, <2>1 DEF OutcomeInv
<1>5. CASE Crash \/ Hang
  <2>1. pc = "parse" /\ pc' \in {"crashed", "hung"} /\ ret' = ret /\ error' = error
    BY <1>5 DEF Crash, Hang
  <2> QED BY <1>1, <1>2, <1>5, <2>1, CrashIsOfMetrics DEF OutcomeInv
<1>6. CASE Finish
  <2>1. pc = "parse" /\ pc' = "done" /\ ret' = 0 /\ error' = error
    BY <1>6 DEF Finish
  <2> QED BY <1>1, <2>1 DEF OutcomeInv
<1>7. CASE Unwind
  <2>1. pc = "unwind" /\ pc' = "unwind" /\ ret' = ret /\ error' = error
    BY <1>7 DEF Unwind
  <2> QED BY <1>1, <2>1 DEF OutcomeInv
<1>8. CASE UnwindList
  <2>1. pc = "unwind" /\ pc' = "done" /\ ret' = ret /\ error' = error /\ attached' = attached \ Reached(Root)
    BY <1>8 DEF UnwindList
  <2>2. Reached(Root)' = {}
    <3>1. Reached(Root)' \subseteq attached' /\ Reached(Root)' \subseteq Reached(Root)
      BY <2>1 DEF Reached, Root
    <3> QED BY <2>1, <3>1
  <2> QED BY <1>1, <2>1, <2>2 DEF OutcomeInv
<1>9. CASE FreeResult
  <2>1. pc = "done" /\ pc' = "freed" /\ ret = 0 /\ ret' = ret /\ error' = error
    BY <1>9 DEF FreeResult
  <2> QED BY <1>1, <2>1 DEF OutcomeInv
<1>10. CASE UNCHANGED vars
  <2>1. UNCHANGED <<pc, resource, attached, ret, error>>
    BY <1>10 DEF vars
  <2> QED BY <1>1, <2>1 DEF OutcomeInv, Reached
<1> QED BY <1>3, <1>4, <1>5, <1>6, <1>7, <1>8, <1>9, <1>10, Zenon DEF Next, Ended

-----------------------------------------------------------------------------
(* A parse starts with nothing made, linked or passed.                      *)
LEMMA InitInv ==
  ASSUME Init
  PROVE  IInv
<1> DEFINE f == [path |-> Root, oldnode |-> Root, next |-> 1]
<1>1. frames = <<f>> /\ context = Root /\ heap = {} /\ attached = {} /\ fields = <<>> /\ pc = "parse" /\ ret = -1 /\ error = None
  BY DEF Init
<1>2. DocumentInv
  <2>1. resource \in Resources /\ single \in Singles(resource) /\ document \in Documents[resource]
    BY DEF Init
  <2>2. single \in BOOLEAN /\ (resource = "blobs" => single)
    BY <2>1 DEF Singles
  <2> QED BY <2>1, <2>2 DEF DocumentInv
<1>3. f \in Frame
  BY ConstantsAssumption DEF Frame, Elements
<1>4. f.path = Root /\ f.oldnode = Root
  OBVIOUS
<1> HIDE DEF f
<1>5. frames \in Seq(Frame) /\ Len(frames) = 1 /\ frames[1] = f
  BY <1>1, <1>3
<1>6. StackInv
  <2>1. \A n \in 1..Len(frames) : n = 1
    BY <1>5
  <2>2. \A n \in 2..Len(frames) : FALSE
    BY <1>5
  <2>3. Within(Root, Root)
    BY RootIs, WithinItself
  <2>4. Nested(frames)
    BY <1>4, <1>5, <2>1, <2>2, <2>3, RootIs DEF Nested
  <2> QED BY <1>5, <2>4 DEF StackInv
<1>7. Top = f
  BY <1>2, <1>5, <1>6, TopIs DEF TopFacts
<1>8. Opened = {}
  BY <1>5 DEF Opened
<1>9. LinkedInv
  <2>1. ASSUME NEW q \in document PROVE ~Before(q, Child)
    <3>1. Child = Append(Root, 1)
      BY <1>7 DEF Child, f
    <3>2. q \in Seq(1..Width) /\ q \in Seq(Nat)
      BY <1>2, DocumentPaths
    <3>3. ~Before(q, Root)
      BY RootIs DEF Before
    <3> QED BY <3>1, <3>2, <3>3, BeforeFirst, RootIs
  <2> QED BY <1>1, <2>1 DEF LinkedInv
<1>10. UnwindInv /\ HeapInv
  BY <1>1, <1>8 DEF UnwindInv, HeapInv
<1>11. OwnedInv
  BY <1>1 DEF OwnedInv, LeftoversKnown
<1>12. ContextInv
  <2>1. \A n \in 2..Len(frames) : FALSE
    BY <1>5
  <2> QED BY <1>1, <1>4, <1>5, <1>7, <2>1 DEF ContextInv, Elements
<1>13. FieldsInv
  <2>1. DOMAIN fields = {}
    BY <1>1
  <2> QED BY <2>1, FieldsAre
<1>14. OutcomeInv
  BY <1>1 DEF OutcomeInv
<1> QED BY <1>2, <1>6, <1>9, <1>10, <1>11, <1>12, <1>13, <1>14 DEF IInv

(* The invariant that everything below is read from.                        *)
THEOREM Invariance == Spec => []IInv
<1>1. Init => IInv
  BY InitInv
<1>2. IInv /\ [Next]_vars => IInv'
  <2> SUFFICES ASSUME IInv, [Next]_vars PROVE IInv'
    OBVIOUS
  <2>1. DocumentInv'
    BY InputsStay DEF IInv
  <2> QED BY <2>1, StackKept, LinkedKept, UnwindInvKept, HeapKept, OwnedKept, ContextKept, FieldsKept, OutcomeKept
          DEF IInv
<1> QED BY <1>1, <1>2, PTL DEF Spec

(* The parsers under way are nested as the elements they parse, and nothing *)
(* is made, linked or read but of elements of the document.                 *)
THEOREM TypeCorrect == Spec => []TypeOK
<1>1. IInv => TypeOK
  <2> SUFFICES ASSUME IInv PROVE TypeOK
    OBVIOUS
  <2>1. DocumentInv /\ StackInv /\ LinkedInv /\ HeapInv /\ ContextInv /\ FieldsInv /\ OutcomeInv
    BY DEF IInv
  <2>2. ASSUME NEW n \in DOMAIN frames
        PROVE  /\ frames[n].path \in Elements /\ Len(frames[n].path) = n - 1
               /\ frames[n].oldnode \in Elements
               /\ frames[n].next \in 1..(Width + 1)
               /\ n > 1 => frames[n - 1].path = Front(frames[n].path)
    <3>1. n \in 1..Len(frames) /\ Len(frames) \in Nat
      BY <2>1 DEF StackInv
    <3>2. \A m \in 1..Len(frames) : /\ frames[m].path \in Elements /\ frames[m].oldnode \in Elements
                                   /\ frames[m].next \in 1..(Width + 1)
      <4>1. \A m \in 1..Len(frames) : frames[m] \in Frame
        BY <2>1, ElementOfSeq DEF StackInv
      <4> QED BY <4>1 DEF Frame
    <3>3. Len(frames[n].path) = n - 1
      BY <2>1, <3>1 DEF StackInv, Nested
    <3>4. ASSUME n > 1 PROVE frames[n - 1].path = Front(frames[n].path)
      <4>1. n \in 2..Len(frames) /\ n - 1 \in 1..Len(frames)
        BY <3>1, <3>4
      <4>2. frames[n].path = Append(frames[n - 1].path, frames[n - 1].next - 1)
        BY <2>1, <4>1 DEF StackInv, Nested
      <4>3. frames[n - 1].path \in Seq(Nat)
        BY <2>1, <3>2, <4>1, ElementPaths
      <4>4. frames[n - 1].next - 1 \in Nat
        <5>1. frames[n - 1].next \in 1..(Width + 1)
          BY <3>2, <4>1
        <5> QED BY <5>1, ConstantsAssumption
      <4> QED BY <4>2, <4>3, <4>4, AppendIs
    <3> QED BY <3>1, <3>2, <3>3, <3>4
  <2>3. ret \in {-1, 0} /\ error \in {None, "OOM"} /\ pc \in {"parse", "unwind", "done", "freed", "crashed", "hung"}
    BY <2>1 DEF OutcomeInv
  <2>4. resource \in Resources /\ single \in BOOLEAN /\ document \in Documents[resource]
    BY <2>1 DEF DocumentInv
  <2>5. context \in Elements /\ heap \subseteq document \X Parts /\ attached \subseteq document
        /\ DOMAIN fields \subseteq document /\ Range(fields) \subseteq Elements
    BY <2>1 DEF ContextInv, HeapInv, LinkedInv, FieldsInv
  <2> QED BY <2>2, <2>3, <2>4, <2>5 DEF TypeOK
<1> QED BY <1>1, Invariance, PTL

(* All or nothing, however wide the document is: a parser that returns 0    *)
(* has made and linked the structure of every element, but for addresses,   *)
(* samples without children and, of an instance or a load balancer, the     *)
(* whole of a list; one that returns -1 leaves an empty list and an error.  *)
THEOREM ResultWholeAlways == Spec => []ResultWhole
<1>1. IInv => ResultWhole
  <2> SUFFICES ASSUME IInv PROVE ResultWhole
    OBVIOUS
  <2>1. LinkedInv /\ OutcomeInv
    BY DEF IInv
  <2>2. None # "OOM"
    BY ConstantsAssumption
  <2>3. CASE pc = "done" /\ ret = 0
    BY <2>1, <2>3 DEF ResultWhole, OutcomeInv, LinkedInv
  <2>4. CASE pc = "done" /\ ret # 0
    BY <2>1, <2>2, <2>4 DEF ResultWhole, OutcomeInv
  <2>5. CASE pc # "done"
    BY <2>1, <2>5 DEF ResultWhole, OutcomeInv
  <2> QED BY <2>3, <2>4, <2>5
<1> QED BY <1>1, Invariance, PTL

(* Wherever a parser fails, nothing it freed can be reached from the list   *)
(* that goes on living.                                                     *)
THEOREM NothingDanglingAlways == Spec => []NothingDangling
<1>1. IInv => NothingDangling
  <2> SUFFICES ASSUME IInv PROVE NothingDangling
    OBVIOUS
  <2>1. \A p \in attached : Allocated(p)
    BY DEF IInv, HeapInv
  <2>2. Reached(Root) \subseteq attached
    BY DEF Reached
  <2> QED BY <2>1, <2>2 DEF NothingDangling, Allocated
<1> QED BY <1>1, Invariance, PTL

(* The context is put back: the fields of a structure are those of its own  *)
(* element, or, for four resources, of its parent or first sibling.         *)
THEOREM FieldsNearbyAlways == Spec => []FieldsNearby
<1>1. IInv => FieldsNearby
  BY DEF IInv, FieldsInv
<1> QED BY <1>1, Invariance, PTL

(* What is left allocated when a parse has ended and its result was freed   *)
(* are the known leftovers.                                                 *)
THEOREM LeftoversKnownAlways == Spec => []LeftoversKnown
<1>1. IInv => LeftoversKnown
  BY DEF IInv, OwnedInv
<1> QED BY <1>1, Invariance, PTL
=============================================================================
