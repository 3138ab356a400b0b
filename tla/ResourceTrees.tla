--------------------------- MODULE ResourceTrees ---------------------------
(***************************************************************************)
(* The parsers that turn an answer of the server into the structures the   *)
(* client gets, and the functions that free these: internal_xml_parse()    *)
(* calls the parser of a list, which calls the one of an item for each     *)
(* element, which calls the one of its children.  All of them have one     *)
(* shape: move the XPath context, calloc, read the fields, parse the       *)
(* children, add_to_list; and differ in the few ways a type records.       *)
(*                                                                         *)
(* An element is its path in the document: <<2, 1>> is the first child of  *)
(* the second item, <<>> the root.  The structure made of an element is    *)
(* called by the element's path.  A document has the children of one kind  *)
(* at each level, the kinds being those of the resource.  link_features is *)
(* the list of instances of one load balancer, whose links have features.  *)
(***************************************************************************)
EXTENDS Integers, SequencesExt

CONSTANTS
  Resources, \* the kinds of document
  Width,     \* bound on the children of an element
  None

-----------------------------------------------------------------------------
(* A type of structure: whether ctxt->node is moved to its element before   *)
(* its fields are read; whether these are read relative to ctxt->node       *)
(* ("context"), as attributes of the element ("element") or by a path that  *)
(* starts at the parent ("first"); whether what it holds is freed when one  *)
(* of its children fails; whether some of what it allocates is never freed; *)
(* whether it is a field of its parent itself; whether its allocation is    *)
(* tested; whether it may be left out of its list when it has no children;  *)
(* and whether its own lists are left out when they are not found: where    *)
(* xmlXPathEval() fails, or does not find exactly one.                      *)
Item == [moves |-> TRUE, reads |-> "context", frees |-> TRUE, forgets |-> FALSE,
         embedded |-> FALSE, tested |-> TRUE, mayBeLeftOut |-> FALSE, mayLoseLists |-> FALSE]
Attributes == [Item EXCEPT !.moves = FALSE, !.reads = "element"]

Firewall == Item
Rule == [Item EXCEPT !.frees = FALSE]
Source == Item
Bucket == Item
Blob == [Item EXCEPT !.moves = FALSE]
Entry == Item
LoadBalancer == [Item EXCEPT !.mayLoseLists = TRUE]
Listener == [Item EXCEPT !.moves = FALSE, !.reads = "first"]
LbInstance == Attributes
Link == Attributes
Feature == Attributes
Instance == [Item EXCEPT !.forgets = TRUE, !.mayLoseLists = TRUE]
Profile == Item
InstanceProfile == [Item EXCEPT !.moves = FALSE, !.embedded = TRUE]
Property == Attributes
Param == Attributes
Action == Attributes
Address == [Item EXCEPT !.moves = FALSE, !.reads = "first", !.mayBeLeftOut = TRUE]
Driver == Item
Provider == Attributes
State == Attributes
Transition == Attributes
Image == Item
Key == Item
Realm == Item
Volume == Item
Snapshot == Item
Metric == [Item EXCEPT !.reads = "element", !.tested = FALSE]
Sample == [Metric EXCEPT !.mayBeLeftOut = TRUE]
SampleProperty == [Metric EXCEPT !.embedded = TRUE, !.forgets = TRUE]

Chain ==
  [firewalls         |-> <<Firewall, Rule, Source>>,
   buckets           |-> <<Bucket, Blob, Entry>>,
   blobs             |-> <<Blob, Entry>>,
   listeners         |-> <<LoadBalancer, Listener>>,
   lb_instances      |-> <<LoadBalancer, LbInstance, Link>>,
   link_features     |-> <<LbInstance, Link, Feature>>,
   actions           |-> <<Instance, Action>>,
   addresses         |-> <<Instance, Address>>,
   instance_profiles |-> <<Instance, InstanceProfile, Property>>,
   hardware_profiles |-> <<Profile, Property, Param>>,
   drivers           |-> <<Driver, Provider>>,
   instance_states   |-> <<State, Transition>>,
   metrics           |-> <<Metric, Sample, SampleProperty>>,
   images |-> <<Image>>, keys |-> <<Key>>, realms |-> <<Realm>>,
   storage_volumes |-> <<Volume>>, storage_snapshots |-> <<Snapshot>>]

ASSUME ConstantsAssumption ==
  /\ Resources \subseteq DOMAIN Chain
  /\ Width \in Nat
  /\ None # "OOM"

\* Whether an answer is a single item, for a lookup by id.
Singles(r) ==
  CASE r = "blobs" -> {TRUE}
    [] r \in {"instance_states", "link_features", "metrics"} -> {FALSE}
    [] OTHER -> BOOLEAN

Paths(n) == UNION {[1..k -> 1..Width] : k \in 1..n}

IsDocument(d, types) ==
  \A p \in d :
    /\ Len(p) > 1 => Front(p) \in d
    /\ Last(p) > 1 => /\ ~types[Len(p)].embedded
                      /\ [p EXCEPT ![Len(p)] = @ - 1] \in d

Documents ==
  [r \in Resources |-> {d \in SUBSET Paths(Len(Chain[r])) : IsDocument(d, Chain[r])}]

-----------------------------------------------------------------------------
VARIABLES
  pc,
  resource, \* what is parsed
  single,   \* one item, for a lookup by id, or a list of them
  document, \* the elements of the answer
  frames,   \* the calls of parsers under way
  context,  \* ctxt->node
  heap,     \* the allocations: <<structure, part>>
  attached, \* the structures added to the list of their parent
  fields,   \* the element the fields of a structure were read from
  ret, error

vars == <<pc, resource, single, document, frames, context, heap, attached, fields, ret, error>>
inputs == <<resource, single, document>>

TypeOf(p) == Chain[resource][Len(p)]
Root == <<>>
Elements == document \cup {Root}
Parts == {"struct", "fields", "forgotten"}

(* The types; in particular the parsers under way are nested as the         *)
(* elements are.                                                            *)
TypeOK ==
  /\ pc \in {"parse", "unwind", "done", "freed", "crashed", "hung"}
  /\ resource \in Resources /\ single \in BOOLEAN
  /\ document \in Documents[resource]
  /\ \A n \in DOMAIN frames :
       /\ frames[n].path \in Elements /\ Len(frames[n].path) = n - 1
       /\ frames[n].oldnode \in Elements
       /\ frames[n].next \in 1..(Width + 1)
       /\ n > 1 => frames[n - 1].path = Front(frames[n].path)
  /\ context \in Elements
  /\ heap \subseteq document \X Parts
  /\ attached \subseteq document
  /\ DOMAIN fields \subseteq document /\ Range(fields) \subseteq Elements
  /\ ret \in {-1, 0}
  /\ error \in {None, "OOM"}

Init ==
  /\ pc = "parse"
  /\ resource \in Resources
  /\ single \in Singles(resource)
  /\ document \in {d \in Documents[resource] : single => <<1>> \in d /\ <<2>> \notin d}
  /\ frames = <<[path |-> Root, oldnode |-> Root, next |-> 1]>>
  /\ context = Root
  /\ heap = {}
  /\ attached = {}
  /\ fields = <<>>
  /\ ret = -1
  /\ error = None

Top == Last(frames)
Child == Append(Top.path, Top.next)

\* A structure that is there already: the client's, or a field of the parent.
Provided(p) == TypeOf(p).embedded \/ (single /\ Len(p) = 1)

Allocations(p) ==
  {p} \X ({"fields"} \cup (IF Provided(p) THEN {} ELSE {"struct"})
                     \cup (IF TypeOf(p).forgets THEN {"forgotten"} ELSE {}))

\* Where getXPathString() or xmlGetProp() find the fields of p.
SourceOf(p, node) ==
  CASE TypeOf(p).reads = "context" -> node
    [] TypeOf(p).reads = "element" -> p
    [] TypeOf(p).reads = "first"   -> Append(Front(p), 1)

\* A single item is the root element, where the context starts.
ContextFor(p) == IF TypeOf(p).moves \/ (single /\ Len(p) = 1) THEN p ELSE context

\* What is reached from p through the lists, and freed with what p holds.
Reached(p) ==
  {q \in attached : /\ IsStrictPrefix(p, q)
                    /\ \A n \in (Len(p) + 1)..Len(q) : SubSeq(q, 1, n) \in attached}

Contents(p) == (Reached(p) \X {"struct", "fields"}) \cup {<<p, "fields">>}

-----------------------------------------------------------------------------
\* Mutant: the structure is added to the list before its children are parsed.
OpenAttaching ==
  /\ pc = "parse"
  /\ Child \in document
  /\ context' = ContextFor(Child)
  /\ fields' = [p \in DOMAIN fields \cup {Child} |-> IF p = Child THEN SourceOf(p, context') ELSE fields[p]]
  /\ heap' = heap \cup Allocations(Child)
  /\ attached' = attached \cup {Child}
  /\ frames' = Append([frames EXCEPT ![Len(frames)].next = @ + 1],
                      [path |-> Child, oldnode |-> context', next |-> 1])
  /\ UNCHANGED <<pc, inputs, ret, error>>

(* The next child: the context is moved, the structure allocated, its       *)
(* fields read, and its own parser entered, which notes the context.        *)
Open ==
  /\ pc = "parse"
  /\ Child \in document
  /\ context' = ContextFor(Child)
  /\ fields' = [p \in DOMAIN fields \cup {Child} |-> IF p = Child THEN SourceOf(p, context') ELSE fields[p]]
  /\ heap' = heap \cup Allocations(Child)
  /\ frames' = Append([frames EXCEPT ![Len(frames)].next = @ + 1],
                      [path |-> Child, oldnode |-> context', next |-> 1])
  /\ UNCHANGED <<pc, inputs, attached, ret, error>>

\* calloc() fails for the next child.
OutOfMemory ==
  /\ pc = "parse"
  /\ Child \in document
  /\ ~Provided(Child)
  /\ TypeOf(Child).tested
  /\ context' = ContextFor(Child)
  /\ pc' = "unwind"
  /\ error' = "OOM"
  /\ UNCHANGED <<inputs, frames, heap, attached, fields, ret>>

Childless(p) == Append(p, 1) \notin document

(* An address whose text is empty, or could not be copied, is skipped.  And *)
(* a sample without children: <sample/> loses its structure, and whether it *)
(* has one or calloc() failed, it is NULL that add_to_list() appends.       *)
LeaveOut ==
  /\ pc = "parse"
  /\ Child \in document
  /\ TypeOf(Child).mayBeLeftOut /\ Childless(Child)
  /\ heap' \in {heap} \cup IF TypeOf(Child).tested THEN {} ELSE {heap \cup {<<Child, "struct">>}}
  /\ context' = ContextFor(Child)
  /\ frames' = [frames EXCEPT ![Len(frames)].next = @ + 1]
  /\ UNCHANGED <<pc, inputs, attached, fields, ret, error>>

(* The parsers of metrics dereference what calloc() returned, compare the   *)
(* name of a property that has none, and follow four pointers from the root *)
(* without looking whether there is a node.                                 *)
Crash ==
  /\ pc = "parse"
  /\ \/ /\ Child \in document /\ ~TypeOf(Child).tested
        /\ ~(TypeOf(Child).mayBeLeftOut /\ Childless(Child))
     \/ resource = "metrics" /\ document = {}
  /\ pc' = "crashed"
  /\ UNCHANGED <<inputs, frames, context, heap, attached, fields, ret, error>>

(* The loop over the samples goes on to the next node only if the node has  *)
(* a name, which a CDATA section in libxml2 does not.                       *)
Hang ==
  /\ pc = "parse"
  /\ resource = "metrics" /\ Len(frames) = 2
  /\ pc' = "hung"
  /\ UNCHANGED <<inputs, frames, context, heap, attached, fields, ret, error>>

\* Mutant: the context is not put back.
CloseKeepingContext ==
  /\ pc = "parse"
  /\ Child \notin document
  /\ Len(frames) > 1
  /\ attached' = attached \cup {Top.path}
  /\ frames' = Front(frames)
  /\ UNCHANGED <<pc, inputs, context, heap, fields, ret, error>>

\* A parser returns and add_to_list() follows.
AddToList ==
  /\ context' = Top.oldnode
  /\ attached' = attached \cup {Top.path}
  /\ frames' = Front(frames)
  /\ UNCHANGED <<pc, inputs, heap, fields, ret, error>>

\* The children are done.
Close ==
  /\ pc = "parse"
  /\ Child \notin document
  /\ Len(frames) > 1
  /\ AddToList

\* There are children, but the parser of their list is not called.
CloseWithoutList ==
  /\ pc = "parse"
  /\ Child \in document /\ Top.next = 1
  /\ Len(frames) > 1
  /\ TypeOf(Top.path).mayLoseLists
  /\ AddToList

\* Mutant: the parser returns how much it parsed.
FinishCounting ==
  /\ pc = "parse"
  /\ Child \notin document
  /\ Len(frames) = 1
  /\ context' = Top.oldnode
  /\ ret' = Top.next - 1
  /\ pc' = "done"
  /\ UNCHANGED <<inputs, frames, heap, attached, fields, error>>

\* Mutant: the end of a level is taken for the end of the answer.
FinishEarly ==
  /\ pc = "parse"
  /\ Child \notin document
  /\ context' = Top.oldnode
  /\ ret' = 0
  /\ pc' = "done"
  /\ UNCHANGED <<inputs, frames, heap, attached, fields, error>>

\* The parser of the list, or of the single item, is through.
Finish ==
  /\ pc = "parse"
  /\ Child \notin document
  /\ Len(frames) = 1
  /\ context' = Top.oldnode
  /\ ret' = 0
  /\ pc' = "done"
  /\ UNCHANGED <<inputs, frames, heap, attached, fields, error>>

\* Mutant: the caller of a parser that failed frees nothing.
UnwindKeeping ==
  /\ pc = "unwind"
  /\ Len(frames) > 1
  /\ context' = Top.oldnode
  /\ frames' = Front(frames)
  /\ UNCHANGED <<pc, inputs, heap, attached, fields, ret, error>>

(* A parser whose child failed: it, or its caller, frees what its structure *)
(* holds, if this is a type they do that for; its caller frees the          *)
(* structure and fails in its turn.                                         *)
Unwind ==
  /\ pc = "unwind"
  /\ Len(frames) > 1
  /\ LET p == Top.path IN
     /\ heap' = heap \ ({<<p, "struct">>} \cup IF TypeOf(p).frees THEN Contents(p) ELSE {})
     /\ attached' = attached \ IF TypeOf(p).frees THEN Reached(p) ELSE {}
  /\ context' = Top.oldnode
  /\ frames' = Front(frames)
  /\ UNCHANGED <<pc, inputs, fields, ret, error>>

\* The parser of the list frees the list; a single item is the client's.
UnwindList ==
  /\ pc = "unwind"
  /\ Len(frames) = 1
  /\ heap' = heap \ Contents(Root)
  /\ attached' = attached \ Reached(Root)
  /\ context' = Top.oldnode
  /\ pc' = "done"
  /\ UNCHANGED <<inputs, frames, fields, ret, error>>

\* The client frees what it was given.
FreeResult ==
  /\ pc = "done"
  /\ ret = 0
  /\ heap' = heap \ Contents(Root)
  /\ attached' = attached \ Reached(Root)
  /\ pc' = "freed"
  /\ UNCHANGED <<inputs, frames, context, fields, ret, error>>

Ended ==
  /\ pc \in {"freed", "crashed", "hung"} \/ (pc = "done" /\ ret = -1)
  /\ UNCHANGED vars

Next ==
  \/ Open \/ OutOfMemory \/ LeaveOut \/ Crash \/ Hang \/ Close \/ CloseWithoutList \/ Finish
  \/ Unwind \/ UnwindList \/ FreeResult \/ Ended

Spec == Init /\ [][Next]_vars

-----------------------------------------------------------------------------
(* What may be left out of a list whose parser returns 0: addresses, and    *)
(* samples without children.                                                *)
Optional == {p \in document : TypeOf(p).mayBeLeftOut /\ Childless(p)}

(* What is below an instance or a load balancer of which no list was found. *)
Forgone ==
  {q \in document : \E p \in attached :
     /\ TypeOf(p).mayLoseLists
     /\ IsStrictPrefix(p, q)
     /\ \A r \in attached : ~IsStrictPrefix(p, r)}

(* All or nothing, as far as that goes: a parser that returns 0 has made a  *)
(* structure of every element and linked it where the element is, but for   *)
(* addresses, samples without children, and, of an instance or a load       *)
(* balancer, the whole of a list; one that returns -1 has set an error and  *)
(* leaves the client an empty list; and all but those of metrics return.    *)
ResultWhole ==
  /\ pc = "done" =>
       IF ret = 0
         THEN /\ attached \subseteq document
              /\ document \ attached \subseteq Optional \cup Forgone
              /\ error = None
         ELSE Reached(Root) = {} /\ error # None
  /\ pc \in {"crashed", "hung"} => resource = "metrics"

(* Nothing that is freed can still be reached: when a parser fails at any   *)
(* depth, no list of a structure that goes on living holds what its callee  *)
(* freed.                                                                   *)
NothingDangling ==
  \A p \in Reached(Root) :
    /\ <<p, "fields">> \in heap
    /\ Provided(p) \/ <<p, "struct">> \in heap

(* The resources one of whose parsers reads fields elsewhere: the blobs of  *)
(* a bucket and the profile of an instance those of their parent, listeners *)
(* and addresses those of the first of them.                                *)
Borrowing == {"buckets", "listeners", "addresses", "instance_profiles"}

(* The context is put back on the way: whatever was parsed before, the      *)
(* fields of a structure are those of its own element, but for the four     *)
(* resources above, where they are those of its parent or of a sibling.     *)
FieldsNearby ==
  \A p \in DOMAIN fields :
    fields[p] \in IF resource \in Borrowing THEN {p, Front(p), Append(Front(p), 1)} ELSE {p}

(* However a parse ends, and the client frees what it got, all that is left *)
(* is what deltacloud_free_instance() forgets, the names of the properties  *)
(* of samples and the samples left out, and, where the memory for a source  *)
(* ran out, the rule it was to be added to.                                 *)
LeftoversKnown ==
  pc = "freed" \/ (pc = "done" /\ ret = -1) =>
    \A a \in heap : \/ a[2] = "forgotten"
                    \/ a[2] = "struct" /\ a[1] \in Optional /\ ~TypeOf(a[1]).tested
                    \/ resource = "firewalls" /\ ret = -1 /\ Len(a[1]) > 1

(* "The full URL to this blob" (bucket.h:42), "The hostname or IP address"  *)
(* (address.h:33), "The port the load balancer listens on"                  *)
(* (loadbalancer.h:39), "The name of this hardware profile"                 *)
(* (hardware_profile.h:85): the fields of a structure are those of its own  *)
(* element, whatever was parsed before it.                                  *)
FieldsOwn == \A p \in DOMAIN fields : fields[p] = p
=============================================================================
