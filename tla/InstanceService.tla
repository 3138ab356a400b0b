-------------------------- MODULE InstanceService --------------------------
(***************************************************************************)
(* The life of instances on a server, and a client that makes, looks up,   *)
(* acts on and destroys them through the calls of instance.c, and waits    *)
(* for them to boot as wait_for_instance_boot() of tests/test_common.c     *)
(* does.  A call is a request, what the server does with it, and the       *)
(* result the client makes of the answer, by the contract of ApiCall (the  *)
(* id by that of CreateCall); between these the server goes on, and so do  *)
(* its other clients.                                                      *)
(***************************************************************************)
EXTENDS CallResults

CONSTANTS
  Ids,     \* the instances this client's requests can make
  Bogus,   \* an id that names no instance (a redirection, a name cut short)
  MaxPolls \* the polls before a wait gives up, 300 in the code

VARIABLES
  server,  \* the state of every instance
  stray,   \* a request whose call has failed, and that still may arrive
  pc,
  request, \* the call under way: [op, id, asks]
  reply,   \* what the server did with it: [answer, done, id, state]
  snap,    \* the client's struct deltacloud_instance, NULL when freed
  known,   \* the ids the client has been given
  wait,    \* [id, left, outcome]: the last or present wait for an instance
  last     \* [ret, done, seen]: how the last call ended

vars == <<server, stray, pc, request, reply, snap, known, wait, last>>

States == {"unmade", "PENDING", "RUNNING", "STOPPED", "gone"}
Alive == {"PENDING", "RUNNING", "STOPPED"}
Actions == {"stop", "start", "reboot"}
Ops == {"create", "lookup", "destroy"} \cup Actions

\* The actions a server advertises in the document of an instance, and allows.
Allowed == [PENDING |-> {}, RUNNING |-> {"stop", "reboot"}, STOPPED |-> {"start"}]

\* Where an action takes an instance.
Target == [stop |-> "STOPPED", start |-> "RUNNING", reboot |-> "RUNNING"]

\* What an instance does by itself, or for other clients.
Moves == [PENDING |-> {"RUNNING", "gone"}, RUNNING |-> {"STOPPED", "gone"},
          STOPPED |-> {"RUNNING", "gone"}]

Requests == [op : Ops, id : Ids \cup {Bogus, NULL}, asks : BOOLEAN]
Replies == [answer : Answers, done : BOOLEAN, id : Ids \cup {Bogus, NULL}, state : Alive \cup {NULL}]
Snapshots == [id : Ids, state : Alive \cup {NULL}, actions : SUBSET Actions]

ASSUME ConstantsAssumption ==
  /\ MaxPolls \in Nat \ {0}
  /\ Bogus \notin Ids
  /\ NULL \notin Ids \cup {Bogus} \cup Snapshots
  /\ None \notin {"waiting", "found", "lost", "given_up"}

(* The types; in particular a lookup returns a structure that names what    *)
(* exists, in one of the states that can be looked up.                      *)
TypeOK ==
  /\ server \in [Ids -> States]
  /\ stray \in Requests \cup {NULL}
  /\ pc \in {"idle", "sent", "answered", "polled", "crashed"}
  /\ request \in Requests \cup {NULL}
  /\ reply \in Replies \cup {NULL}
  /\ snap \in Snapshots \cup {NULL}
  /\ known \subseteq Ids \cup {Bogus}
  /\ wait \in [id : Ids \cup {Bogus, NULL}, left : 0..MaxPolls,
               outcome : {None, "waiting", "found", "lost", "given_up"}]
  /\ last \in [ret : {-1, 0}, done : BOOLEAN, seen : BOOLEAN]

\* Between waits, and between a call and the end of the next one.
NoWait == [id |-> NULL, left |-> 0, outcome |-> None]
Fresh == [ret |-> 0, done |-> TRUE, seen |-> TRUE]

Init ==
  /\ server = [i \in Ids |-> "unmade"]
  /\ stray = NULL
  /\ pc = "idle"
  /\ request = NULL
  /\ reply = NULL
  /\ snap = NULL
  /\ known = {}
  /\ wait = NoWait
  /\ last = Fresh

Waiting == wait.outcome = "waiting"

Send(op, id, asks) ==
  /\ pc' = "sent"
  /\ request' = [op |-> op, id |-> id, asks |-> asks]
  /\ last' = Fresh

-----------------------------------------------------------------------------
(* The client, with no call under way.  It frees a structure before it has  *)
(* the next one filled, as the documentation of the lookups asks it to.     *)
CreateInstance ==
  /\ pc = "idle"
  /\ \E asks \in BOOLEAN : Send("create", NULL, asks)
  /\ wait' = NoWait
  /\ UNCHANGED <<server, stray, reply, snap, known>>

GetInstanceById ==
  /\ pc = "idle" /\ snap = NULL
  /\ \E i \in known : Send("lookup", i, FALSE)
  /\ wait' = NoWait
  /\ UNCHANGED <<server, stray, reply, snap, known>>

(* An action goes to the href the snapshot has for it; if there is none the *)
(* call fails by itself.  A destroy goes to the href of the instance.       *)
InstanceAction ==
  /\ pc = "idle" /\ snap # NULL
  /\ \E a \in Actions :
       IF a \in snap.actions
         THEN Send(a, snap.id, FALSE)
         ELSE last' = [ret |-> -1, done |-> FALSE, seen |-> TRUE] /\ UNCHANGED <<pc, request>>
  /\ wait' = NoWait
  /\ UNCHANGED <<server, stray, reply, snap, known>>

InstanceDestroy ==
  /\ pc = "idle" /\ snap # NULL
  /\ Send("destroy", snap.id, FALSE)
  /\ wait' = NoWait
  /\ UNCHANGED <<server, stray, reply, snap, known>>

FreeInstance ==
  /\ pc = "idle" /\ snap # NULL
  /\ snap' = NULL
  /\ wait' = NoWait
  /\ UNCHANGED <<server, stray, pc, request, reply, known, last>>

WaitForInstanceBoot ==
  /\ pc = "idle" /\ snap = NULL
  /\ \E i \in known :
       /\ Send("lookup", i, FALSE)
       /\ wait' = [id |-> i, left |-> MaxPolls, outcome |-> "waiting"]
  /\ UNCHANGED <<server, stray, reply, snap, known>>

-----------------------------------------------------------------------------
(* The server.  Refused: whatever was asked, with an error document or with *)
(* something else.                                                          *)
Answer(answer, done, id, state) ==
  /\ pc' = "answered"
  /\ reply' = [answer |-> answer, done |-> done, id |-> id, state |-> state]

Refuse ==
  /\ pc = "sent"
  /\ \E answer \in {"error", "other"} : Answer(answer, FALSE, NULL, NULL)
  /\ UNCHANGED <<server, stray, request, snap, known, wait, last>>

\* What handling r may do to the instances; i is the one made or changed.
Handles(r, i) ==
  \/ /\ r.op = "create" /\ server[i] = "unmade"
     /\ server' = [server EXCEPT ![i] = "PENDING"]
  \/ /\ r.op \in Actions /\ r.id = i /\ server[i] \in Alive /\ r.op \in Allowed[server[i]]
     /\ server' = [server EXCEPT ![i] = Target[r.op]]
  \/ /\ r.op = "destroy" /\ r.id = i /\ server[i] \in Alive
     /\ server' = [server EXCEPT ![i] = "gone"]

Perform ==
  /\ pc = "sent"
  /\ \E i \in Ids : /\ Handles(request, i)
                    /\ \E answer \in {"good", "other", "none"} : Answer(answer, TRUE, i, NULL)
  /\ UNCHANGED <<stray, request, snap, known, wait, last>>

Describe ==
  /\ pc = "sent" /\ request.op = "lookup"
  /\ request.id \in Ids /\ server[request.id] \in Alive
  /\ Answer("good", TRUE, request.id, server[request.id])
  /\ UNCHANGED <<server, stray, request, snap, known, wait, last>>

\* A request whose sender has been told that it failed.
StrayArrives ==
  /\ stray # NULL
  /\ stray' = NULL
  /\ (\E i \in Ids : Handles(stray, i)) \/ UNCHANGED server
  /\ UNCHANGED <<pc, request, reply, snap, known, wait, last>>

ServerMoves ==
  /\ \E i \in Ids : /\ server[i] \in Alive
                    /\ \E s \in Moves[server[i]] : server' = [server EXCEPT ![i] = s]
  /\ UNCHANGED <<stray, pc, request, reply, snap, known, wait, last>>

-----------------------------------------------------------------------------
(* The call returns.                                                        *)
KindOf(op) ==
  CASE op = "create"  -> "create"
    [] op = "lookup"  -> "get_by_id"
    [] op = "destroy" -> "destroy"
    [] OTHER          -> "action"

\* The client's api has its driver and its provider: without them no call of
\* its gets as far as the server.
CallOf(r, answer) ==
  [kind |-> KindOf(r.op), usable |-> TRUE, named |-> TRUE, links |-> "there", answer |-> answer,
   message |-> <<>>, listing |-> <<>>,
   wanted |-> IF r.op = "create" THEN {"headers"} ELSE {}]

\* A lookup of a wait that fails ends the wait, and so does its destroy.
After(ret) ==
  IF ~Waiting THEN pc' = "idle" /\ UNCHANGED wait
  ELSE IF request.op = "destroy" THEN pc' = "idle" /\ wait' = [wait EXCEPT !.outcome = "given_up"]
  ELSE IF ret = 0 THEN pc' = "polled" /\ UNCHANGED wait
  ELSE pc' = "idle" /\ wait' = [wait EXCEPT !.outcome = "lost"]

Result(ret, done, seen) ==
  /\ last' = [ret |-> ret, done |-> done, seen |-> seen]
  /\ request' = NULL /\ reply' = NULL
  /\ After(ret)

(* The connection fails before there is an answer; the request may be on    *)
(* its way (one at most is kept in mind).                                   *)
TransferFails ==
  /\ pc = "sent"
  /\ stray' \in {stray} \cup (IF request.op = "lookup" THEN {} ELSE {[request EXCEPT !.asks = FALSE]})
  /\ Result(-1, FALSE, TRUE)
  /\ UNCHANGED <<server, snap, known>>

\* Mutant: what the server answered to a destroy or an action is not looked at.
ReceiveChangedUnchecked ==
  /\ pc = "answered" /\ request.op \in {"destroy"} \cup Actions
  /\ Result(0, reply.done, reply.answer = "error")
  /\ UNCHANGED <<server, stray, snap, known>>

ReceiveChanged ==
  /\ pc = "answered" /\ request.op \in {"destroy"} \cup Actions
  /\ \E r \in CallOutcomes(CallOf(request, reply.answer)) \ {Crashed} :
       Result(r.ret, reply.done, reply.answer = "error" /\ ~r.lost)
  /\ UNCHANGED <<server, stray, snap, known>>

(* deltacloud_create_instance(): without headers it fails; an id is read    *)
(* from them if the client asked for it, and may be that of nothing.        *)
ReceiveCreated ==
  /\ pc = "answered" /\ request.op = "create"
  /\ \E r \in CallOutcomes(CallOf(request, reply.answer)) \ {Crashed} :
       LET succeeds == r.ret = 0 /\ r.headers
           seen == reply.answer = "error" /\ ~r.lost
       IN \/ /\ succeeds /\ ~request.asks
             /\ Result(0, reply.done, seen) /\ UNCHANGED known
          \/ /\ succeeds /\ request.asks
             /\ \E i \in {Bogus} \cup (IF reply.answer = "good" THEN {reply.id} ELSE {}) :
                  known' = known \cup {i}
             /\ Result(0, reply.done, seen)
          \/ /\ ~succeeds \/ request.asks
             /\ Result(-1, reply.done, seen) /\ UNCHANGED known
  /\ UNCHANGED <<server, stray, snap>>

\* parse_one_instance() fills the structure; the state may be missing, and the
\* list of actions may have been passed over.
ReceiveDescribed ==
  /\ pc = "answered" /\ request.op = "lookup"
  /\ \E r \in CallOutcomes(CallOf(request, reply.answer)) \ {Crashed} :
       /\ Result(r.ret, reply.done, reply.answer = "error" /\ ~r.lost)
       /\ IF r.ret # 0 THEN UNCHANGED snap
          ELSE \E s \in {reply.state, NULL}, as \in {Allowed[reply.state], {}} :
                 snap' = [id |-> reply.id, state |-> s, actions |-> as]
  /\ UNCHANGED <<server, stray, known>>

\* No memory for the message of a refusal.
CallCrashes ==
  /\ pc = "answered" /\ Crashed \in CallOutcomes(CallOf(request, reply.answer))
  /\ pc' = "crashed"
  /\ UNCHANGED <<server, stray, request, reply, snap, known, wait, last>>

-----------------------------------------------------------------------------
\* Mutant: the wait goes on after the last poll.
PollAgainOnwards ==
  /\ pc = "polled" /\ snap.state \in Alive \ {"RUNNING"}
  /\ wait' = [wait EXCEPT !.left = @ - 1]
  /\ snap' = NULL
  /\ Send("lookup", wait.id, FALSE)
  /\ UNCHANGED <<server, stray, reply, known>>

\* Mutant: the polls are not counted.
PollAgainUncounted ==
  /\ pc = "polled" /\ snap.state \in Alive \ {"RUNNING"} /\ wait.left > 1
  /\ snap' = NULL
  /\ Send("lookup", wait.id, FALSE)
  /\ UNCHANGED <<server, stray, reply, known, wait>>

\* Mutant: the structure is not freed before the next lookup.
PollAgainOver ==
  /\ pc = "polled" /\ snap.state \in Alive \ {"RUNNING"} /\ wait.left > 1
  /\ wait' = [wait EXCEPT !.left = @ - 1]
  /\ Send("lookup", wait.id, FALSE)
  /\ UNCHANGED <<server, stray, reply, snap, known>>

(* The loop of wait_for_instance_boot() after a lookup that succeeded.      *)
PollAgain ==
  /\ pc = "polled" /\ snap.state \in Alive \ {"RUNNING"} /\ wait.left > 1
  /\ wait' = [wait EXCEPT !.left = @ - 1]
  /\ snap' = NULL
  /\ Send("lookup", wait.id, FALSE)
  /\ UNCHANGED <<server, stray, reply, known>>

GiveUp ==
  /\ pc = "polled" /\ snap.state \in Alive \ {"RUNNING"} /\ wait.left = 1
  /\ wait' = [wait EXCEPT !.left = 0]
  /\ Send("destroy", snap.id, FALSE)
  /\ UNCHANGED <<server, stray, reply, snap, known>>

\* Mutant: an instance that is not pending any more is taken to be running.
FoundEarly ==
  /\ pc = "polled" /\ snap.state \in Alive \ {"PENDING"}
  /\ wait' = [wait EXCEPT !.outcome = "found"]
  /\ pc' = "idle"
  /\ UNCHANGED <<server, stray, request, reply, snap, known, last>>

Found ==
  /\ pc = "polled" /\ snap.state = "RUNNING"
  /\ wait' = [wait EXCEPT !.outcome = "found"]
  /\ pc' = "idle"
  /\ UNCHANGED <<server, stray, request, reply, snap, known, last>>

\* strcmp() of a state the document does not have, or had no memory for.
CompareMissingState ==
  /\ pc = "polled" /\ snap.state = NULL
  /\ pc' = "crashed"
  /\ UNCHANGED <<server, stray, request, reply, snap, known, wait, last>>

Dead == pc = "crashed" /\ UNCHANGED vars

\* The steps of a call that is under way.
Progress ==
  \/ Refuse \/ Perform \/ Describe \/ TransferFails
  \/ ReceiveChanged \/ ReceiveCreated \/ ReceiveDescribed \/ CallCrashes
  \/ PollAgain \/ GiveUp \/ Found \/ CompareMissingState

Next ==
  \/ CreateInstance \/ GetInstanceById \/ InstanceAction \/ InstanceDestroy
  \/ FreeInstance \/ WaitForInstanceBoot
  \/ Progress \/ StrayArrives \/ ServerMoves \/ Dead

(* The client's thread runs, and the server answers or the connection       *)
(* breaks: the library sets no timeout, so that this is an assumption.      *)
Spec == Init /\ [][Next]_vars /\ WF_vars(Progress)

-----------------------------------------------------------------------------
(* Whatever has become of the instance since its actions were read, and     *)
(* whatever is lost on the way: a call returns 0 only if the server did     *)
(* what was asked, or refused it in a way the library cannot see (its error *)
(* document could not be copied, or is none).                               *)
SuccessMeansDone == last.ret = 0 => last.done \/ ~last.seen

(* A wait finds its instance running; or it gives up after the last poll,   *)
(* on an instance it has never seen running, which is gone unless the       *)
(* destroy failed or was refused; or a lookup failed.                       *)
WaitOutcome ==
  /\ wait.outcome = "found" => snap # NULL /\ snap.id = wait.id /\ snap.state = "RUNNING"
  /\ Waiting /\ pc = "sent" /\ request.op = "destroy" =>
       wait.left = 0 /\ snap.id = wait.id /\ snap.state # "RUNNING"
  /\ wait.outcome = "given_up" =>
       /\ wait.left = 0
       /\ last.ret = 0 /\ last.done => server[wait.id] = "gone"
  /\ wait.outcome = "lost" => last.ret = -1

(* No call and no poll fills a structure that has not been freed: what it   *)
(* holds would be lost under memset().                                      *)
NoSnapshotOverwritten == [][snap' \notin {snap, NULL} => snap = NULL]_vars

(* However often the server changes its mind, a wait for an instance ends.  *)
WaitEnds == Waiting ~> (~Waiting \/ pc = "crashed")
=============================================================================
