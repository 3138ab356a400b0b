------------------------ MODULE InstanceServiceProofs ------------------------
(***************************************************************************)
(* Proofs about InstanceService for any instances and any number of polls. *)
(***************************************************************************)
EXTENDS InstanceService, TLAPS

(* What is under way.  A request names what the client knows, or nothing;   *)
(* a lookup finds the structure freed.                                      *)
RequestInv ==
  /\ pc \in {"sent", "answered"} => request \in Requests
  /\ pc \in {"sent", "answered"} /\ request.op = "lookup" => snap = NULL

(* What an answer says of what the server did, and that a destroyed         *)
(* instance stays destroyed.                                                *)
ReplyInv ==
  pc = "answered" =>
    /\ reply \in Replies
    /\ reply.answer \in {"good", "none"} => reply.done
    /\ request.op = "lookup" /\ reply.answer = "good" =>
         reply.id = request.id /\ reply.id \in Ids /\ reply.state \in Alive
    /\ request.op = "create" /\ reply.answer = "good" => reply.id \in Ids
    /\ request.op = "destroy" /\ reply.done =>
         request.id \in Ids /\ server[request.id] = "gone"

(* Where a wait is: polling, or destroying what never ran; and what it has  *)
(* destroyed is an instance.                                                *)
WaitInv ==
  /\ wait.outcome = "given_up" => wait.id \in Ids
  /\ wait.outcome \in {"found", "lost", "given_up"} => pc = "idle"
  /\ Waiting => pc \in {"sent", "answered", "polled", "crashed"}
  /\ pc = "polled" =>
       /\ Waiting /\ wait.left \in 1..MaxPolls
       /\ snap \in Snapshots /\ snap.id = wait.id
  /\ Waiting /\ pc \in {"sent", "answered"} =>
       /\ request.op \in {"lookup", "destroy"}
       /\ request.id = wait.id
       /\ request.op = "lookup" => wait.left \in 1..MaxPolls
       /\ request.op = "destroy" =>
            /\ wait.left = 0
            /\ snap \in Snapshots /\ snap.id = wait.id /\ snap.state # "RUNNING"

IInv == TypeOK /\ RequestInv /\ ReplyInv /\ WaitInv /\ SuccessMeansDone /\ WaitOutcome

-----------------------------------------------------------------------------
(* What the calls made here can come to.                                    *)
LEMMA CallEnds ==
  ASSUME NEW c, c.usable = TRUE, c.named = TRUE, c.links = "there",
         c.kind \in {"get_by_id", "create", "destroy", "action"},
         NEW o \in CallOutcomes(c) \ {Crashed}
  PROVE  \/ o \in Refusals(c)
         \/ c.kind = "get_by_id" /\ o \in Fetched(c)
         \/ c.kind # "get_by_id" /\ o \in Changed(c)
<1>1. CallOutcomes(c) = Refusals(c) \cup Crashes(c)
                          \cup (IF c.kind \in Fetching THEN Fetched(c) ELSE Changed(c))
  BY DEF CallOutcomes
<1>2. Crashes(c) \subseteq {Crashed}
  BY DEF Crashes
<1>3. c.kind \in Fetching <=> c.kind = "get_by_id"
  BY DEF Fetching
<1> QED BY <1>1, <1>2, <1>3

(* A refusal returns -1.                                                    *)
LEMMA RefusalResult ==
  ASSUME NEW c, NEW o \in Refusals(c)
  PROVE  o.ret = -1 /\ o.headers = FALSE /\ o.lost \in BOOLEAN
BY DEF Refusals, Failures

(* A fetch has what it was asked for.                                       *)
LEMMA FetchResult ==
  ASSUME NEW c, NEW o \in Fetched(c)
  PROVE  c.answer = "good" /\ o.ret = 0 /\ o.headers = FALSE /\ o.lost = FALSE
BY DEF Fetched, Successes

(* A change that succeeds in spite of an error document never saw it.       *)
LEMMA ChangeResult ==
  ASSUME NEW c, NEW o \in Changed(c)
  PROVE  /\ o.ret = 0 /\ o.headers \in BOOLEAN /\ o.lost \in BOOLEAN
         /\ c.answer = "error" => o.lost
BY DEF Changed, Successes

(* The results of a call of the client, in the terms it uses.               *)
LEMMA CallResult ==
  ASSUME NEW r \in Requests, NEW a \in Answers,
         NEW o \in CallOutcomes(CallOf(r, a)) \ {Crashed}
  PROVE  /\ o.ret \in {-1, 0} /\ o.headers \in BOOLEAN /\ o.lost \in BOOLEAN
         /\ o.ret = 0 /\ r.op = "lookup" => a = "good"
         /\ o.ret = 0 /\ a = "error" => o.lost
<1> DEFINE c == CallOf(r, a)
<1>1. c.usable = TRUE /\ c.named = TRUE /\ c.links = "there" /\ c.answer = a /\ c.kind = KindOf(r.op)
  BY DEF CallOf
<1>2. /\ c.kind \in {"get_by_id", "create", "destroy", "action"}
      /\ r.op = "lookup" => c.kind = "get_by_id"
  BY <1>1 DEF KindOf
<1> HIDE DEF c
<1>3. \/ o \in Refusals(c)
      \/ c.kind = "get_by_id" /\ o \in Fetched(c)
      \/ c.kind # "get_by_id" /\ o \in Changed(c)
  BY <1>1, <1>2, CallEnds DEF c
<1>4. o.headers \in BOOLEAN /\ o.lost \in BOOLEAN
  <2>1. CASE o \in Refusals(c)
    BY <2>1, RefusalResult
  <2>2. CASE o \in Fetched(c)
    BY <2>2, FetchResult
  <2>3. CASE o \in Changed(c)
    BY <2>3, ChangeResult
  <2> QED BY <1>3, <2>1, <2>2, <2>3
<1>5. o.ret = -1 \/ o.ret = 0
  BY <1>3, RefusalResult, FetchResult, ChangeResult
<1>6. ASSUME o.ret = 0 PROVE o \in Fetched(c) \/ (c.kind # "get_by_id" /\ o \in Changed(c))
  <2>1. o \notin Refusals(c)
    <3>1. ASSUME o \in Refusals(c) PROVE o.ret = -1
      BY <3>1, RefusalResult
    <3> QED BY <1>6, <3>1
  <2> QED BY <1>3, <2>1
<1>7. ASSUME o.ret = 0, r.op = "lookup" PROVE a = "good"
  BY <1>6, <1>7, <1>1, <1>2, FetchResult
<1>8. ASSUME o.ret = 0, a = "error" PROVE o.lost
  BY <1>6, <1>8, <1>1, FetchResult, ChangeResult
<1> QED BY <1>4, <1>5, <1>7, <1>8

(* The invariant holds before the first call.                               *)
LEMMA InvInit == Init => IInv
<1> SUFFICES ASSUME Init PROVE IInv
  OBVIOUS
<1> USE ConstantsAssumption DEF Init, NoWait, Fresh
<1>1. TypeOK
  BY DEF TypeOK, States
<1>2. RequestInv /\ ReplyInv /\ WaitInv
  BY DEF RequestInv, ReplyInv, WaitInv, Waiting
<1>3. SuccessMeansDone /\ WaitOutcome
  BY DEF SuccessMeansDone, WaitOutcome, Waiting
<1> QED BY <1>1, <1>2, <1>3 DEF IInv

(* What handling a request does to the instances: one of them changes, none *)
(* that is gone, and the one a destroy names is gone then.                  *)
LEMMA HandledServer ==
  ASSUME server \in [Ids -> States], NEW r \in Requests, NEW i \in Ids, Handles(r, i)
  PROVE  /\ server' \in [Ids -> States]
         /\ \A n \in Ids : server[n] = "gone" => server'[n] = "gone"
         /\ r.op # "lookup"
         /\ r.op = "destroy" => r.id = i /\ server'[i] = "gone"
<1>1. CASE r.op = "create" /\ server[i] = "unmade" /\ server' = [server EXCEPT ![i] = "PENDING"]
  BY <1>1 DEF States
<1>2. CASE /\ r.op \in Actions /\ server[i] \in Alive
           /\ server' = [server EXCEPT ![i] = Target[r.op]]
  BY <1>2 DEF States, Actions, Alive, Target
<1>3. CASE /\ r.op = "destroy" /\ r.id = i /\ server[i] \in Alive
           /\ server' = [server EXCEPT ![i] = "gone"]
  BY <1>3 DEF States, Alive
<1> QED BY <1>1, <1>2, <1>3 DEF Handles

(* Where a call leaves the client.                                          *)
LEMMA ResultTypeOK ==
  ASSUME TypeOK, NEW ret \in {-1, 0}, NEW done \in BOOLEAN, NEW seen \in BOOLEAN,
         Result(ret, done, seen)
  PROVE  /\ pc' \in {"idle", "polled"} /\ request' = NULL /\ reply' = NULL
         /\ last' \in [ret : {-1, 0}, done : BOOLEAN, seen : BOOLEAN]
         /\ wait' \in [id : Ids \cup {Bogus, NULL}, left : 0..MaxPolls,
                       outcome : {None, "waiting", "found", "lost", "given_up"}]
<1>1. /\ pc' \in {"idle", "polled"}
      /\ wait' \in {wait, [wait EXCEPT !.outcome = "given_up"], [wait EXCEPT !.outcome = "lost"]}
  BY DEF Result, After
<1> QED BY <1>1 DEF Result, TypeOK

(* Every step keeps the types.                                              *)
LEMMA TypeNext == IInv /\ [Next]_vars => TypeOK'
<1> SUFFICES ASSUME IInv, [Next]_vars PROVE TypeOK'
  OBVIOUS
<1> USE ConstantsAssumption DEF IInv, TypeOK
<1>1. CASE CreateInstance
  BY <1>1 DEF CreateInstance, Send, NoWait, Fresh, Requests, Ops
<1>2. CASE GetInstanceById
  BY <1>2 DEF GetInstanceById, Send, NoWait, Fresh, Requests, Ops
<1>3. CASE InstanceAction
  <2>1. PICK a \in Actions :
          IF a \in snap.actions
            THEN Send(a, snap.id, FALSE)
            ELSE last' = [ret |-> -1, done |-> FALSE, seen |-> TRUE] /\ UNCHANGED <<pc, request>>
    BY <1>3 DEF InstanceAction
  <2>2. snap.id \in Ids /\ wait' = NoWait /\ UNCHANGED <<server, stray, reply, snap, known>>
    BY <1>3 DEF InstanceAction, Snapshots
  <2>3. CASE a \in snap.actions
    <3>1. Send(a, snap.id, FALSE)
      BY <2>1, <2>3
    <3> QED BY <2>2, <3>1 DEF Send, NoWait, Fresh, Requests, Ops
  <2>4. CASE a \notin snap.actions
    <3>1. last' = [ret |-> -1, done |-> FALSE, seen |-> TRUE] /\ UNCHANGED <<pc, request>>
      BY <2>1, <2>4
    <3> QED BY <2>2, <3>1 DEF NoWait
  <2> QED BY <2>3, <2>4
<1>4. CASE InstanceDestroy
  BY <1>4 DEF InstanceDestroy, Send, NoWait, Fresh, Requests, Ops, Snapshots
<1>5. CASE FreeInstance
  BY <1>5 DEF FreeInstance, NoWait
<1>6. CASE WaitForInstanceBoot
  BY <1>6 DEF WaitForInstanceBoot, Send, Fresh, Requests, Ops
<1>7. CASE Refuse
  BY <1>7 DEF Refuse, Answer, Replies, Answers
<1>8. CASE Perform
  <2>1. PICK i \in Ids : Handles(request, i) /\ \E a \in {"good", "other", "none"} : Answer(a, TRUE, i, NULL)
    BY <1>8 DEF Perform
  <2>2. server' \in [Ids -> States]
    BY <1>8, <2>1, HandledServer DEF Perform, RequestInv
  <2> QED BY <1>8, <2>1, <2>2 DEF Perform, Answer, Replies, Answers
<1>9. CASE Describe
  BY <1>9 DEF Describe, Answer, Replies, Answers
<1>10. CASE StrayArrives
  <2>1. server' \in [Ids -> States]
    BY <1>10, HandledServer DEF StrayArrives
  <2> QED BY <1>10, <2>1 DEF StrayArrives
<1>11. CASE ServerMoves
  BY <1>11 DEF ServerMoves, Moves, Alive, States
<1>12. CASE TransferFails
  <2>1. stray' \in Requests \cup {NULL}
    BY <1>12 DEF TransferFails, RequestInv, Requests
  <2>2. Result(-1, FALSE, TRUE)
    BY <1>12 DEF TransferFails
  <2> QED BY <1>12, <2>1, <2>2, ResultTypeOK DEF TransferFails
<1>13. CASE ReceiveChanged
  <2>1. PICK r \in CallOutcomes(CallOf(request, reply.answer)) \ {Crashed} :
          Result(r.ret, reply.done, reply.answer = "error" /\ ~r.lost)
    BY <1>13 DEF ReceiveChanged
  <2>2. r.ret \in {-1, 0}
    BY <1>13, <2>1, CallResult DEF ReceiveChanged, RequestInv, ReplyInv, Replies
  <2>3. reply.done \in BOOLEAN
    BY <1>13 DEF ReceiveChanged, ReplyInv, Replies
  <2> QED BY <1>13, <2>1, <2>2, <2>3, ResultTypeOK DEF ReceiveChanged
<1>14. CASE ReceiveCreated
  <2>1. PICK r \in {-1, 0}, seen \in BOOLEAN : Result(r, reply.done, seen)
    BY <1>14 DEF ReceiveCreated
  <2>2. reply.done \in BOOLEAN
    BY <1>14 DEF ReceiveCreated, ReplyInv, Replies
  <2>3. known' \subseteq Ids \cup {Bogus}
    BY <1>14 DEF ReceiveCreated, ReplyInv
  <2> QED BY <1>14, <2>1, <2>2, <2>3, ResultTypeOK DEF ReceiveCreated
<1>15. CASE ReceiveDescribed
  <2>1. PICK r \in CallOutcomes(CallOf(request, reply.answer)) \ {Crashed} :
          /\ Result(r.ret, reply.done, reply.answer = "error" /\ ~r.lost)
          /\ IF r.ret # 0 THEN UNCHANGED snap
             ELSE \E s \in {reply.state, NULL}, as \in {Allowed[reply.state], {}} :
                    snap' = [id |-> reply.id, state |-> s, actions |-> as]
    BY <1>15 DEF ReceiveDescribed
  <2>2. r.ret \in {-1, 0} /\ (r.ret = 0 => reply.answer = "good")
    BY <1>15, <2>1, CallResult DEF ReceiveDescribed, RequestInv, ReplyInv, Replies
  <2>3. reply.done \in BOOLEAN
    BY <1>15 DEF ReceiveDescribed, ReplyInv, Replies
  <2>4. snap' \in Snapshots \cup {NULL}
    BY <1>15, <2>1, <2>2 DEF ReceiveDescribed, ReplyInv, Snapshots, Allowed, Alive, Actions
  <2> QED BY <1>15, <2>1, <2>2, <2>3, <2>4, ResultTypeOK DEF ReceiveDescribed
<1>16. CASE CallCrashes
  BY <1>16 DEF CallCrashes
<1>17. CASE PollAgain
  BY <1>17 DEF PollAgain, Send, Fresh, Requests, Ops
<1>18. CASE GiveUp
  BY <1>18 DEF GiveUp, Send, Fresh, Requests, Ops, Snapshots, WaitInv
<1>19. CASE Found
  BY <1>19 DEF Found
<1>20. CASE CompareMissingState
  BY <1>20 DEF CompareMissingState
<1>21. CASE UNCHANGED vars
  BY <1>21 DEF vars
<1> QED BY <1>1, <1>2, <1>3, <1>4, <1>5, <1>6, <1>7, <1>8, <1>9, <1>10, <1>11, <1>12, <1>13,
           <1>14, <1>15, <1>16, <1>17, <1>18, <1>19, <1>20, <1>21
        DEF Next, Progress, Dead

(* What was destroyed stays so.                                             *)
LEMMA GoneStays ==
  ASSUME IInv, [Next]_vars, NEW n \in Ids, server[n] = "gone"
  PROVE  server'[n] = "gone"
<1> USE DEF IInv, TypeOK
<1>1. CASE Perform
  BY <1>1, HandledServer DEF Perform, RequestInv
<1>2. CASE StrayArrives
  BY <1>2, HandledServer DEF StrayArrives
<1>3. CASE ServerMoves
  BY <1>3 DEF ServerMoves, Alive
<1>4. CASE UNCHANGED server
  BY <1>4
<1>5. CASE CreateInstance \/ GetInstanceById \/ InstanceAction \/ InstanceDestroy \/ FreeInstance
            \/ WaitForInstanceBoot
  BY <1>5, <1>4 DEF CreateInstance, GetInstanceById, InstanceAction, InstanceDestroy, FreeInstance,
                    WaitForInstanceBoot
<1>6. CASE Refuse \/ Describe \/ TransferFails \/ ReceiveChanged \/ ReceiveCreated
            \/ ReceiveDescribed \/ CallCrashes
  BY <1>6, <1>4 DEF Refuse, Describe, TransferFails, ReceiveChanged, ReceiveCreated,
                    ReceiveDescribed, CallCrashes
<1>7. CASE PollAgain \/ GiveUp \/ Found \/ CompareMissingState
  BY <1>7, <1>4 DEF PollAgain, GiveUp, Found, CompareMissingState
<1> QED BY <1>1, <1>2, <1>3, <1>4, <1>5, <1>6, <1>7 DEF Next, Progress, Dead, vars

(* The rest of the invariant, of which the types are no part.               *)
Kept == RequestInv /\ ReplyInv /\ WaitInv /\ SuccessMeansDone /\ WaitOutcome

(* A call that the client makes outside a wait.                             *)
LEMMA SendKeeps ==
  ASSUME NEW op \in Ops, NEW id \in Ids \cup {Bogus, NULL}, NEW asks \in BOOLEAN,
         Send(op, id, asks), wait' = NoWait, op = "lookup" => snap' = NULL
  PROVE  Kept'
<1>1. RequestInv'
  BY DEF RequestInv, Send, Requests
<1>2. ReplyInv' /\ SuccessMeansDone'
  BY DEF ReplyInv, SuccessMeansDone, Send, Fresh
<1>3. wait'.outcome = None /\ pc' = "sent"
  BY DEF Send, NoWait
<1>4. WaitInv' /\ WaitOutcome'
  BY <1>3, ConstantsAssumption DEF WaitInv, WaitOutcome, Waiting
<1> QED BY <1>1, <1>2, <1>4 DEF Kept

(* A call that the wait makes.                                              *)
LEMMA PollKeeps ==
  ASSUME NEW op \in {"lookup", "destroy"}, NEW id \in Ids \cup {Bogus, NULL},
         Send(op, id, FALSE), wait'.outcome = "waiting", id = wait'.id,
         op = "lookup" => snap' = NULL /\ wait'.left \in 1..MaxPolls,
         op = "destroy" => /\ wait'.left = 0
                           /\ snap' \in Snapshots /\ snap'.id = wait'.id /\ snap'.state # "RUNNING"
  PROVE  Kept'
<1>1. RequestInv'
  BY DEF RequestInv, Send, Requests, Ops
<1>2. ReplyInv' /\ SuccessMeansDone'
  BY DEF ReplyInv, SuccessMeansDone, Send, Fresh
<1>3. pc' = "sent" /\ request'.op = op /\ request'.id = id
  BY DEF Send
<1>4. WaitInv' /\ WaitOutcome'
  BY <1>3 DEF WaitInv, WaitOutcome, Waiting
<1> QED BY <1>1, <1>2, <1>4 DEF Kept

(* A call that ends.                                                        *)
LEMMA ResultKeeps ==
  ASSUME IInv, pc \in {"sent", "answered"},
         NEW ret \in {-1, 0}, NEW done, NEW seen, Result(ret, done, seen),
         ret = 0 => done \/ ~seen,
         request.op = "lookup" /\ ret = 0 => snap' \in Snapshots /\ snap'.id = request.id,
         request.op = "destroy" /\ ret = 0 /\ done => server'[request.id] = "gone"
  PROVE  Kept'
<1> USE DEF IInv
<1>1. last' = [ret |-> ret, done |-> done, seen |-> seen]
  BY DEF Result
<1>2. SuccessMeansDone'
  BY <1>1 DEF SuccessMeansDone
<1>3. wait \in [id : Ids \cup {Bogus, NULL}, left : 0..MaxPolls,
                outcome : {None, "waiting", "found", "lost", "given_up"}]
  BY DEF TypeOK
<1>4. CASE ~Waiting
  <2>1. pc' = "idle" /\ wait' = wait
    BY <1>4 DEF Result, After
  <2>2. wait.outcome \notin {"found", "lost", "given_up", "waiting"}
    BY <1>4 DEF WaitInv, Waiting
  <2> QED BY <1>2, <2>1, <2>2 DEF Kept, RequestInv, ReplyInv, WaitInv, WaitOutcome, Waiting
<1>5. CASE Waiting /\ request.op = "destroy"
  <2>1. pc' = "idle" /\ wait' = [wait EXCEPT !.outcome = "given_up"]
    BY <1>5 DEF Result, After
  <2>2. wait.left = 0 /\ request.id = wait.id /\ wait.id \in Ids
    BY <1>5 DEF WaitInv, Snapshots
  <2>3. wait'.outcome = "given_up" /\ wait'.left = 0 /\ wait'.id = wait.id
    BY <1>3, <2>1, <2>2
  <2>4. last'.ret = ret /\ last'.done = done /\ wait'.id = request.id
    BY <1>1, <2>2, <2>3
  <2>5. ASSUME last'.ret = 0, last'.done PROVE server'[wait'.id] = "gone"
    <3>1. ret = 0 /\ done /\ request.op = "destroy"
      BY <2>4, <2>5, <1>5
    <3>2. server'[request.id] = "gone"
      BY <3>1
    <3> QED BY <2>4, <3>2
  <2>6. WaitOutcome'
    BY <2>1, <2>3, <2>5 DEF WaitOutcome, Waiting
  <2> QED BY <1>2, <2>1, <2>2, <2>3, <2>6 DEF Kept, RequestInv, ReplyInv, WaitInv, Waiting
<1>6. CASE Waiting /\ request.op # "destroy" /\ ret = 0
  <2>1. pc' = "polled" /\ wait' = wait
    BY <1>6 DEF Result, After
  <2>2. request.op = "lookup" /\ request.id = wait.id /\ wait.left \in 1..MaxPolls
    BY <1>6 DEF WaitInv
  <2> QED BY <1>2, <1>6, <2>1, <2>2 DEF Kept, RequestInv, ReplyInv, WaitInv, WaitOutcome, Waiting
<1>7. CASE Waiting /\ request.op # "destroy" /\ ret # 0
  <2>1. pc' = "idle" /\ wait' = [wait EXCEPT !.outcome = "lost"] /\ last'.ret = -1
    BY <1>1, <1>7 DEF Result, After
  <2>2. wait'.outcome = "lost"
    BY <1>3, <2>1
  <2> QED BY <1>2, <2>1, <2>2 DEF Kept, RequestInv, ReplyInv, WaitInv, WaitOutcome, Waiting
<1> QED BY <1>4, <1>5, <1>6, <1>7

(* The client does nothing, or finds that it cannot act.                    *)
LEMMA IdleKeeps ==
  ASSUME pc' = "idle", wait' = NoWait, SuccessMeansDone'
  PROVE  Kept'
<1>1. wait'.outcome = None
  BY DEF NoWait
<1> QED BY <1>1, ConstantsAssumption DEF Kept, RequestInv, ReplyInv, WaitInv, WaitOutcome, Waiting

(* The server answers.                                                      *)
LEMMA AnswerKeeps ==
  ASSUME IInv, pc = "sent", UNCHANGED <<request, snap, known, wait, last>>,
         NEW answer \in Answers, NEW done \in BOOLEAN,
         NEW id \in Ids \cup {Bogus, NULL}, NEW state \in Alive \cup {NULL},
         Answer(answer, done, id, state),
         answer \in {"good", "none"} => done,
         request.op = "lookup" /\ answer = "good" => id = request.id /\ id \in Ids /\ state \in Alive,
         request.op = "create" /\ answer = "good" => id \in Ids,
         request.op = "destroy" /\ done => request.id \in Ids /\ server'[request.id] = "gone"
  PROVE  Kept'
<1> USE DEF IInv
<1>1. pc' = "answered" /\ reply' = [answer |-> answer, done |-> done, id |-> id, state |-> state]
  BY DEF Answer
<1>2. reply' \in Replies
  BY <1>1 DEF Replies
<1>3. reply'.answer = answer /\ reply'.id = id /\ reply'.state = state
  BY <1>1
<1>4. reply'.done = done
  BY <1>1
<1>5. ReplyInv'
  <2>1. answer \in {"good", "none"} => reply'.done
    BY <1>4
  <2>2. request.op = "destroy" /\ reply'.done => request.id \in Ids /\ server'[request.id] = "gone"
    BY <1>4
  <2> QED BY <1>2, <1>3, <2>1, <2>2 DEF ReplyInv
<1>6. RequestInv' /\ SuccessMeansDone'
  BY <1>1 DEF RequestInv, SuccessMeansDone
<1>7. WaitInv' /\ WaitOutcome'
  BY <1>1 DEF WaitInv, WaitOutcome, Waiting
<1> QED BY <1>5, <1>6, <1>7 DEF Kept

(* The server changes while the client does nothing.                        *)
LEMMA ServerKeeps ==
  ASSUME IInv, [Next]_vars, UNCHANGED <<pc, request, reply, snap, known, wait, last>>
  PROVE  Kept'
<1> USE DEF IInv
<1>1. RequestInv' /\ SuccessMeansDone' /\ WaitInv'
  BY DEF RequestInv, SuccessMeansDone, WaitInv, Waiting
<1>2. ReplyInv'
  BY GoneStays DEF ReplyInv
<1>3. WaitOutcome'
  <2>1. ASSUME wait.outcome = "given_up", last.ret = 0, last.done PROVE server'[wait.id] = "gone"
    <3>1. wait.id \in Ids /\ server[wait.id] = "gone"
      BY <2>1 DEF WaitInv, WaitOutcome
    <3> QED BY <3>1, GoneStays
  <2> QED BY <2>1 DEF WaitOutcome, Waiting
<1> QED BY <1>1, <1>2, <1>3 DEF Kept

(* The client's calls keep the invariant.                                   *)
LEMMA ClientKeeps ==
  ASSUME IInv,
         \/ CreateInstance \/ GetInstanceById \/ InstanceAction \/ InstanceDestroy
         \/ FreeInstance \/ WaitForInstanceBoot
  PROVE  Kept'
<1> USE DEF IInv, TypeOK
<1>1. CASE CreateInstance
  <2>1. PICK asks \in BOOLEAN : Send("create", NULL, asks)
    BY <1>1 DEF CreateInstance
  <2> QED BY <1>1, <2>1, SendKeeps DEF CreateInstance, Ops
<1>2. CASE GetInstanceById
  <2>1. PICK i \in known : Send("lookup", i, FALSE)
    BY <1>2 DEF GetInstanceById
  <2> QED BY <1>2, <2>1, SendKeeps DEF GetInstanceById, Ops
<1>3. CASE InstanceAction
  <2>1. PICK a \in Actions :
          IF a \in snap.actions
            THEN Send(a, snap.id, FALSE)
            ELSE last' = [ret |-> -1, done |-> FALSE, seen |-> TRUE] /\ UNCHANGED <<pc, request>>
    BY <1>3 DEF InstanceAction
  <2>2. pc = "idle" /\ snap.id \in Ids /\ wait' = NoWait
    BY <1>3 DEF InstanceAction, Snapshots
  <2>3. CASE a \in snap.actions
    <3>1. Send(a, snap.id, FALSE) /\ a \in Ops /\ a # "lookup"
      BY <2>1, <2>3 DEF Ops, Actions
    <3> QED BY <2>2, <3>1, SendKeeps
  <2>4. CASE a \notin snap.actions
    <3>1. last'.ret = -1 /\ pc' = "idle"
      BY <2>1, <2>2, <2>4
    <3> QED BY <2>2, <3>1, IdleKeeps DEF SuccessMeansDone
  <2> QED BY <2>3, <2>4
<1>4. CASE InstanceDestroy
  BY <1>4, SendKeeps DEF InstanceDestroy, Ops, Snapshots
<1>5. CASE FreeInstance
  BY <1>5, IdleKeeps DEF FreeInstance, SuccessMeansDone
<1>6. CASE WaitForInstanceBoot
  <2>1. PICK i \in known : /\ Send("lookup", i, FALSE)
                           /\ wait' = [id |-> i, left |-> MaxPolls, outcome |-> "waiting"]
    BY <1>6 DEF WaitForInstanceBoot
  <2>2. wait'.outcome = "waiting" /\ wait'.id = i /\ wait'.left = MaxPolls /\ snap' = NULL
    BY <1>6, <2>1 DEF WaitForInstanceBoot
  <2>3. MaxPolls \in 1..MaxPolls /\ i \in Ids \cup {Bogus, NULL}
    BY ConstantsAssumption
  <2> QED BY <2>1, <2>2, <2>3, PollKeeps
<1> QED BY <1>1, <1>2, <1>3, <1>4, <1>5, <1>6

(* The server's answers keep it.                                            *)
LEMMA AnswersKeep ==
  ASSUME IInv, Refuse \/ Perform \/ Describe
  PROVE  Kept'
<1>1. pc = "sent" /\ UNCHANGED <<request, snap, known, wait, last>>
  BY DEF Refuse, Perform, Describe
<1>2. request \in Requests /\ server \in [Ids -> States]
  BY <1>1 DEF IInv, TypeOK, RequestInv
<1>3. CASE Refuse
  <2>1. PICK answer \in {"error", "other"} : Answer(answer, FALSE, NULL, NULL)
    BY <1>3 DEF Refuse
  <2>2. answer \in Answers /\ answer # "good" /\ answer # "none"
    BY DEF Answers
  <2>3. PICK done \in BOOLEAN : ~done /\ Answer(answer, done, NULL, NULL)
    BY <2>1
  <2> QED BY <1>1, <2>2, <2>3, AnswerKeeps
<1>4. CASE Perform
  <2>1. PICK i \in Ids, answer \in {"good", "other", "none"} :
          Handles(request, i) /\ Answer(answer, TRUE, i, NULL)
    BY <1>4 DEF Perform
  <2>2. /\ request.op # "lookup"
        /\ request.op = "destroy" => request.id \in Ids /\ server'[request.id] = "gone"
    BY <1>2, <2>1, HandledServer
  <2>3. answer \in Answers
    BY DEF Answers
  <2> QED BY <1>1, <2>1, <2>2, <2>3, AnswerKeeps
<1>5. CASE Describe
  <2>1. /\ request.op = "lookup" /\ request.id \in Ids /\ server[request.id] \in Alive
        /\ Answer("good", TRUE, request.id, server[request.id])
    BY <1>5 DEF Describe
  <2>2. "good" \in Answers
    BY DEF Answers
  <2> QED BY <1>1, <2>1, <2>2, AnswerKeeps
<1> QED BY <1>3, <1>4, <1>5

(* The end of a call keeps it: the lookup of a wait that succeeds has filled *)
(* the structure with the instance that was waited for.                     *)
LEMMA ReceiptsKeep ==
  ASSUME IInv, TransferFails \/ ReceiveChanged \/ ReceiveCreated \/ ReceiveDescribed \/ CallCrashes
  PROVE  Kept'
<1>1. CASE TransferFails
  <2>1. pc = "sent" /\ Result(-1, FALSE, TRUE)
    BY <1>1 DEF TransferFails
  <2>2. PICK done \in BOOLEAN, seen \in BOOLEAN, ret \in {-1, 0} : ret = -1 /\ Result(ret, done, seen)
    BY <2>1
  <2> QED BY <2>1, <2>2, ResultKeeps
<1> DEFINE Answered == /\ pc = "answered" /\ request \in Requests /\ reply \in Replies
                       /\ reply.answer \in Answers
<1>2. ASSUME pc = "answered" PROVE Answered
  BY <1>2 DEF IInv, RequestInv, ReplyInv, Replies
<1> HIDE DEF Answered
<1>3. CASE ReceiveChanged
  <2>1. Answered /\ request.op \in {"destroy"} \cup Actions /\ server' = server
    BY <1>2, <1>3 DEF ReceiveChanged
  <2>2. PICK r \in CallOutcomes(CallOf(request, reply.answer)) \ {Crashed} :
          Result(r.ret, reply.done, reply.answer = "error" /\ ~r.lost)
    BY <1>3 DEF ReceiveChanged
  <2>3. /\ r.ret \in {-1, 0}
        /\ r.ret = 0 /\ reply.answer = "error" => r.lost
    BY <2>1, CallResult DEF Answered
  <2>4. r.ret = 0 => reply.done \/ ~(reply.answer = "error" /\ ~r.lost)
    BY <2>3
  <2>5. request.op # "lookup"
    BY <2>1 DEF Actions
  <2>6. request.op = "destroy" /\ reply.done => server'[request.id] = "gone"
    BY <2>1 DEF Answered, IInv, ReplyInv
  <2>7. pc \in {"sent", "answered"}
    BY <2>1 DEF Answered
  <2> QED BY <2>2, <2>3, <2>4, <2>5, <2>6, <2>7, ResultKeeps
<1>4. CASE ReceiveCreated
  <2>1. Answered /\ request.op = "create"
    BY <1>2, <1>4 DEF ReceiveCreated
  <2>2. PICK r \in CallOutcomes(CallOf(request, reply.answer)) \ {Crashed}, ret \in {-1, 0} :
          /\ ret = 0 => r.ret = 0
          /\ Result(ret, reply.done, reply.answer = "error" /\ ~r.lost)
    BY <1>4 DEF ReceiveCreated
  <2>3. r.ret = 0 /\ reply.answer = "error" => r.lost
    BY <2>1, CallResult DEF Answered
  <2>4. ret = 0 => reply.done \/ ~(reply.answer = "error" /\ ~r.lost)
    BY <2>2, <2>3
  <2>5. pc \in {"sent", "answered"} /\ request.op # "lookup" /\ request.op # "destroy"
    BY <2>1 DEF Answered
  <2> QED BY <2>2, <2>4, <2>5, ResultKeeps
<1>5. CASE ReceiveDescribed
  <2>1. Answered /\ request.op = "lookup"
    BY <1>2, <1>5 DEF ReceiveDescribed
  <2>2. PICK r \in CallOutcomes(CallOf(request, reply.answer)) \ {Crashed} :
          /\ Result(r.ret, reply.done, reply.answer = "error" /\ ~r.lost)
          /\ IF r.ret # 0 THEN UNCHANGED snap
             ELSE \E s \in {reply.state, NULL}, as \in {Allowed[reply.state], {}} :
                    snap' = [id |-> reply.id, state |-> s, actions |-> as]
    BY <1>5 DEF ReceiveDescribed
  <2>3. r.ret \in {-1, 0} /\ (r.ret = 0 => reply.answer = "good")
    BY <2>1, CallResult DEF Answered
  <2>4. r.ret = 0 => reply.id = request.id /\ reply.id \in Ids /\ reply.state \in Alive
    BY <2>1, <2>3 DEF Answered, IInv, ReplyInv
  <2>5. r.ret = 0 => snap' \in Snapshots /\ snap'.id = request.id
    BY <2>2, <2>4 DEF Snapshots, Allowed, Alive, Actions
  <2>6. r.ret = 0 => ~(reply.answer = "error" /\ ~r.lost)
    BY <2>3
  <2>7. pc \in {"sent", "answered"} /\ request.op # "destroy"
    BY <2>1 DEF Answered
  <2> QED BY <2>1, <2>2, <2>3, <2>5, <2>6, <2>7, ResultKeeps
<1>6. CASE CallCrashes
  <2>1. pc = "answered" /\ pc' = "crashed" /\ UNCHANGED <<server, request, reply, snap, wait, last>>
    BY <1>6 DEF CallCrashes
  <2> QED BY <2>1 DEF IInv, Kept, RequestInv, ReplyInv, WaitInv, SuccessMeansDone, WaitOutcome, Waiting
<1> QED BY <1>1, <1>3, <1>4, <1>5, <1>6

(* The loop of a wait keeps it.                                             *)
LEMMA LoopKeeps ==
  ASSUME IInv, PollAgain \/ GiveUp \/ Found \/ CompareMissingState
  PROVE  Kept'
<1>1. /\ pc = "polled" /\ wait.outcome = "waiting" /\ wait.left \in 1..MaxPolls
      /\ snap \in Snapshots /\ snap.id = wait.id /\ wait.id \in Ids
      /\ wait \in [id : Ids \cup {Bogus, NULL}, left : 0..MaxPolls,
                   outcome : {None, "waiting", "found", "lost", "given_up"}]
  BY DEF PollAgain, GiveUp, Found, CompareMissingState, IInv, TypeOK, WaitInv, Waiting, Snapshots
<1>2. MaxPolls \in Nat
  BY ConstantsAssumption
<1>3. CASE PollAgain
  <2>1. wait.left > 1 /\ wait' = [wait EXCEPT !.left = @ - 1] /\ snap' = NULL
        /\ Send("lookup", wait.id, FALSE)
    BY <1>3 DEF PollAgain
  <2>2. wait'.outcome = "waiting" /\ wait'.id = wait.id /\ wait'.left \in 1..MaxPolls
    BY <1>1, <1>2, <2>1
  <2> QED BY <1>1, <2>1, <2>2, PollKeeps
<1>4. CASE GiveUp
  <2>1. /\ snap.state # "RUNNING" /\ wait' = [wait EXCEPT !.left = 0]
        /\ Send("destroy", snap.id, FALSE) /\ snap' = snap
    BY <1>4 DEF GiveUp
  <2>2. wait'.outcome = "waiting" /\ wait'.id = wait.id /\ wait'.left = 0
    BY <1>1, <2>1
  <2> QED BY <1>1, <2>1, <2>2, PollKeeps
<1>5. CASE Found
  <2>1. /\ snap.state = "RUNNING" /\ wait' = [wait EXCEPT !.outcome = "found"] /\ pc' = "idle"
        /\ UNCHANGED <<snap, last>>
    BY <1>5 DEF Found
  <2>2. wait'.outcome = "found" /\ wait'.id = wait.id
    BY <1>1, <2>1
  <2>3. snap # NULL
    BY <1>1, ConstantsAssumption
  <2>4. RequestInv' /\ ReplyInv' /\ WaitInv' /\ WaitOutcome'
    BY <1>1, <2>1, <2>2, <2>3 DEF RequestInv, ReplyInv, WaitInv, WaitOutcome, Waiting
  <2>5. SuccessMeansDone'
    BY <2>1 DEF IInv, SuccessMeansDone
  <2> QED BY <2>4, <2>5 DEF Kept
<1>6. CASE CompareMissingState
  <2>1. pc' = "crashed" /\ UNCHANGED <<server, request, reply, snap, wait, last>>
    BY <1>6 DEF CompareMissingState
  <2> QED BY <1>1, <2>1 DEF IInv, Kept, RequestInv, ReplyInv, WaitInv, SuccessMeansDone, WaitOutcome,
                            Waiting
<1> QED BY <1>3, <1>4, <1>5, <1>6

(* Every step keeps the invariant.                                          *)
LEMMA InvNext == IInv /\ [Next]_vars => IInv'
<1> SUFFICES ASSUME IInv, [Next]_vars PROVE IInv'
  OBVIOUS
<1>1. TypeOK'
  BY TypeNext
<1>2. Kept'
  <2>1. CASE CreateInstance \/ GetInstanceById \/ InstanceAction \/ InstanceDestroy \/ FreeInstance
              \/ WaitForInstanceBoot
    BY <2>1, ClientKeeps
  <2>2. CASE Refuse \/ Perform \/ Describe
    BY <2>2, AnswersKeep
  <2>3. CASE TransferFails \/ ReceiveChanged \/ ReceiveCreated \/ ReceiveDescribed \/ CallCrashes
    BY <2>3, ReceiptsKeep
  <2>4. CASE PollAgain \/ GiveUp \/ Found \/ CompareMissingState
    BY <2>4, LoopKeeps
  <2>5. CASE StrayArrives \/ ServerMoves \/ UNCHANGED vars
    <3>1. UNCHANGED <<pc, request, reply, snap, known, wait, last>>
      BY <2>5 DEF StrayArrives, ServerMoves, vars
    <3> QED BY <3>1, ServerKeeps
  <2> QED BY <2>1, <2>2, <2>3, <2>4, <2>5 DEF Next, Progress, Dead
<1> QED BY <1>1, <1>2 DEF Kept, IInv

-----------------------------------------------------------------------------
(* The invariant of instance.c's calls and of the waits made of them.       *)
THEOREM Invariance == Spec => []IInv
BY InvInit, InvNext, PTL DEF Spec

(* What a lookup returns exists and is well formed, in particular.          *)
THEOREM TypeCorrect == Spec => []TypeOK
<1>1. IInv => TypeOK
  BY DEF IInv
<1> QED BY <1>1, Invariance, PTL

(* For any number of instances: a call that returns 0 did what it was asked *)
(* for, unless the server's refusal was lost, whatever the server, its      *)
(* other clients and this client's stray requests have done in between.     *)
THEOREM SuccessMeansDoneAlways == Spec => []SuccessMeansDone
<1>1. IInv => SuccessMeansDone
  BY DEF IInv
<1> QED BY <1>1, Invariance, PTL

(* For any number of polls: a wait of wait_for_instance_boot() ends as      *)
(* WaitOutcome says; an instance that is given up and destroyed was not     *)
(* seen running, and stays gone.                                            *)
THEOREM WaitOutcomeAlways == Spec => []WaitOutcome
<1>1. IInv => WaitOutcome
  BY DEF IInv
<1> QED BY <1>1, Invariance, PTL

(* A step that fills the structure finds it freed.                          *)
LEMMA StepFillsFreed == IInv /\ [Next]_vars => [snap' \notin {snap, NULL} => snap = NULL]_vars
<1> SUFFICES ASSUME IInv, Next, snap' \notin {snap, NULL} PROVE snap = NULL
  BY DEF vars
<1>1. CASE ReceiveDescribed
  BY <1>1 DEF ReceiveDescribed, IInv, RequestInv
<1>2. CASE FreeInstance \/ PollAgain
  BY <1>2 DEF FreeInstance, PollAgain
<1>3. CASE snap' = snap
  BY <1>3
<1>4. CASE CreateInstance \/ GetInstanceById \/ InstanceAction \/ InstanceDestroy \/ WaitForInstanceBoot
  BY <1>4 DEF CreateInstance, GetInstanceById, InstanceAction, InstanceDestroy, WaitForInstanceBoot
<1>5. CASE Refuse \/ Perform \/ Describe \/ TransferFails \/ ReceiveChanged \/ ReceiveCreated
            \/ CallCrashes \/ StrayArrives \/ ServerMoves
  BY <1>5 DEF Refuse, Perform, Describe, TransferFails, ReceiveChanged, ReceiveCreated, CallCrashes,
              StrayArrives, ServerMoves
<1>6. CASE GiveUp \/ Found \/ CompareMissingState \/ Dead
  BY <1>6 DEF GiveUp, Found, CompareMissingState, Dead, vars
<1> QED BY <1>1, <1>2, <1>4, <1>5, <1>6 DEF Next, Progress

(* No structure that holds an instance is filled with another: neither      *)
(* deltacloud_get_instance_by_id() nor a poll loses one.                    *)
THEOREM SnapshotsFreed == Spec => NoSnapshotOverwritten
<1>1. IInv /\ [Next]_vars => [snap' \notin {snap, NULL} => snap = NULL]_vars
  BY StepFillsFreed
<1> QED BY <1>1, Invariance, PTL DEF Spec, NoSnapshotOverwritten
=============================================================================
