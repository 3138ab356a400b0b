-------------------------- MODULE ApiLifecycleProofs --------------------------
(***************************************************************************)
(* Proofs about ApiLifecycle for any number of initialisations and frees.  *)
(***************************************************************************)
EXTENDS ApiLifecycle, TLAPS

Arguments == {"url", "user", "password", "driver", "provider"}

(* The arguments copied when the one at f comes next.                       *)
CopiedAt ==
  [url |-> {}, user |-> {"url"}, password |-> {"url", "user"},
   driver |-> {"url", "user", "password"},
   provider |-> {"url", "user", "password", "driver"}]

(* The types, but for the bounds on what is allocated.                      *)
ShapeInv ==
  /\ pc \in Arguments \cup {"idle", "transfer", "classify", "parse", "finish", "cleanup"}
  /\ api \in [Fields -> {"client", "server", NULL, Garbage}]
  /\ initialized \in BOOLEAN
  /\ live \in [Fields \cup {"data"} -> Int]
  /\ reply \in Replies \cup {NULL}
  /\ calls \in 0..MaxCalls
  /\ overwritten \in BOOLEAN
  /\ ret \in {-1, 0}

(* What the structure holds at each step of an initialisation.              *)
BuildInv ==
  /\ pc \in Arguments =>
       \A f \in Fields : api[f] = IF f \in CopiedAt[pc] THEN "client" ELSE NULL
  /\ pc \in {"transfer", "classify", "parse"} =>
       \A f \in Fields : api[f] = IF f \in Arguments THEN "client" ELSE NULL
  /\ pc = "finish" => \A f \in {"url", "user", "password"} : api[f] = "client"
  /\ pc = "finish" => \A f \in {"version", "links"} : api[f] \in {"server", NULL}
  /\ pc \notin {"classify", "parse", "finish", "cleanup"} => reply = NULL
  /\ pc \in {"parse", "finish"} => reply # NULL
  /\ initialized => pc = "idle"

(* What is pointed at is live, and for a client that frees what it          *)
(* initialised, nothing else is but driver and provider.                    *)
HeldInv ==
  /\ \A f \in Fields : live[f] >= 0 /\ (Holds(f) => live[f] >= 1)
  /\ live["data"] >= 0 /\ (reply # NULL => live["data"] >= 1)
  /\ ~overwritten =>
       /\ live["data"] = (IF reply = NULL THEN 0 ELSE 1)
       /\ \A f \in Fields \ {"driver", "provider"} : live[f] = IF Holds(f) THEN 1 ELSE 0

(* Three allocations at most are made for a field in one initialisation.    *)
RoomInv ==
  /\ pc # "idle" => calls >= 1
  /\ \A f \in Fields \cup {"data"} :
       /\ live[f] <= 3 * calls
       /\ pc \in Arguments =>
            live[f] <= 3 * calls - 2 /\ (f \notin CopiedAt[pc] => live[f] <= 3 * calls - 3)
       /\ pc = "transfer" =>
            live[f] <= 3 * calls - 2 /\ (f \notin Arguments => live[f] <= 3 * calls - 3)
       /\ pc \in {"classify", "parse"} => live[f] <= 3 * calls - 2
       /\ pc = "finish" => live[f] <= 3 * calls - 1

IInv == ShapeInv /\ BuildInv /\ HeldInv /\ RoomInv /\ UsableOrEmpty /\ UsableMeansConnected

-----------------------------------------------------------------------------
(* What happens to the counts.                                              *)
LEMMA Counts ==
  ASSUME live \in [Fields \cup {"data"} -> Int], NEW fs \in SUBSET (Fields \cup {"data"})
  PROVE  /\ Allocate(fs) \in [Fields \cup {"data"} -> Int]
         /\ Release(fs) \in [Fields \cup {"data"} -> Int]
         /\ \A f \in Fields \cup {"data"} :
              /\ Allocate(fs)[f] = IF f \in fs THEN live[f] + 1 ELSE live[f]
              /\ Release(fs)[f] = IF f \in fs THEN live[f] - 1 ELSE live[f]
BY DEF Allocate, Release

(* The invariant holds before the first call.                               *)
LEMMA InvInit == Init => IInv
<1> SUFFICES ASSUME Init PROVE IInv
  OBVIOUS
<1> USE LifecycleAssumption DEF Init, Fields
<1>1. ShapeInv
  <2>1. initialized \in BOOLEAN /\ overwritten \in BOOLEAN /\ reply \in Replies \cup {NULL}
    OBVIOUS
  <2>2. calls \in 0..MaxCalls /\ ret \in {-1, 0}
    OBVIOUS
  <2>3. live \in [Fields \cup {"data"} -> Int]
    OBVIOUS
  <2>4. api \in [Fields -> {"client", "server", NULL, Garbage}]
    OBVIOUS
  <2> QED BY <2>1, <2>2, <2>3, <2>4 DEF ShapeInv
<1>2. BuildInv
  BY DEF BuildInv, Arguments
<1>3. HeldInv
  BY DEF HeldInv, Holds
<1>4. RoomInv
  BY DEF RoomInv, Arguments
<1>5. UsableOrEmpty
  BY DEF UsableOrEmpty, Holds
<1>6. UsableMeansConnected
  BY DEF UsableMeansConnected
<1> QED BY <1>1, <1>2, <1>3, <1>4, <1>5, <1>6 DEF IInv

(* The copy of an argument keeps the invariant, whether it can be made or   *)
(* not.                                                                     *)
LEMMA CopyKeeps ==
  ASSUME IInv, NEW g \in DOMAIN CopyNext, CopyArgument(g)
  PROVE  IInv'
<1> USE LifecycleAssumption
<1>1. g \in Arguments /\ pc = g /\ pc \in Arguments /\ g \in Fields /\ Arguments \subseteq Fields
  BY DEF CopyNext, Arguments, CopyArgument, Fields
<1>2. UNCHANGED <<initialized, reply, calls, overwritten, ret>> /\ ~initialized
  BY <1>1 DEF CopyArgument, IInv, BuildInv, Arguments
<1>3. api \in [Fields -> {"client", "server", NULL, Garbage}] /\ live \in [Fields \cup {"data"} -> Int]
  BY DEF IInv, ShapeInv
<1>4. \A f \in Fields : api[f] = IF f \in CopiedAt[g] THEN "client" ELSE NULL
  BY <1>1 DEF IInv, BuildInv
<1>5. g \notin CopiedAt[g] /\ CopiedAt[g] \subseteq Arguments
  BY <1>1 DEF CopiedAt, Arguments
<1>6. CASE /\ api' = [api EXCEPT ![g] = "client"] /\ live' = Allocate({g}) /\ pc' = CopyNext[g]
  <2>1. /\ live' \in [Fields \cup {"data"} -> Int]
        /\ \A f \in Fields \cup {"data"} : live'[f] = IF f = g THEN live[f] + 1 ELSE live[f]
    BY <1>1, <1>3, <1>6, Counts
  <2>2. /\ api' \in [Fields -> {"client", "server", NULL, Garbage}]
        /\ \A f \in Fields : api'[f] = IF f = g THEN "client" ELSE api[f]
    BY <1>1, <1>3, <1>6
  <2>3. /\ CopyNext[g] \in Arguments => CopiedAt[CopyNext[g]] = CopiedAt[g] \cup {g}
        /\ CopyNext[g] \notin Arguments => CopyNext[g] = "transfer" /\ Arguments = CopiedAt[g] \cup {g}
    BY <1>1 DEF CopyNext, CopiedAt, Arguments
  <2>4. pc' \in Arguments \/ pc' = "transfer"
    BY <1>6, <2>3
  <2>5. ShapeInv'
    BY <1>2, <2>1, <2>2, <2>4 DEF IInv, ShapeInv
  <2>6. \A f \in Fields : api'[f] = IF f \in CopiedAt[g] \cup {g} THEN "client" ELSE NULL
    BY <1>4, <2>2
  <2>7. BuildInv'
    BY <1>1, <1>2, <1>6, <2>3, <2>4, <2>6 DEF IInv, BuildInv, Arguments
  <2>8. HeldInv'
    <3>1. ~Holds(g)
      BY <1>1, <1>4, <1>5 DEF Holds
    <3>2. g # "data"
      BY <1>1 DEF Fields
    <3>3. \A f \in Fields : f # g => (Holds(f)' <=> Holds(f))
      BY <2>2 DEF Holds
    <3>4. Holds(g)'
      BY <1>1, <2>2 DEF Holds
    <3> QED BY <1>1, <1>2, <1>3, <2>1, <3>1, <3>2, <3>3, <3>4 DEF IInv, HeldInv
  <2>9. RoomInv'
    <3>1. calls \in Int /\ calls >= 1
      BY <1>1 DEF IInv, ShapeInv, RoomInv, Arguments
    <3>2. \A f \in Fields \cup {"data"} :
            live[f] <= 3 * calls - 2 /\ (f \notin CopiedAt[g] => live[f] <= 3 * calls - 3)
      BY <1>1 DEF IInv, RoomInv
    <3>3. \A f \in Fields \cup {"data"} :
            live'[f] <= 3 * calls - 2 /\ (f \notin CopiedAt[g] \cup {g} => live'[f] <= 3 * calls - 3)
      BY <1>3, <1>5, <2>1, <3>1, <3>2
    <3>4. \A f \in Fields \cup {"data"} : live'[f] <= 3 * calls
      BY <2>1, <3>1, <3>3
    <3> QED BY <1>2, <1>6, <2>3, <2>4, <3>1, <3>3, <3>4 DEF RoomInv, Arguments
  <2>10. UsableOrEmpty' /\ UsableMeansConnected'
    BY <1>2, <2>4 DEF UsableOrEmpty, UsableMeansConnected, Arguments
  <2> QED BY <2>5, <2>7, <2>8, <2>9, <2>10 DEF IInv
<1>7. CASE pc' = (IF g = "url" THEN "idle" ELSE "cleanup") /\ UNCHANGED <<api, live>>
  <2>1. pc' \in {"idle", "cleanup"} /\ (pc' = "idle" => g = "url")
    BY <1>7
  <2>2. ShapeInv' /\ HeldInv'
    BY <1>2, <1>7, <2>1 DEF IInv, ShapeInv, HeldInv, Holds
  <2>3. BuildInv'
    BY <1>1, <1>2, <2>1 DEF IInv, BuildInv, Arguments
  <2>4. RoomInv'
    BY <1>1, <1>2, <1>7, <2>1 DEF IInv, RoomInv, Arguments
  <2>5. UsableOrEmpty' /\ UsableMeansConnected'
    BY <1>2, <1>4, <1>7, <2>1 DEF UsableOrEmpty, UsableMeansConnected, Holds, CopiedAt
  <2> QED BY <2>2, <2>3, <2>4, <2>5 DEF IInv
<1> QED BY <1>6, <1>7 DEF CopyArgument

(* The other steps of deltacloud_initialize() keep it.                      *)
LEMMA StartKeeps ==
  ASSUME IInv, Refuse \/ Begin
  PROVE  IInv'
<1> USE LifecycleAssumption
<1>1. pc = "idle" /\ calls < MaxCalls /\ calls' = calls + 1 /\ ret' = -1 /\ UNCHANGED <<live, reply>>
  BY DEF Refuse, Begin
<1>2. calls \in Nat /\ calls' \in 0..MaxCalls /\ calls' >= 1 /\ live \in [Fields \cup {"data"} -> Int]
  BY <1>1 DEF IInv, ShapeInv
<1>3. \A f \in Fields \cup {"data"} : live'[f] <= 3 * calls' - 3
  BY <1>1, <1>2 DEF IInv, RoomInv
<1>4. CASE Refuse
  <2>1. UNCHANGED <<pc, api, initialized, overwritten>>
    BY <1>4 DEF Refuse
  <2>2. ShapeInv'
    BY <1>1, <1>2, <2>1 DEF IInv, ShapeInv
  <2>3. BuildInv' /\ HeldInv'
    BY <1>1, <2>1 DEF IInv, BuildInv, HeldInv, Holds
  <2>4. RoomInv'
    BY <1>1, <1>2, <1>3, <2>1 DEF RoomInv, Arguments
  <2>5. UsableOrEmpty' /\ UsableMeansConnected'
    BY <2>1 DEF IInv, UsableOrEmpty, UsableMeansConnected, Holds
  <2> QED BY <2>2, <2>3, <2>4, <2>5 DEF IInv
<1>5. CASE Begin
  <2>1. api' = Zeroed /\ initialized' = FALSE /\ pc' = "url" /\ overwritten' = (overwritten \/ initialized)
    BY <1>5 DEF Begin
  <2>2. api' \in [Fields -> {"client", "server", NULL, Garbage}] /\ \A f \in Fields : api'[f] = NULL
    BY <2>1 DEF Zeroed
  <2>3. ShapeInv'
    <3>1. overwritten' \in BOOLEAN /\ initialized' \in BOOLEAN /\ reply' \in Replies \cup {NULL}
      BY <1>1, <2>1 DEF IInv, ShapeInv
    <3> QED BY <1>1, <1>2, <2>1, <2>2, <3>1 DEF ShapeInv, Arguments
  <2>4. BuildInv'
    BY <1>1, <2>1, <2>2 DEF IInv, BuildInv, Arguments, CopiedAt
  <2>5. HeldInv'
    <3>1. \A f \in Fields : ~Holds(f)'
      BY <2>2 DEF Holds
    <3>2. ~overwritten' => \A f \in Fields : ~Holds(f)
      BY <1>1, <2>1 DEF IInv, UsableOrEmpty
    <3>3. ~overwritten' => ~overwritten
      BY <2>1
    <3> QED BY <1>1, <3>1, <3>2, <3>3 DEF IInv, HeldInv
  <2>6. RoomInv'
    <3>1. \A f \in Fields \cup {"data"} : live'[f] <= 3 * calls' /\ live'[f] <= 3 * calls' - 2
      BY <1>1, <1>2, <1>3
    <3> QED BY <1>2, <1>3, <2>1, <3>1 DEF RoomInv, Arguments
  <2>7. UsableOrEmpty' /\ UsableMeansConnected'
    BY <2>1 DEF UsableOrEmpty, UsableMeansConnected
  <2> QED BY <2>3, <2>4, <2>5, <2>6, <2>7 DEF IInv
<1> QED BY <1>4, <1>5

(* A transfer hands over one of the replies, or nothing.                    *)
LEMMA TransferKeeps ==
  ASSUME IInv, Transfer
  PROVE  IInv'
<1> USE LifecycleAssumption
<1>1. pc = "transfer" /\ reply = NULL /\ ~initialized
  BY DEF Transfer, IInv, BuildInv
<1>2. /\ UNCHANGED <<api, initialized, calls, overwritten, ret>>
      /\ pc' \in {"classify", "cleanup"}
  BY DEF Transfer
<1>3. \/ reply' = NULL /\ live' = live
      \/ reply' \in Replies /\ live' = Allocate({"data"})
  <2>1. PICK body \in {<<>>} \cup {<<r>> : r \in Replies} :
          \E result \in Outcomes([body |-> body, header |-> <<>>], {"GET_URL", "OOM"}) :
            /\ reply' = IF result.data = NULL THEN NULL ELSE result.data[1]
            /\ live' = IF result.data = NULL THEN live ELSE Allocate({"data"})
    BY DEF Transfer
  <2>2. PICK result \in Outcomes([body |-> body, header |-> <<>>], {"GET_URL", "OOM"}) :
            /\ reply' = IF result.data = NULL THEN NULL ELSE result.data[1]
            /\ live' = IF result.data = NULL THEN live ELSE Allocate({"data"})
    BY <2>1
  <2>3. result.data = NULL \/ (body # <<>> /\ result.data = body)
    BY DEF Outcomes, Failed, Succeeded, CopyOf
  <2>4. body # <<>> => body[1] \in Replies
    OBVIOUS
  <2> QED BY <2>2, <2>3, <2>4
<1>4. /\ live \in [Fields \cup {"data"} -> Int] /\ calls \in Nat /\ "data" \notin Fields
      /\ live' \in [Fields \cup {"data"} -> Int]
      /\ \A f \in Fields : live'[f] = live[f]
      /\ live'["data"] = IF reply' = NULL THEN live["data"] ELSE live["data"] + 1
  <2>1. live \in [Fields \cup {"data"} -> Int] /\ calls \in Nat /\ "data" \notin Fields
    BY DEF IInv, ShapeInv, Fields
  <2>2. NULL \notin Replies
    BY DEF Replies
  <2> QED BY <1>3, <2>1, <2>2, Counts
<1>5. ShapeInv'
  BY <1>2, <1>3, <1>4 DEF IInv, ShapeInv
<1>6. BuildInv'
  BY <1>1, <1>2 DEF IInv, BuildInv, Arguments
<1>7. HeldInv'
  <2>1. \A f \in Fields : Holds(f)' <=> Holds(f)
    BY <1>2 DEF Holds
  <2> QED BY <1>1, <1>2, <1>4, <2>1 DEF IInv, HeldInv
<1>8. RoomInv'
  <2>1. \A f \in Fields \cup {"data"} :
          live[f] <= 3 * calls - 2 /\ (f \notin Arguments => live[f] <= 3 * calls - 3)
    BY <1>1 DEF IInv, RoomInv
  <2>2. calls >= 1 /\ "data" \notin Arguments
    BY <1>1 DEF IInv, RoomInv, Arguments
  <2>3. \A f \in Fields \cup {"data"} : live'[f] <= 3 * calls - 2
    BY <1>4, <2>1, <2>2
  <2>4. \A f \in Fields \cup {"data"} : live'[f] <= 3 * calls
    BY <1>4, <2>3
  <2> QED BY <1>2, <2>2, <2>3, <2>4 DEF RoomInv, Arguments
<1>9. UsableOrEmpty' /\ UsableMeansConnected'
  BY <1>1, <1>2 DEF UsableOrEmpty, UsableMeansConnected
<1> QED BY <1>5, <1>6, <1>7, <1>8, <1>9 DEF IInv

(* An answer is looked at.                                                  *)
LEMMA ClassifyKeeps ==
  ASSUME IInv, Classify
  PROVE  IInv'
<1> USE LifecycleAssumption
<1>1. /\ pc = "classify" /\ pc' \in {"cleanup", "parse"} /\ (pc' = "parse" => reply # NULL)
      /\ UNCHANGED <<api, initialized, live, reply, calls, overwritten, ret>>
  BY DEF Classify
<1>2. ShapeInv' /\ HeldInv'
  BY <1>1 DEF IInv, ShapeInv, HeldInv, Holds
<1>3. BuildInv'
  BY <1>1 DEF IInv, BuildInv, Arguments
<1>4. RoomInv'
  BY <1>1 DEF IInv, RoomInv, Arguments
<1>5. UsableOrEmpty' /\ UsableMeansConnected'
  BY <1>1 DEF IInv, UsableOrEmpty, UsableMeansConnected, BuildInv
<1> QED BY <1>2, <1>3, <1>4, <1>5 DEF IInv

(* It is parsed, as far as memory goes.                                     *)
LEMMA ParseKeeps ==
  ASSUME IInv, Parse
  PROVE  IInv'
<1> USE LifecycleAssumption
<1>1. /\ pc = "parse" /\ reply # NULL /\ ~initialized
      /\ UNCHANGED <<initialized, reply, calls, overwritten, ret>>
  BY DEF Parse, IInv, BuildInv
<1>2. /\ live \in [Fields \cup {"data"} -> Int] /\ calls \in Nat /\ "data" \notin Fields
      /\ api \in [Fields -> {"client", "server", NULL, Garbage}]
  BY DEF IInv, ShapeInv, Fields
<1>3. \A f \in Fields : api[f] = IF f \in Arguments THEN "client" ELSE NULL
  BY <1>1 DEF IInv, BuildInv
<1>4. PICK fs \in SUBSET {"driver", "version", "links"} :
        /\ live' = (IF fs = {} THEN live ELSE Allocate(fs))
        /\ pc' \in {"finish", "cleanup"}
        /\ api' \in {api, Parsed(fs)} /\ (fs # {} \/ pc' = "finish" => api' = Parsed(fs))
  <2>1. CASE pc' = "cleanup" /\ UNCHANGED <<api, live>>
    BY <2>1
  <2>2. ASSUME NEW fs \in SUBSET {"driver", "version", "links"},
               api' = Parsed(fs), live' = Allocate(fs), pc' \in {"finish", "cleanup"}
        PROVE  live' = (IF fs = {} THEN live ELSE Allocate(fs))
    BY <2>2, <1>2 DEF Allocate
  <2> QED BY <2>1, <2>2 DEF Parse
<1>5. /\ live' \in [Fields \cup {"data"} -> Int]
      /\ \A f \in Fields \cup {"data"} : live'[f] = IF f \in fs THEN live[f] + 1 ELSE live[f]
  <2>1. fs \in SUBSET (Fields \cup {"data"})
    BY DEF Fields
  <2> QED BY <1>2, <1>4, <2>1, Counts
<1>6. /\ api' \in [Fields -> {"client", "server", NULL, Garbage}]
      /\ \A f \in Fields \ {"driver"} : api'[f] = IF f \in fs THEN "server" ELSE api[f]
      /\ api'["driver"] \in {"server", NULL, "client"}
      /\ api'["driver"] = "server" => "driver" \in fs
  <2>1. CASE api' = api
    BY <1>2, <1>3, <1>4, <2>1 DEF Parsed, Fields, Arguments
  <2>2. CASE api' = Parsed(fs)
    BY <1>2, <1>3, <2>2 DEF Parsed, Fields
  <2> QED BY <1>4, <2>1, <2>2
<1>7. ShapeInv'
  BY <1>1, <1>4, <1>5, <1>6 DEF IInv, ShapeInv
<1>8. BuildInv'
  <2>1. \A f \in {"url", "user", "password"} : api'[f] = "client"
    BY <1>3, <1>6 DEF Fields, Arguments
  <2>2. \A f \in {"version", "links"} : api'[f] \in {"server", NULL}
    BY <1>3, <1>6 DEF Fields, Arguments
  <2> QED BY <1>1, <1>4, <2>1, <2>2 DEF BuildInv, Arguments
<1>9. HeldInv'
  <2>1. \A f \in Fields : live[f] >= 0 /\ (Holds(f) => live[f] >= 1)
    BY DEF IInv, HeldInv
  <2>2. \A f \in Fields \ {"driver"} : Holds(f)' <=> (f \in fs \/ Holds(f))
    BY <1>6 DEF Holds
  <2>3. \A f \in Fields \ {"driver"} : f \in fs => ~Holds(f)
    BY <1>3 DEF Holds, Arguments, Fields
  <2>4. Holds("driver") /\ "driver" \in Fields
    BY <1>3 DEF Holds, Arguments, Fields
  <2>5. \A f \in Fields : live'[f] >= 0 /\ (Holds(f)' => live'[f] >= 1)
    BY <1>2, <1>5, <2>1, <2>2, <2>4
  <2>6. live'["data"] = live["data"]
    BY <1>5
  <2> QED BY <1>1, <1>5, <2>2, <2>3, <2>5, <2>6 DEF IInv, HeldInv
<1>10. RoomInv'
  <2>1. calls >= 1 /\ \A f \in Fields \cup {"data"} : live[f] <= 3 * calls - 2
    BY <1>1 DEF IInv, RoomInv
  <2>2. \A f \in Fields \cup {"data"} : live'[f] <= 3 * calls - 1 /\ live'[f] <= 3 * calls
    BY <1>2, <1>5, <2>1
  <2> QED BY <1>1, <1>4, <2>1, <2>2 DEF RoomInv, Arguments
<1>11. UsableOrEmpty' /\ UsableMeansConnected'
  BY <1>1, <1>4 DEF UsableOrEmpty, UsableMeansConnected
<1> QED BY <1>7, <1>8, <1>9, <1>10, <1>11 DEF IInv

(* The structure is usable.                                                 *)
LEMMA FinishKeeps ==
  ASSUME IInv, Finish
  PROVE  IInv'
<1> USE LifecycleAssumption
<1>1. /\ pc = "finish" /\ pc' = "idle" /\ reply # NULL /\ reply' = NULL /\ initialized' = TRUE
      /\ ret' = 0 /\ UNCHANGED <<calls, overwritten>>
  BY DEF Finish, IInv, BuildInv
<1>2. /\ live \in [Fields \cup {"data"} -> Int] /\ calls \in Nat /\ "data" \notin Fields
      /\ api \in [Fields -> {"client", "server", NULL, Garbage}]
  BY DEF IInv, ShapeInv, Fields
<1>3. PICK fs \in SUBSET {"driver", "provider"} :
        /\ api' = [f \in Fields |->
                     IF f \in fs THEN "client"
                     ELSE IF f \in {"driver", "provider"} THEN NULL ELSE api[f]]
        /\ live' = [Allocate(fs) EXCEPT !["data"] = @ - 1]
  BY DEF Finish
<1>4. /\ live' \in [Fields \cup {"data"} -> Int]
      /\ \A f \in Fields : live'[f] = IF f \in fs THEN live[f] + 1 ELSE live[f]
      /\ live'["data"] = live["data"] - 1
  <2>1. fs \in SUBSET (Fields \cup {"data"}) /\ "data" \notin fs
    BY DEF Fields
  <2> QED BY <1>2, <1>3, <2>1, Counts
<1>5. /\ api' \in [Fields -> {"client", "server", NULL, Garbage}]
      /\ \A f \in Fields \ {"driver", "provider"} : api'[f] = api[f]
      /\ \A f \in {"driver", "provider"} :
           f \in Fields /\ api'[f] \in {"client", NULL} /\ (api'[f] = "client" => f \in fs)
  BY <1>2, <1>3 DEF Fields
<1>6. ShapeInv'
  BY <1>1, <1>4, <1>5 DEF IInv, ShapeInv
<1>7. BuildInv'
  BY <1>1 DEF BuildInv, Arguments
<1>8. HeldInv'
  <2>1. \A f \in Fields : live[f] >= 0 /\ (Holds(f) => live[f] >= 1)
    BY DEF IInv, HeldInv
  <2>2. \A f \in Fields \ {"driver", "provider"} : f \notin fs /\ (Holds(f)' <=> Holds(f))
    BY <1>5 DEF Holds
  <2>3. \A f \in {"driver", "provider"} : Holds(f)' => f \in fs
    BY <1>5 DEF Holds
  <2>4. \A f \in Fields : live'[f] >= 0 /\ (Holds(f)' => live'[f] >= 1)
    BY <1>2, <1>4, <2>1, <2>2, <2>3
  <2>5. live["data"] >= 1 /\ (~overwritten => live["data"] = 1)
    BY <1>1 DEF IInv, HeldInv
  <2> QED BY <1>1, <1>2, <1>4, <2>2, <2>4, <2>5 DEF IInv, HeldInv
<1>9. RoomInv'
  <2>1. calls >= 1 /\ \A f \in Fields \cup {"data"} : live[f] <= 3 * calls - 1
    BY <1>1 DEF IInv, RoomInv
  <2>2. \A f \in Fields \cup {"data"} : live'[f] <= 3 * calls
    BY <1>2, <1>4, <2>1
  <2> QED BY <1>1, <2>1, <2>2 DEF RoomInv, Arguments
<1>10. UsableOrEmpty'
  BY <1>1 DEF UsableOrEmpty
<1>11. UsableMeansConnected'
  BY <1>1, <1>5 DEF UsableMeansConnected, IInv, BuildInv, Fields
<1> QED BY <1>6, <1>7, <1>8, <1>9, <1>10, <1>11 DEF IInv

(* All the structure holds is freed, and it is cleared.                     *)
LEMMA FreeKeeps ==
  ASSUME IInv, CleanupFailed \/ Free
  PROVE  IInv'
<1> USE LifecycleAssumption
<1> DEFINE held == {f \in Fields : Holds(f)} \cup (IF reply = NULL THEN {} ELSE {"data"})
<1>1. /\ pc' = "idle" /\ reply' = NULL /\ initialized' = FALSE /\ api' = Zeroed
      /\ UNCHANGED <<calls, overwritten, ret>>
  BY DEF CleanupFailed, Free, InternalFree, IInv, BuildInv
<1>2. live' = Release(held)
  <2>1. CASE CleanupFailed
    BY <2>1 DEF CleanupFailed
  <2>2. CASE Free
    <3>1. reply = NULL
      BY <2>2 DEF Free, IInv, BuildInv
    <3> QED BY <2>2, <3>1 DEF Free
  <2> QED BY <2>1, <2>2
<1>3. live \in [Fields \cup {"data"} -> Int] /\ calls \in Nat /\ "data" \notin Fields
  BY DEF IInv, ShapeInv, Fields
<1>4. /\ live' \in [Fields \cup {"data"} -> Int]
      /\ \A f \in Fields : live'[f] = IF Holds(f) THEN live[f] - 1 ELSE live[f]
      /\ live'["data"] = IF reply = NULL THEN live["data"] ELSE live["data"] - 1
  <2>1. held \in SUBSET (Fields \cup {"data"})
    OBVIOUS
  <2>2. /\ live' \in [Fields \cup {"data"} -> Int]
        /\ \A f \in Fields \cup {"data"} : live'[f] = IF f \in held THEN live[f] - 1 ELSE live[f]
    BY <1>2, <1>3, <2>1, Counts
  <2>3. /\ \A f \in Fields : f \in held <=> Holds(f)
        /\ "data" \in held <=> reply # NULL
    BY <1>3
  <2> HIDE DEF held
  <2> QED BY <2>2, <2>3
<1>5. api' \in [Fields -> {"client", "server", NULL, Garbage}] /\ \A f \in Fields : ~Holds(f)'
  BY <1>1 DEF Zeroed, Holds
<1>6. ShapeInv'
  BY <1>1, <1>4, <1>5 DEF IInv, ShapeInv
<1>7. BuildInv'
  BY <1>1 DEF BuildInv, Arguments
<1>8. HeldInv'
  <2>1. \A f \in Fields : live'[f] >= 0
    BY <1>3, <1>4 DEF IInv, HeldInv
  <2>2. live'["data"] >= 0
    BY <1>3, <1>4 DEF IInv, HeldInv
  <2>3. ~overwritten => live'["data"] = 0
    BY <1>4 DEF IInv, HeldInv
  <2>4. ~overwritten => \A f \in Fields \ {"driver", "provider"} : live'[f] = 0
    BY <1>4 DEF IInv, HeldInv
  <2> QED BY <1>1, <1>5, <2>1, <2>2, <2>3, <2>4 DEF HeldInv
<1>9. RoomInv'
  <2>1. \A f \in Fields \cup {"data"} : live[f] <= 3 * calls
    BY DEF IInv, RoomInv
  <2>2. \A f \in Fields \cup {"data"} : live'[f] <= 3 * calls
    BY <1>3, <1>4, <2>1
  <2> QED BY <1>1, <2>2 DEF RoomInv, Arguments
<1>10. UsableOrEmpty' /\ UsableMeansConnected'
  BY <1>1, <1>5 DEF UsableOrEmpty, UsableMeansConnected
<1> QED BY <1>6, <1>7, <1>8, <1>9, <1>10 DEF IInv

(* Every step keeps the invariant.                                          *)
LEMMA InvNext == IInv /\ [Next]_vars => IInv'
<1> SUFFICES ASSUME IInv, [Next]_vars PROVE IInv'
  OBVIOUS
<1>1. CASE UNCHANGED vars
  BY <1>1 DEF vars, IInv, ShapeInv, BuildInv, HeldInv, RoomInv, UsableOrEmpty, UsableMeansConnected,
              Holds
<1> QED BY <1>1, StartKeeps, CopyKeeps, TransferKeeps, ClassifyKeeps, ParseKeeps, FinishKeeps, FreeKeeps
        DEF Next, FreeRefused

-----------------------------------------------------------------------------
(* The invariant of a structure that is initialised and freed.              *)
THEOREM Invariance == Spec => []IInv
BY InvInit, InvNext, PTL DEF Spec

(* The types, and that three allocations for a field is all that any one    *)
(* initialisation adds.                                                     *)
THEOREM TypeCorrect == Spec => []TypeOK
<1>1. IInv => TypeOK
  <2> SUFFICES ASSUME IInv PROVE TypeOK
    OBVIOUS
  <2> USE LifecycleAssumption
  <2>1. live \in [Fields \cup {"data"} -> Int] /\ calls \in 0..MaxCalls
    BY DEF IInv, ShapeInv
  <2>2. \A f \in Fields \cup {"data"} : live[f] \in 0..(3 * MaxCalls)
    BY <2>1 DEF IInv, RoomInv, HeldInv
  <2>3. live \in [Fields \cup {"data"} -> 0..(3 * MaxCalls)]
    BY <2>1, <2>2
  <2>4. Arguments = DOMAIN CopyNext
    BY DEF Arguments, CopyNext
  <2> QED BY <2>3, <2>4 DEF IInv, ShapeInv, TypeOK
<1> QED BY <1>1, Invariance, PTL

(* For any sequence of initialisations and frees: between calls a structure *)
(* is usable or holds nothing.                                              *)
THEOREM UsableOrEmptyAlways == Spec => []UsableOrEmpty
<1>1. IInv => UsableOrEmpty
  BY DEF IInv
<1> QED BY <1>1, Invariance, PTL

(* What a field points at is live, and nothing is freed twice.              *)
THEOREM NoDanglingFieldAlways == Spec => []NoDanglingField
<1>1. IInv => NoDanglingField
  BY DEF IInv, HeldInv, NoDanglingField, Fields
<1> QED BY <1>1, Invariance, PTL

(* For a client that frees what it initialised, only copies of the driver   *)
(* and the provider are lost.                                               *)
THEOREM OthersAccountedForAlways == Spec => []OthersAccountedFor
<1>1. IInv => OthersAccountedFor
  BY DEF IInv, HeldInv, BuildInv, OthersAccountedFor
<1> QED BY <1>1, Invariance, PTL

(* A usable structure was filled from an answer.                            *)
THEOREM UsableMeansConnectedAlways == Spec => []UsableMeansConnected
<1>1. IInv => UsableMeansConnected
  BY DEF IInv
<1> QED BY <1>1, Invariance, PTL
=============================================================================
