---------------------------- MODULE ApiLifecycle ----------------------------
(***************************************************************************)
(* The life of one struct deltacloud_api in the hands of one client:       *)
(* deltacloud_initialize() step by step with every allocation and the      *)
(* transfer able to fail, deltacloud_free(), and again.  An allocation is  *)
(* counted under the field (or local variable) it was made for; a pointer  *)
(* to it is modelled by where its text came from.                          *)
(***************************************************************************)
EXTENDS TransferResults

CONSTANTS
  Garbage,  \* what an uninitialised structure holds
  MaxCalls  \* bound on the calls of deltacloud_initialize

ASSUME LifecycleAssumption ==
  /\ MaxCalls \in Nat
  /\ {NULL, Garbage} \cap {"client", "server", "good", "error", "malformed"} = {}

Fields == {"url", "user", "password", "driver", "provider", "version", "links"}

\* The arguments in the order they are copied, and what follows each copy.
CopyNext ==
  [url |-> "user", user |-> "password", password |-> "driver",
   driver |-> "provider", provider |-> "transfer"]

VARIABLES
  pc,          \* "idle", the argument to copy next, or a later step
  api,         \* api[f]: NULL, Garbage, or whose text the field points at
  initialized, \* TRUE for 0xfeedbeef
  live,        \* live[f]: allocations made for f and not freed
  reply,       \* the body get_url handed over
  calls,
  overwritten, \* the client initialised a usable api without freeing it
  ret          \* what the last deltacloud_initialize returned

vars == <<pc, api, initialized, live, reply, calls, overwritten, ret>>

Replies == {"good", "error", "malformed"}

(* The types; no allocation is freed more often than it was made.           *)
TypeOK ==
  /\ pc \in {"idle", "transfer", "classify", "parse", "finish", "cleanup"}
            \cup DOMAIN CopyNext
  /\ api \in [Fields -> {"client", "server", NULL, Garbage}]
  /\ initialized \in BOOLEAN
  /\ live \in [Fields \cup {"data"} -> 0..(3 * MaxCalls)]
  /\ reply \in Replies \cup {NULL}
  /\ calls \in 0..MaxCalls
  /\ overwritten \in BOOLEAN
  /\ ret \in {-1, 0}

Init ==
  /\ pc = "idle"
  /\ api = [f \in Fields |-> Garbage]
  /\ initialized = FALSE
  /\ live = [f \in Fields \cup {"data"} |-> 0]
  /\ reply = NULL
  /\ calls = 0
  /\ overwritten = FALSE
  /\ ret = -1

Zeroed == [f \in Fields |-> NULL]
Holds(f) == api[f] \notin {NULL, Garbage}

\* The allocations of the fields in fs, one each, are added or freed.
Allocate(fs) == [f \in DOMAIN live |-> IF f \in fs THEN live[f] + 1 ELSE live[f]]
Release(fs) == [f \in DOMAIN live |-> IF f \in fs THEN live[f] - 1 ELSE live[f]]

-----------------------------------------------------------------------------
(* deltacloud_initialize()                                                  *)
\* No error slot, or a NULL argument: the structure is not touched.
Refuse ==
  /\ pc = "idle" /\ calls < MaxCalls
  /\ calls' = calls + 1
  /\ ret' = -1
  /\ UNCHANGED <<pc, api, initialized, live, reply, overwritten>>

\* The memset: what the structure pointed at is forgotten, not freed.
Begin ==
  /\ pc = "idle" /\ calls < MaxCalls
  /\ calls' = calls + 1
  /\ overwritten' = (overwritten \/ initialized)
  /\ api' = Zeroed
  /\ initialized' = FALSE
  /\ ret' = -1
  /\ pc' = "url"
  /\ UNCHANGED <<live, reply>>

\* Mutant: the result of strdup is not looked at.
CopyArgumentUnchecked(f) ==
  /\ pc = f
  /\ \/ api' = [api EXCEPT ![f] = "client"] /\ live' = Allocate({f})
     \/ UNCHANGED <<api, live>>
  /\ pc' = CopyNext[f]
  /\ UNCHANGED <<initialized, reply, calls, overwritten, ret>>

\* One strdup of an argument; only the first one fails without a cleanup.
CopyArgument(f) ==
  /\ pc = f
  /\ \/ /\ api' = [api EXCEPT ![f] = "client"]
        /\ live' = Allocate({f})
        /\ pc' = CopyNext[f]
     \/ /\ pc' = IF f = "url" THEN "idle" ELSE "cleanup"
        /\ UNCHANGED <<api, live>>
  /\ UNCHANGED <<initialized, reply, calls, overwritten, ret>>

Transfer ==
  /\ pc = "transfer"
  /\ \E body \in {<<>>} \cup {<<r>> : r \in Replies} :
     \E result \in Outcomes([body |-> body, header |-> <<>>], {"GET_URL", "OOM"}) :
       /\ pc' = IF result.ret = 0 THEN "classify" ELSE "cleanup"
       /\ reply' = IF result.data = NULL THEN NULL ELSE result.data[1]
       /\ live' = IF result.data = NULL THEN live ELSE Allocate({"data"})
  /\ UNCHANGED <<api, initialized, calls, overwritten, ret>>

Classify ==
  /\ pc = "classify"
  /\ pc' = IF reply \in {NULL, "error"} THEN "cleanup" ELSE "parse"
  /\ UNCHANGED <<api, initialized, live, reply, calls, overwritten, ret>>

(* parse_api_xml stores the driver and version the server names, over what  *)
(* was there (an attribute that is missing reads as NULL), and the links.   *)
Parsed(fs) ==
  [f \in Fields |->
     IF f \in fs THEN "server" ELSE IF f = "driver" THEN NULL ELSE api[f]]

Parse ==
  /\ pc = "parse"
  /\ \/ /\ pc' = "cleanup"
        /\ UNCHANGED <<api, live>>
     \/ /\ reply = "good"
        /\ \E fs \in SUBSET {"driver", "version", "links"} :
             /\ api' = Parsed(fs)
             /\ live' = Allocate(fs)
             /\ pc' \in {"finish", "cleanup"}
  /\ UNCHANGED <<initialized, reply, calls, overwritten, ret>>

\* Mutant: the answer is freed here and at the cleanup label.
FinishFreeingTwice ==
  /\ pc = "finish"
  /\ api' = [api EXCEPT !["driver"] = "client", !["provider"] = "client"]
  /\ live' = [Allocate({"driver", "provider"}) EXCEPT !["data"] = @ - 2]
  /\ reply' = NULL
  /\ initialized' = TRUE
  /\ ret' = 0
  /\ pc' = "idle"
  /\ UNCHANGED <<calls, overwritten>>

\* The last two strdups are not checked, and replace what was there.
Finish ==
  /\ pc = "finish"
  /\ \E fs \in SUBSET {"driver", "provider"} :
       /\ api' = [f \in Fields |->
                    IF f \in fs THEN "client"
                    ELSE IF f \in {"driver", "provider"} THEN NULL ELSE api[f]]
       /\ live' = [Allocate(fs) EXCEPT !["data"] = @ - 1]
  /\ reply' = NULL
  /\ initialized' = TRUE
  /\ ret' = 0
  /\ pc' = "idle"
  /\ UNCHANGED <<calls, overwritten>>

(* internal_free(): every field is freed and the structure cleared.         *)
InternalFree ==
  /\ api' = Zeroed
  /\ initialized' = FALSE

\* Mutant: initialize leaves the freeing to its caller.
ReturnHalfBuilt ==
  /\ pc = "cleanup"
  /\ live' = [live EXCEPT !["data"] = IF reply = NULL THEN @ ELSE @ - 1]
  /\ reply' = NULL
  /\ pc' = "idle"
  /\ UNCHANGED <<api, initialized, calls, overwritten, ret>>

\* Mutant: the links are not freed.
CleanupKeepingLinks ==
  /\ pc = "cleanup"
  /\ live' = Release({f \in Fields \ {"links"} : Holds(f)}
                     \cup (IF reply = NULL THEN {} ELSE {"data"}))
  /\ InternalFree
  /\ reply' = NULL
  /\ pc' = "idle"
  /\ UNCHANGED <<calls, overwritten, ret>>

CleanupFailed ==
  /\ pc = "cleanup"
  /\ live' = Release({f \in Fields : Holds(f)}
                     \cup (IF reply = NULL THEN {} ELSE {"data"}))
  /\ InternalFree
  /\ reply' = NULL
  /\ pc' = "idle"
  /\ UNCHANGED <<calls, overwritten, ret>>

\* Mutant: the structure is not cleared, so that it still passes for usable.
FreeKeepingMagic ==
  /\ pc = "idle"
  /\ initialized
  /\ live' = Release({f \in Fields : Holds(f)})
  /\ UNCHANGED <<pc, api, initialized, reply, calls, overwritten, ret>>

(* deltacloud_free(): valid_api() refuses a structure without the magic.    *)
Free ==
  /\ pc = "idle"
  /\ initialized
  /\ live' = Release({f \in Fields : Holds(f)})
  /\ InternalFree
  /\ UNCHANGED <<pc, reply, calls, overwritten, ret>>

FreeRefused ==
  /\ pc = "idle"
  /\ ~initialized
  /\ UNCHANGED vars

Next ==
  \/ Refuse \/ Begin \/ (\E f \in DOMAIN CopyNext : CopyArgument(f))
  \/ Transfer \/ Classify \/ Parse \/ Finish \/ CleanupFailed
  \/ Free \/ FreeRefused

Spec == Init /\ [][Next]_vars

-----------------------------------------------------------------------------
(* Between calls a structure is either usable or holds nothing: no failed   *)
(* initialisation, and no free, leaves a half-built api behind.             *)
UsableOrEmpty ==
  pc = "idle" /\ ~initialized => \A f \in Fields : ~Holds(f)

(* Nothing is freed that is not allocated, through any sequence of          *)
(* initialisations and frees, repeated ones included: what a field points   *)
(* at is live.                                                              *)
NoDanglingField ==
  \A f \in Fields \cup {"data"} :
    live[f] >= (IF f = "data" THEN 0 ELSE IF Holds(f) THEN 1 ELSE 0)

(* For a client that frees what it initialised, every allocation but those  *)
(* of the driver and the provider is freed or in the structure.             *)
OthersAccountedFor ==
  ~overwritten /\ pc = "idle" =>
    /\ live["data"] = 0
    /\ \A f \in Fields \ {"driver", "provider"} : live[f] = IF Holds(f) THEN 1 ELSE 0

(* A usable api was filled in from an answer of the server, and carries the *)
(* credentials its requests need.  The driver is never the one the server   *)
(* named; it and the provider are missing when their second copy failed.    *)
UsableMeansConnected ==
  initialized =>
    /\ \A f \in {"url", "user", "password"} : api[f] = "client"
    /\ \A f \in {"driver", "provider"} : api[f] \in {"client", NULL}
    /\ \A f \in {"version", "links"} : api[f] \in {"server", NULL}
=============================================================================
