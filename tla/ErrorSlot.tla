----------------------------- MODULE ErrorSlot -----------------------------
(***************************************************************************)
(* The per-thread error slot of the library: the lazily created pthread    *)
(* key of libdeltacloud.c, set_error() and the slot's destructor in        *)
(* common.c, interleaved between the threads of the client at the grain of *)
(* the accesses to shared state (tlsinitialized, the key, the heap).       *)
(*                                                                         *)
(* The rest of an API call is abstracted to what it does to the slot: it   *)
(* reports any number of failures through set_error() and returns.         *)
(*                                                                         *)
(* The process has other components, with keys and thread-local data of    *)
(* their own.  The static key of the library is 0 until it is created, a   *)
(* value that may be one of theirs.  What they do with their keys while    *)
(* the library runs is left out, but for the end of a thread.              *)
(***************************************************************************)
CONSTANTS
  Threads,          \* the threads of the client program
  Codes,            \* the values of error_num
  Errs,             \* the addresses malloc can give a struct deltacloud_error
  Others,           \* the addresses of other components' thread-local data
  Keys,             \* the values of a pthread_key_t
  ZeroKey,          \* the key that a static pthread_key_t is before its creation
  Holdings,         \* the sets of keys the other components may hold
  InlineKeys,       \* the keys whose per-thread storage needs no allocation
  FirstCallers,     \* the threads that may make the program's first call
  KeyCreateMayFail, \* whether pthread_key_create may run out of resources
  None, NULL        \* no error number, no address

ASSUME ConstantsAssumption ==
  /\ None \notin Codes
  /\ NULL \notin Errs \cup Others
  /\ Errs \cap Others = {}
  /\ ZeroKey \in Keys
  /\ Holdings \subseteq SUBSET Keys
  /\ InlineKeys \subseteq Keys
  /\ FirstCallers \subseteq Threads
  /\ KeyCreateMayFail \in BOOLEAN

VARIABLES
  tlsinitialized,        \* the flag of libdeltacloud.c
  deltacloud_last_error, \* the key every thread looks its error up with
  created,               \* the keys pthread_key_create handed the library
  foreign,               \* the keys that other components had created before
  slot,                  \* slot[k][t]: what is stored under key k for thread t
  heap,                  \* what is allocated and was not freed by the library
  content,               \* error_num of the structure at each address
  pc,                    \* where each thread is
  err,                   \* local variable err of set_error
  held,                  \* the pointer get_last_error gave the client
  seen,                  \* the error number the client read through it
  ready,                 \* some deltacloud_initialize has returned
  want                   \* the failure reported last by the call in progress

keyVars == <<tlsinitialized, deltacloud_last_error, created, foreign>>
clientVars == <<held, seen>>
vars == <<tlsinitialized, deltacloud_last_error, created, foreign, slot, heap,
          content, pc, err, held, seen, ready, want>>

Places == {"idle", "claim", "create", "body", "release", "install", "failing"}

Data == Errs \cup Others \cup {NULL}

(* The types; in particular the key in use is 0 or one that                 *)
(* pthread_key_create handed out, and it hands out no key twice.            *)
TypeOK ==
  /\ tlsinitialized \in BOOLEAN
  /\ deltacloud_last_error \in created \cup {ZeroKey}
  /\ created \subseteq Keys
  /\ foreign \subseteq Keys
  /\ created \cap foreign = {}
  /\ slot \in [Keys -> [Threads -> Data]]
  /\ heap \subseteq Errs \cup Others
  /\ content \in [Errs -> Codes \cup {None}]
  /\ pc \in [Threads -> Places]
  /\ err \in [Threads -> Errs \cup {NULL}]
  /\ held \in [Threads -> Data]
  /\ seen \in [Threads -> Codes \cup {None}]
  /\ ready \in BOOLEAN
  /\ want \in [Threads -> Codes \cup {None}]

Init ==
  /\ tlsinitialized = FALSE
  /\ deltacloud_last_error = ZeroKey
  /\ created = {}
  /\ foreign \in Holdings
  /\ \E data \in [foreign -> [Threads -> Others \cup {NULL}]] :
       slot = [k \in Keys |->
                 IF k \in foreign THEN data[k] ELSE [t \in Threads |-> NULL]]
  /\ heap = Others
  /\ content = [e \in Errs |-> None]
  /\ pc = [t \in Threads |-> "idle"]
  /\ err = [t \in Threads |-> NULL]
  /\ held = [t \in Threads |-> NULL]
  /\ seen = [t \in Threads |-> None]
  /\ ready = FALSE
  /\ want = [t \in Threads |-> None]

-----------------------------------------------------------------------------
(* The library has a key of its own.                                        *)
HasKey == deltacloud_last_error \in created

(* The key it uses exists, whoever created it.                              *)
KeyExists == deltacloud_last_error \in created \cup foreign

(* pthread_getspecific(deltacloud_last_error) in thread t: a key that       *)
(* nobody has created has no value.                                         *)
GetSpecific(t) ==
  IF KeyExists THEN slot[deltacloud_last_error][t] ELSE NULL

(* pthread_setspecific refuses a key that nobody has created, and needs     *)
(* memory the first time a thread stores under a key that is not inline.    *)
SetSpecificSucceeds == KeyExists

SetSpecificMayFail(t) ==
  \/ ~KeyExists
  \/ deltacloud_last_error \notin InlineKeys /\ GetSpecific(t) = NULL

(* The error numbers the client may read through a pointer: what is in      *)
(* another component's data is unknown.                                     *)
ErrorNums(e) ==
  IF e = NULL THEN {None}
  ELSE IF e \in Errs THEN {content[e]} ELSE Codes \cup {None}

MayCallFirst(t) == ready \/ t \in FirstCallers

Goto(t, from, to) ==
  /\ pc[t] \in from
  /\ pc' = [pc EXCEPT ![t] = to]

\* A client does not use an error structure across its own next call.
ForgetHeld(t) ==
  /\ held' = [held EXCEPT ![t] = NULL]
  /\ seen' = [seen EXCEPT ![t] = None]

\* Mutant: the flag is ignored and every initialisation makes a key.
CheckFlagIgnored(t) ==
  /\ MayCallFirst(t)
  /\ Goto(t, {"idle"}, "claim")
  /\ ForgetHeld(t)
  /\ UNCHANGED <<keyVars, slot, heap, content, err, ready, want>>

(* deltacloud_initialize(), the test of the flag.                           *)
CheckFlag(t) ==
  /\ MayCallFirst(t)
  /\ Goto(t, {"idle"}, IF tlsinitialized THEN "body" ELSE "claim")
  /\ ForgetHeld(t)
  /\ UNCHANGED <<keyVars, slot, heap, content, err, ready, want>>

\* The flag is set before the key exists.
ClaimFlag(t) ==
  /\ Goto(t, {"claim"}, "create")
  /\ tlsinitialized' = TRUE
  /\ UNCHANGED <<deltacloud_last_error, created, foreign, slot, heap, content, err,
                 clientVars, ready, want>>

CreateKey(t) ==
  /\ Goto(t, {"create"}, "body")
  /\ \E k \in Keys \ (created \cup foreign) :
       /\ created' = created \cup {k}
       /\ deltacloud_last_error' = k
  /\ UNCHANGED <<tlsinitialized, foreign, slot, heap, content, err, clientVars,
                 ready, want>>

\* Mutant: the failure of pthread_key_create goes unnoticed.
CreateKeyUnchecked(t) ==
  /\ Goto(t, {"create"}, "body")
  /\ \E k \in Keys \ created : deltacloud_last_error' = k
  /\ UNCHANGED <<tlsinitialized, created, foreign, slot, heap, content, err,
                 clientVars, ready, want>>

\* deltacloud_initialize returns -1 without an error; the flag stays set and
\* the key 0.
CreateKeyFails(t) ==
  /\ KeyCreateMayFail \/ created \cup foreign = Keys
  /\ Goto(t, {"create"}, "idle")
  /\ ready' = TRUE
  /\ UNCHANGED <<keyVars, slot, heap, content, err, clientVars, want>>

(* Any other entry point of the library.                                    *)
CallApi(t) ==
  /\ ready
  /\ Goto(t, {"idle"}, "body")
  /\ ForgetHeld(t)
  /\ UNCHANGED <<keyVars, slot, heap, content, err, ready, want>>

(* set_error(errnum = n): the new structure is allocated and filled in ...  *)
AllocError(t, n) ==
  /\ Goto(t, {"body", "failing"}, "release")
  /\ \E e \in Errs \ heap :
       /\ heap' = heap \cup {e}
       /\ content' = [content EXCEPT ![e] = n]
       /\ err' = [err EXCEPT ![t] = e]
  /\ want' = [want EXCEPT ![t] = n]
  /\ UNCHANGED <<keyVars, slot, clientVars, ready>>

\* ... or there is no memory left, and set_error() gives up.
AllocErrorFails(t) ==
  /\ Goto(t, {"body", "failing"}, "failing")
  /\ UNCHANGED <<keyVars, slot, heap, content, err, clientVars, ready, want>>

\* Mutant: the previous structure is not freed.
ReleaseNothing(t) ==
  /\ Goto(t, {"release"}, "install")
  /\ UNCHANGED <<keyVars, slot, heap, content, err, clientVars, ready, want>>

\* What is in the slot is freed, whoever stored it there; the slot still
\* points at it.
ReleaseLast(t) ==
  /\ Goto(t, {"release"}, "install")
  /\ heap' = heap \ {GetSpecific(t)}
  /\ UNCHANGED <<keyVars, slot, content, err, clientVars, ready, want>>

\* Mutant: one slot for the process instead of one per thread.
InstallForAll(t) ==
  /\ SetSpecificSucceeds
  /\ Goto(t, {"install"}, "failing")
  /\ slot' = [slot EXCEPT ![deltacloud_last_error] = [u \in Threads |-> err[t]]]
  /\ err' = [err EXCEPT ![t] = NULL]
  /\ UNCHANGED <<keyVars, heap, content, clientVars, ready, want>>

\* Mutant: the new structure is stored only in an empty slot.
InstallIfEmpty(t) ==
  /\ SetSpecificSucceeds
  /\ Goto(t, {"install"}, "failing")
  /\ slot' = IF GetSpecific(t) = NULL
               THEN [slot EXCEPT ![deltacloud_last_error][t] = err[t]]
               ELSE slot
  /\ err' = [err EXCEPT ![t] = NULL]
  /\ UNCHANGED <<keyVars, heap, content, clientVars, ready, want>>

InstallError(t) ==
  /\ SetSpecificSucceeds
  /\ Goto(t, {"install"}, "failing")
  /\ slot' = [slot EXCEPT ![deltacloud_last_error][t] = err[t]]
  /\ err' = [err EXCEPT ![t] = NULL]
  /\ UNCHANGED <<keyVars, heap, content, clientVars, ready, want>>

\* The result of pthread_setspecific is ignored: the structure is lost.
InstallErrorFails(t) ==
  /\ SetSpecificMayFail(t)
  /\ Goto(t, {"install"}, "failing")
  /\ err' = [err EXCEPT ![t] = NULL]
  /\ UNCHANGED <<keyVars, slot, heap, content, clientVars, ready, want>>

(* The call returns: 0 from "body", -1 once it has reported a failure.      *)
Return(t) ==
  /\ Goto(t, {"body", "failing"}, "idle")
  /\ ready' = TRUE
  /\ want' = [want EXCEPT ![t] = None]
  /\ UNCHANGED <<keyVars, slot, heap, content, err, clientVars>>

(* deltacloud_get_last_error(), and the client reading what it points at.   *)
GetLastError(t) ==
  /\ ready
  /\ pc[t] = "idle"
  /\ held' = [held EXCEPT ![t] = GetSpecific(t)]
  /\ \E n \in ErrorNums(GetSpecific(t)) : seen' = [seen EXCEPT ![t] = n]
  /\ UNCHANGED <<keyVars, slot, heap, content, pc, err, ready, want>>

(* Thread t ends: deltacloud_error_free_data() runs on what it stored under *)
(* each key of the library, and the destructors of the other components, if *)
(* they have any, on what is under theirs.  A thread started later begins   *)
(* with empty slots.                                                        *)
Exit(t) ==
  /\ pc[t] = "idle"
  /\ \E lost \in SUBSET ({slot[k][t] : k \in foreign} \cap Errs) :
       heap' = (heap \ {slot[k][t] : k \in created}) \ lost
  /\ slot' = [k \in Keys |-> [slot[k] EXCEPT ![t] = NULL]]
  /\ ForgetHeld(t)
  /\ UNCHANGED <<keyVars, content, pc, err, ready, want>>

Step(t) ==
  \/ CheckFlag(t)
  \/ ClaimFlag(t)
  \/ CreateKey(t)
  \/ CreateKeyFails(t)
  \/ CallApi(t)
  \/ \E n \in Codes : AllocError(t, n)
  \/ AllocErrorFails(t)
  \/ ReleaseLast(t)
  \/ InstallError(t)
  \/ InstallErrorFails(t)
  \/ Return(t)
  \/ GetLastError(t)
  \/ Exit(t)

Next == \E t \in Threads : Step(t)

Spec == Init /\ [][Next]_vars

-----------------------------------------------------------------------------
(* The structures thread t is responsible for.  Between the free and the    *)
(* store of set_error() its slot points at memory that is no longer its.    *)
Owns(t) ==
  ({err[t]} \cup (IF pc[t] = "install" THEN {} ELSE {GetSpecific(t)})) \ {NULL}

(* The properties below are about a library that has a key of its own.      *)
(*                                                                          *)
(* No structure is reachable from two threads, and none that is reachable   *)
(* has been freed.                                                          *)
OwnersApart ==
  HasKey =>
    /\ \A t \in Threads : Owns(t) \subseteq heap \cap Errs
    /\ \A t, u \in Threads : t # u => Owns(t) \cap Owns(u) = {}

(* None of what other components store was freed, neither since the library *)
(* has a key nor on the way to it.                                          *)
OthersUntouched == HasKey => Others \subseteq heap

(* What set_error() and the destructor free is the calling thread's: never  *)
(* another one's error, nor another component's data (libdeltacloud.c:122:  *)
(* they work on "thread-local storage that libdeltacloud manages").         *)
SlotsPrivate == OwnersApart /\ OthersUntouched

(* Every structure set_error() allocates is freed or still reachable, as    *)
(* long as the slot's own storage needs no memory.                          *)
NoErrorLeak ==
  HasKey /\ deltacloud_last_error \in InlineKeys =>
    heap \cap Errs \subseteq UNION {Owns(t) : t \in Threads}

(* The structure get_last_error() returned is still there, unchanged, until *)
(* the thread that asked makes its next call, whatever the others do.       *)
HeldPointerValid ==
  HasKey =>
    \A t \in Threads :
      held[t] # NULL =>
        /\ held[t] \in heap \cap Errs
        /\ content[held[t]] = seen[t]

(* "If one of the API calls subsequently fails, then we set the per-thread  *)
(* variable with details of the failure" (libdeltacloud.c:114-115): when    *)
(* set_error() had the memory, the failure is what the thread would see.    *)
FailureRecorded ==
  \A t \in Threads :
    pc[t] = "failing" /\ want[t] # None =>
      GetSpecific(t) \in Errs /\ content[GetSpecific(t)] = want[t]

(* The same once there is a key that needs no storage of its own.           *)
FailureRecordedInline ==
  HasKey /\ deltacloud_last_error \in InlineKeys => FailureRecorded

(* "A function to get a pointer to the deltacloud_error structure           *)
(* corresponding to the last failure. [...] the pointer is to thread-local  *)
(* storage that libdeltacloud manages" (libdeltacloud.c:120-123): what a    *)
(* thread is shown after a failure is a structure of this library.          *)
HeldPointerOwn == \A t \in Threads : held[t] # NULL => held[t] \in Errs

-----------------------------------------------------------------------------
(* Refinement.  A failure takes effect when the slot's old structure is     *)
(* freed, or when the new one is stored if the slot was empty.  There is a  *)
(* store once the library has a key, and none if it has returned without.   *)
storeBar == IF HasKey THEN "kept" ELSE IF ready THEN "lost" ELSE "none"

lastErrorBar ==
  [t \in Threads |->
     IF ~HasKey \/ GetSpecific(t) = NULL THEN None
     ELSE IF pc[t] = "install" THEN content[err[t]]
     ELSE content[GetSpecific(t)]]

Promise == INSTANCE LastError WITH store <- storeBar, lastError <- lastErrorBar

(* The slot implements the promise of one private last error per thread.    *)
LastErrorPromised == Promise!Spec
=============================================================================
