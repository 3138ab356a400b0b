----------------------------- MODULE LastError -----------------------------
(***************************************************************************)
(* What libdeltacloud.c promises about errors (comments at lines 113-146): *)
(* the first initialisation sets up a store of one last error per thread;  *)
(* a failing call replaces the calling thread's and nobody else's, and     *)
(* deltacloud_get_last_error() shows a thread the failure recorded last in *)
(* that same thread.  When the store cannot be set up, nothing is recorded *)
(* and nothing is promised of what get_last_error shows.                   *)
(***************************************************************************)
CONSTANTS
  Threads,   \* the threads of the client program
  Codes,     \* the error numbers a failing call reports
  None       \* no error: what get_last_error returns before any failure

VARIABLES
  store,     \* whether there is a store: not yet, from now on, or never
  lastError, \* per thread, the error recorded last
  seen       \* per thread, what its latest get_last_error showed it

vars == <<store, lastError, seen>>

(* The types.                                                               *)
TypeOK ==
  /\ store \in {"none", "kept", "lost"}
  /\ lastError \in [Threads -> Codes \cup {None}]
  /\ seen \in [Threads -> Codes \cup {None}]

Init ==
  /\ store = "none"
  /\ lastError = [t \in Threads |-> None]
  /\ seen = [t \in Threads |-> None]

\* The first initialisation sets the store up, or fails to for good.
SetUp ==
  /\ store = "none"
  /\ store' \in {"kept", "lost"}
  /\ UNCHANGED <<lastError, seen>>

\* A call of thread t fails with error n.
Fail(t, n) ==
  /\ store = "kept"
  /\ lastError' = [lastError EXCEPT ![t] = n]
  /\ UNCHANGED <<store, seen>>

\* Thread t asks for its last error.
GetLastError(t) ==
  /\ store = "kept"
  /\ seen' = [seen EXCEPT ![t] = lastError[t]]
  /\ UNCHANGED <<store, lastError>>

\* Without a store thread t may be shown anything.
GetAnything(t) ==
  /\ store = "lost"
  /\ \E n \in Codes \cup {None} : seen' = [seen EXCEPT ![t] = n]
  /\ UNCHANGED <<store, lastError>>

\* Thread t makes its next call and gives up what it was shown.
Forget(t) ==
  /\ seen' = [seen EXCEPT ![t] = None]
  /\ UNCHANGED <<store, lastError>>

\* Thread t ends, and its last error with it.
Exit(t) ==
  /\ lastError' = [lastError EXCEPT ![t] = None]
  /\ seen' = [seen EXCEPT ![t] = None]
  /\ UNCHANGED store

Next ==
  \/ SetUp
  \/ \E t \in Threads :
       \/ \E n \in Codes : Fail(t, n)
       \/ GetLastError(t)
       \/ GetAnything(t)
       \/ Forget(t)
       \/ Exit(t)

Spec == Init /\ [][Next]_vars
=============================================================================
