-------------------------- MODULE ErrorSlotProofs --------------------------
(***************************************************************************)
(* Proofs about ErrorSlot for any threads, keys and addresses, when one    *)
(* thread makes the program's first call (Serialised) and whatever becomes *)
(* of pthread_key_create, malloc and pthread_setspecific.  What is claimed *)
(* once pthread_key_create has failed is no more than LastError says then. *)
(***************************************************************************)
EXTENDS ErrorSlot, TLAPS

(* "All users of the library must call this function first"                *)
(* (libdeltacloud.c:200): the program makes that call in one thread.        *)
Serialised == \A t, u \in FirstCallers : t = u

-----------------------------------------------------------------------------
(* The inductive invariant.  KeyInv is the argument that there is at most   *)
(* one key: until the first initialisation has returned only one thread is  *)
(* inside the library, so the flag and the key change together.             *)
KeyInv ==
  /\ created # {} => created = {deltacloud_last_error} /\ tlsinitialized
  /\ ready => tlsinitialized
  /\ tlsinitialized /\ ~ready => \E t \in FirstCallers : pc[t] # "idle"
  /\ \A t \in Threads :
       /\ pc[t] # "idle" /\ ~ready => t \in FirstCallers
       /\ pc[t] = "claim" => ~ready /\ ~tlsinitialized
       /\ pc[t] = "create" => ~ready /\ tlsinitialized /\ created = {}
       /\ pc[t] \in {"body", "release", "install", "failing"} /\ ~ready =>
            created # {}

(* Until the key is created or its creation has failed the library has      *)
(* touched nothing, although its key may be another component's.            *)
Fresh ==
  created = {} /\ ~ready =>
    /\ heap = Others
    /\ \A t \in Threads :
         /\ err[t] = NULL
         /\ held[t] = NULL
         /\ seen[t] = None
         /\ want[t] = None
    /\ \A k \in Keys, t \in Threads :
         /\ slot[k][t] \notin Errs
         /\ k \notin foreign => slot[k][t] = NULL

(* What is stored under the library's own key is the library's, and what is *)
(* under the keys of other components is not.                               *)
OwnInv ==
  HasKey =>
    \A t \in Threads :
      /\ GetSpecific(t) \in Errs \cup {NULL}
      /\ \A k \in foreign : slot[k][t] \notin Errs

(* set_error()'s local structure is live and is not the one it replaces.    *)
ErrInv ==
  HasKey =>
    \A t \in Threads :
      IF pc[t] \in {"release", "install"}
        THEN err[t] \in heap /\ err[t] # GetSpecific(t)
        ELSE err[t] = NULL

(* A pointer the client holds is the one in its slot.                       *)
HeldInv ==
  HasKey =>
    \A t \in Threads :
      held[t] # NULL =>
        /\ pc[t] = "idle"
        /\ held[t] = GetSpecific(t)
        /\ content[held[t]] = seen[t]

(* The failure being reported is in the new structure, then in the slot.    *)
WantInv ==
  /\ HasKey =>
       \A t \in Threads :
         /\ pc[t] \notin {"release", "install", "failing"} => want[t] = None
         /\ pc[t] \in {"release", "install"} => content[err[t]] = want[t]
  /\ FailureRecordedInline

(* A live structure has an error number in it.                              *)
LiveCoded == \A e \in heap \cap Errs : content[e] \in Codes

(* What holds of the slots once the library has a key.                      *)
SlotInv ==
  /\ OwnInv
  /\ ErrInv
  /\ OwnersApart
  /\ OthersUntouched

IInv ==
  /\ TypeOK
  /\ LiveCoded
  /\ KeyInv
  /\ Fresh
  /\ SlotInv
  /\ NoErrorLeak
  /\ HeldInv
  /\ WantInv

-----------------------------------------------------------------------------
(* Type correctness needs no other invariant.                               *)
LEMMA TypeInit == Init => TypeOK
<1> SUFFICES ASSUME Init PROVE TypeOK
  OBVIOUS
<1> USE ConstantsAssumption DEF Init
<1>1. slot \in [Keys -> [Threads -> Data]]
  <2>1. PICK data \in [foreign -> [Threads -> Others \cup {NULL}]] :
          slot = [k \in Keys |->
                    IF k \in foreign THEN data[k] ELSE [t \in Threads |-> NULL]]
    OBVIOUS
  <2> QED BY <2>1 DEF Data
<1> QED BY <1>1 DEF TypeOK, Places, Data

(* Every step keeps the types.                                              *)
LEMMA TypeNext == TypeOK /\ [Next]_vars => TypeOK'
<1> SUFFICES ASSUME TypeOK, [Next]_vars PROVE TypeOK'
  OBVIOUS
<1> USE ConstantsAssumption DEF TypeOK, Places, Data
<1>1. CASE UNCHANGED vars
  BY <1>1 DEF vars
<1>2. ASSUME NEW t \in Threads, Step(t) PROVE TypeOK'
  <2> USE DEF Goto, ForgetHeld, keyVars, clientVars
  <2>1. CASE CheckFlag(t)
    BY <2>1 DEF CheckFlag
  <2>2. CASE ClaimFlag(t)
    BY <2>2 DEF ClaimFlag
  <2>3. CASE CreateKey(t)
    BY <2>3 DEF CreateKey
  <2>4. CASE CreateKeyFails(t)
    BY <2>4 DEF CreateKeyFails
  <2>5. CASE CallApi(t)
    BY <2>5 DEF CallApi
  <2>6. ASSUME NEW n \in Codes, AllocError(t, n) PROVE TypeOK'
    BY <2>6 DEF AllocError
  <2>7. CASE AllocErrorFails(t)
    BY <2>7 DEF AllocErrorFails
  <2>8. CASE ReleaseLast(t)
    BY <2>8 DEF ReleaseLast
  <2>9. CASE InstallError(t)
    BY <2>9 DEF InstallError, SetSpecificSucceeds, KeyExists
  <2>10. CASE InstallErrorFails(t)
    BY <2>10 DEF InstallErrorFails
  <2>11. CASE Return(t)
    BY <2>11 DEF Return
  <2>12. CASE GetLastError(t)
    <3>1. GetSpecific(t) \in Data
      BY DEF GetSpecific, KeyExists
    <3>2. ErrorNums(GetSpecific(t)) \subseteq Codes \cup {None}
      BY DEF ErrorNums
    <3> QED BY <2>12, <3>1, <3>2 DEF GetLastError
  <2>13. CASE Exit(t)
    <3>1. slot' \in [Keys -> [Threads -> Data]]
      BY <2>13 DEF Exit
    <3> QED BY <2>13, <3>1 DEF Exit
  <2> QED BY <1>2, <2>1, <2>2, <2>3, <2>4, <2>5, <2>6, <2>7, <2>8, <2>9,
             <2>10, <2>11, <2>12, <2>13 DEF Step
<1> QED BY <1>1, <1>2 DEF Next

(* Every variable of the slot keeps its type, in particular the key in use  *)
(* is 0 or one that pthread_key_create handed out.                          *)
THEOREM TypeCorrect == Spec => []TypeOK
BY TypeInit, TypeNext, PTL DEF Spec

-----------------------------------------------------------------------------
(* At most one key is ever created.                                         *)
LEMMA KeyNext ==
  ASSUME Serialised, TypeOK, KeyInv, NEW t \in Threads, Step(t)
  PROVE  KeyInv'
<1> USE ConstantsAssumption DEF TypeOK, Places, KeyInv, Goto, keyVars
<1>1. CASE CheckFlag(t)
  BY <1>1 DEF CheckFlag, MayCallFirst, Serialised
<1>2. CASE ClaimFlag(t)
  BY <1>2 DEF ClaimFlag, Serialised
<1>3. CASE CreateKey(t)
  BY <1>3 DEF CreateKey, Serialised
<1>4. CASE CreateKeyFails(t)
  BY <1>4 DEF CreateKeyFails, Serialised
<1>5. CASE CallApi(t)
  BY <1>5 DEF CallApi
<1>6. ASSUME NEW n \in Codes, AllocError(t, n) PROVE KeyInv'
  BY <1>6 DEF AllocError
<1>7. CASE AllocErrorFails(t)
  BY <1>7 DEF AllocErrorFails
<1>8. CASE ReleaseLast(t)
  BY <1>8 DEF ReleaseLast
<1>9. CASE InstallError(t)
  BY <1>9 DEF InstallError
<1>10. CASE InstallErrorFails(t)
  BY <1>10 DEF InstallErrorFails
<1>11. CASE Return(t)
  BY <1>11 DEF Return, Serialised
<1>12. CASE GetLastError(t)
  BY <1>12 DEF GetLastError
<1>13. CASE Exit(t)
  BY <1>13 DEF Exit
<1> QED BY <1>1, <1>2, <1>3, <1>4, <1>5, <1>6, <1>7, <1>8, <1>9, <1>10,
           <1>11, <1>12, <1>13 DEF Step

(* The library has a key exactly when it has created one.                   *)
LEMMA KeyCreated == KeyInv => (HasKey <=> created # {})
BY DEF KeyInv, HasKey

(* The key in use changes only when it is created, and then for good.       *)
LEMMA KeyKept ==
  ASSUME TypeOK, KeyInv, HasKey, NEW t \in Threads, Step(t)
  PROVE  /\ ~CreateKey(t)
         /\ deltacloud_last_error \in Keys \ foreign
         /\ UNCHANGED <<deltacloud_last_error, created, foreign>>
         /\ HasKey'
         /\ KeyExists
         /\ created = {deltacloud_last_error}
         /\ \A u \in Threads :
              /\ GetSpecific(u) = slot[deltacloud_last_error][u]
              /\ GetSpecific(u)' = slot'[deltacloud_last_error][u]
<1>1. ~CreateKey(t)
  BY DEF CreateKey, Goto, KeyInv, HasKey
<1>2. UNCHANGED <<deltacloud_last_error, created, foreign>>
  BY <1>1 DEF Step, CheckFlag, ClaimFlag, CreateKeyFails, CallApi, AllocError,
     AllocErrorFails, ReleaseLast, InstallError, InstallErrorFails, Return,
     GetLastError, Exit, keyVars
<1> QED BY <1>1, <1>2 DEF HasKey, KeyExists, GetSpecific, KeyInv, TypeOK

(* Before there is a key, or after the last chance of one, nothing moves.   *)
LEMMA FreshNext ==
  ASSUME Serialised, TypeOK, KeyInv, Fresh, NEW t \in Threads, Step(t)
  PROVE  Fresh'
<1> SUFFICES ASSUME created' = {}, ~ready' PROVE Fresh'
  BY DEF Fresh
<1> USE ConstantsAssumption DEF TypeOK, Places, Goto, keyVars
<1>1. created = {} /\ ~ready /\ pc[t] \in {"idle", "claim", "create"}
  BY DEF Step, CheckFlag, ClaimFlag, CreateKey, CreateKeyFails, CallApi,
     AllocError, AllocErrorFails, ReleaseLast, InstallError,
     InstallErrorFails, Return, GetLastError, Exit, KeyInv
<1>2. CASE CheckFlag(t)
  BY <1>1, <1>2 DEF CheckFlag, ForgetHeld, Fresh
<1>3. CASE ClaimFlag(t)
  BY <1>1, <1>3 DEF ClaimFlag, clientVars, Fresh
<1>4. CASE Exit(t)
  <2>1. \A k \in Keys, u \in Threads : slot'[k][u] \in {NULL, slot[k][u]}
    BY <1>4 DEF Exit
  <2>2. foreign' = foreign /\ heap' = Others
    <3>1. heap = Others
      BY <1>1 DEF Fresh
    <3>2. \A lost \in SUBSET ({slot[k][t] : k \in foreign} \cap Errs) :
            (heap \ {slot[k][t] : k \in created}) \ lost = Others
      BY <1>1, <3>1
    <3> QED BY <1>4, <3>2 DEF Exit
  <2> QED BY <1>1, <1>4, <2>1, <2>2 DEF Exit, ForgetHeld, Fresh
<1> QED BY <1>1, <1>2, <1>3, <1>4 DEF Step, CreateKey, CreateKeyFails, CallApi,
           AllocError, AllocErrorFails, ReleaseLast, InstallError,
           InstallErrorFails, Return, GetLastError

(* The new key starts with empty slots and nothing of the library's.        *)
LEMMA KeyStarts ==
  ASSUME Serialised, TypeOK, KeyInv, Fresh, ~HasKey,
         NEW t \in Threads, CreateKey(t)
  PROVE  /\ SlotInv'
         /\ NoErrorLeak'
         /\ HeldInv'
         /\ WantInv'
         /\ \A u \in Threads : GetSpecific(u)' = NULL
<1> USE ConstantsAssumption DEF TypeOK, Places
<1>1. /\ created = {}
      /\ ~ready
      /\ \A u \in Threads : pc[u] \in {"idle", "claim", "create"}
  BY DEF CreateKey, Goto, KeyInv
<1>2. PICK k \in Keys \ (created \cup foreign) :
        /\ created' = created \cup {k}
        /\ deltacloud_last_error' = k
  BY DEF CreateKey
<1>3. \A u \in Threads :
        /\ GetSpecific(u)' = NULL
        /\ pc'[u] \in {"idle", "claim", "create", "body"}
        /\ err'[u] = NULL /\ held'[u] = NULL /\ want'[u] = None
  BY <1>1, <1>2 DEF CreateKey, Goto, Fresh, GetSpecific, KeyExists, clientVars
<1>4. \A u \in Threads : Owns(u)' = {}
  BY <1>3 DEF Owns
<1>5. heap' = Others /\ \A l \in foreign', u \in Threads : slot'[l][u] \notin Errs
  BY <1>1 DEF CreateKey, Fresh
<1> QED BY <1>3, <1>4, <1>5 DEF SlotInv, OwnInv, ErrInv, OwnersApart,
           OthersUntouched, NoErrorLeak, HeldInv, WantInv,
           FailureRecordedInline, FailureRecorded

(* Ownership survives every step: what changes is what the acting thread     *)
(* owns, and only by structures nobody else can reach.                      *)
LEMMA SlotNext ==
  ASSUME TypeOK, TypeOK', KeyInv, SlotInv, HasKey, NEW t \in Threads, Step(t)
  PROVE  SlotInv'
<1> USE ConstantsAssumption DEF TypeOK, Places
<1> DEFINE Kept(u) == Owns(u)' = Owns(u) /\ GetSpecific(u)' = GetSpecific(u)
<1>0. /\ UNCHANGED <<deltacloud_last_error, foreign>>
      /\ deltacloud_last_error \in Keys \ foreign
      /\ HasKey' /\ KeyExists
      /\ created = {deltacloud_last_error}
      /\ ~CreateKey(t)
      /\ \A u \in Threads :
           /\ GetSpecific(u) = slot[deltacloud_last_error][u]
           /\ GetSpecific(u)' = slot'[deltacloud_last_error][u]
  BY KeyKept DEF HasKey
<1>a. /\ \A u \in Threads : GetSpecific(u) \in Errs \cup {NULL}
      /\ \A u \in Threads : Owns(u) \subseteq heap \cap Errs
      /\ \A u, v \in Threads : u # v => Owns(u) \cap Owns(v) = {}
      /\ Others \subseteq heap
      /\ \A k \in foreign, u \in Threads : slot[k][u] \notin Errs
  BY DEF SlotInv, OwnInv, OwnersApart, OthersUntouched
<1>b. \A u \in Threads :
        IF pc[u] \in {"release", "install"}
          THEN err[u] \in heap /\ err[u] # GetSpecific(u) ELSE err[u] = NULL
  BY DEF SlotInv, ErrInv
<1>2. ASSUME NEW n \in Codes, AllocError(t, n) PROVE SlotInv'
  <2> USE <1>2 DEF AllocError, Goto
  <2>1. PICK e \in Errs \ heap :
          heap' = heap \cup {e} /\ err' = [err EXCEPT ![t] = e]
    OBVIOUS
  <2>2. \A u \in Threads : GetSpecific(u)' = GetSpecific(u)
    BY <1>0
  <2>3. \A u \in Threads \ {t} : Owns(u)' = Owns(u)
    BY <2>1, <2>2 DEF Owns
  <2>4. Owns(t)' = Owns(t) \cup {e} /\ GetSpecific(t) # e
    BY <1>a, <1>b, <2>1, <2>2 DEF Owns
  <2>5. ErrInv'
    BY <1>b, <2>1, <2>2, <2>4 DEF ErrInv
  <2>6. OwnersApart'
    BY <1>a, <2>1, <2>3, <2>4 DEF OwnersApart
  <2> QED BY <1>0, <1>a, <2>1, <2>2, <2>5, <2>6
          DEF SlotInv, OwnInv, OthersUntouched
<1>3. CASE ReleaseLast(t)
  <2> USE <1>3 DEF ReleaseLast, Goto
  <2>1. \A u \in Threads : GetSpecific(u)' = GetSpecific(u)
    BY <1>0
  <2>2. \A u \in Threads \ {t} : Owns(u)' = Owns(u)
    BY <2>1 DEF Owns
  <2>3. Owns(t) = ({err[t], GetSpecific(t)} \ {NULL}) /\ Owns(t)' = {err[t]} \ {NULL}
    BY <2>1 DEF Owns
  <2>4. err[t] \in heap /\ err[t] # GetSpecific(t)
    BY <1>b
  <2>5. \A u \in Threads : Owns(u)' \subseteq heap' \cap Errs
    BY <1>a, <2>2, <2>3, <2>4
  <2>6. OwnersApart'
    BY <1>a, <2>2, <2>3, <2>5 DEF OwnersApart
  <2>7. \A u \in Threads \ {t} : pc[u] \in {"release", "install"} => err[u] \in Owns(u)
    BY <1>b DEF Owns
  <2>8. ErrInv'
    BY <1>b, <2>1, <2>2, <2>4, <2>5, <2>7 DEF ErrInv
  <2> QED BY <1>0, <1>a, <2>1, <2>6, <2>8
          DEF SlotInv, OwnInv, OthersUntouched
<1>4. CASE InstallError(t)
  <2> USE <1>4 DEF InstallError, Goto
  <2>1. \A u \in Threads \ {t} : GetSpecific(u)' = GetSpecific(u)
    BY <1>0
  <2>2. GetSpecific(t)' = err[t]
    BY <1>0
  <2>3. \A u \in Threads : Owns(u)' = Owns(u)
    BY <2>1, <2>2 DEF Owns
  <2>4. OwnInv'
    <3>1. \A k \in foreign : slot'[k] = slot[k]
      BY <1>0
    <3>2. err[t] \in Errs
      BY <1>b
    <3> QED BY <1>0, <1>a, <2>1, <2>2, <3>1, <3>2 DEF OwnInv
  <2>5. ErrInv'
    BY <1>b, <2>1, <2>2 DEF ErrInv
  <2>6. OwnersApart'
    BY <1>a, <2>3 DEF OwnersApart
  <2> QED BY <1>a, <2>4, <2>5, <2>6 DEF SlotInv, OthersUntouched
<1>5. CASE InstallErrorFails(t)
  <2> USE <1>5 DEF InstallErrorFails, Goto, SetSpecificMayFail
  <2>1. \A u \in Threads : GetSpecific(u)' = GetSpecific(u)
    BY <1>0
  <2>2. \A u \in Threads \ {t} : Owns(u)' = Owns(u)
    BY <2>1 DEF Owns
  <2>3. Owns(t)' = {}
    BY <1>0, <2>1 DEF Owns
  <2>4. OwnInv'
    BY <1>0, <1>a, <1>b, <2>1, <2>2 DEF OwnInv
  <2>5. ErrInv'
    BY <1>b, <2>1, <2>2 DEF ErrInv
  <2>6. OwnersApart'
    BY <1>a, <2>2, <2>3 DEF OwnersApart
  <2> QED BY <1>a, <2>4, <2>5, <2>6 DEF SlotInv, OthersUntouched
<1>6. CASE Exit(t)
  <2> USE <1>6 DEF Exit
  <2>1. \A k \in Keys, u \in Threads \ {t} : slot'[k][u] = slot[k][u] /\ slot'[k][t] = NULL
    OBVIOUS
  <2>2. \A u \in Threads \ {t} : Kept(u)
    BY <1>0, <2>1 DEF Owns
  <2>3. GetSpecific(t)' = NULL /\ Owns(t)' = {} /\ Owns(t) = {GetSpecific(t)} \ {NULL}
    BY <1>0, <1>b, <2>1 DEF Owns
  <2>4. heap' = heap \ Owns(t)
    <3>1. {slot[k][t] : k \in created} = {GetSpecific(t)}
      BY <1>0
    <3>2. {slot[k][t] : k \in foreign} \cap Errs = {}
      BY <1>a
    <3>3. heap' = heap \ {GetSpecific(t)}
      BY <3>1, <3>2
    <3> QED BY <2>3, <3>3
  <2>5. OwnersApart'
    <3>1. \A u \in Threads \ {t} : Owns(u)' \subseteq heap' \cap Errs
      BY <1>a, <2>2, <2>4
    <3>2. \A u \in Threads : Owns(u)' \subseteq Owns(u)
      BY <2>2, <2>3
    <3>3. \A u \in Threads : Owns(u)' \subseteq heap' \cap Errs
      BY <2>3, <3>1
    <3>4. \A u, v \in Threads : u # v => Owns(u)' \cap Owns(v)' = {}
      BY <1>a, <3>2
    <3> QED BY <3>3, <3>4 DEF OwnersApart
  <2>6. \A u \in Threads \ {t} : pc[u] \in {"release", "install"} => err[u] \in Owns(u)
    BY <1>b DEF Owns
  <2>7. ErrInv'
    BY <1>a, <1>b, <2>2, <2>3, <2>4, <2>6 DEF ErrInv
  <2>8. OwnInv'
    BY <1>0, <1>a, <2>1, <2>2, <2>3 DEF OwnInv
  <2>9. OthersUntouched'
    BY <1>a, <2>4 DEF OthersUntouched
  <2> QED BY <2>5, <2>7, <2>8, <2>9 DEF SlotInv
<1>7. CASE /\ UNCHANGED <<slot, err, heap>>
           /\ pc' = pc \/ \E p \in Places \ {"release", "install"} :
                pc' = [pc EXCEPT ![t] = p] /\ pc[t] \notin {"release", "install"}
  <2>1. \A u \in Threads : Kept(u)
    BY <1>0, <1>7 DEF Owns
  <2> QED BY <1>0, <1>a, <1>b, <1>7, <2>1
          DEF SlotInv, OwnInv, ErrInv, OwnersApart, OthersUntouched
<1> QED BY <1>0, <1>2, <1>3, <1>4, <1>5, <1>6, <1>7 DEF Step, Goto, keyVars,
           CheckFlag, ClaimFlag, CreateKeyFails, CallApi, AllocErrorFails,
           Return, GetLastError

(* Nothing leaks.                                                           *)
LEMMA LeakNext ==
  ASSUME TypeOK, TypeOK', KeyInv, SlotInv, NoErrorLeak, HasKey,
         NEW t \in Threads, Step(t)
  PROVE  NoErrorLeak'
<1> USE ConstantsAssumption DEF TypeOK, Places
<1>0. /\ UNCHANGED <<deltacloud_last_error, foreign>>
      /\ HasKey' /\ KeyExists
      /\ ~CreateKey(t)
      /\ created = {deltacloud_last_error} /\ deltacloud_last_error \in Keys
      /\ \A u \in Threads :
           /\ GetSpecific(u) = slot[deltacloud_last_error][u]
           /\ GetSpecific(u)' = slot'[deltacloud_last_error][u]
  BY KeyKept
<1>1. SUFFICES ASSUME deltacloud_last_error \in InlineKeys,
                      heap \cap Errs \subseteq UNION {Owns(u) : u \in Threads}
               PROVE  heap' \cap Errs \subseteq UNION {Owns(u)' : u \in Threads}
  BY <1>0 DEF NoErrorLeak
<1>2. ASSUME NEW n \in Codes, AllocError(t, n) PROVE NoErrorLeak'
  <2> USE <1>2 DEF AllocError, Goto
  <2>1. PICK e \in Errs \ heap :
          heap' = heap \cup {e} /\ err' = [err EXCEPT ![t] = e]
    OBVIOUS
  <2>2. \A u \in Threads \ {t} : Owns(u)' = Owns(u)
    BY <1>0, <2>1 DEF Owns
  <2>3. Owns(t)' = Owns(t) \cup {e}
    BY <1>0, <2>1 DEF Owns, SlotInv, ErrInv
  <2> QED BY <1>1, <2>1, <2>2, <2>3 DEF NoErrorLeak
<1>3. CASE ReleaseLast(t)
  <2> USE <1>3 DEF ReleaseLast, Goto
  <2>1. \A u \in Threads \ {t} : Owns(u)' = Owns(u)
    BY <1>0 DEF Owns
  <2>2. Owns(t) \ {GetSpecific(t)} \subseteq Owns(t)'
    BY <1>0 DEF Owns
  <2> QED BY <1>1, <2>1, <2>2
<1>4. CASE InstallError(t)
  <2> USE <1>4 DEF InstallError, Goto
  <2>1. \A u \in Threads : Owns(u)' = Owns(u)
    BY <1>0 DEF Owns
  <2> QED BY <1>1, <2>1
<1>5. CASE InstallErrorFails(t)
  BY <1>0, <1>1, <1>5 DEF InstallErrorFails, SetSpecificMayFail
<1>6. CASE Exit(t)
  <2> USE <1>6 DEF Exit
  <2>1. \A k \in Keys, u \in Threads \ {t} : slot'[k][u] = slot[k][u]
    OBVIOUS
  <2>2. \A u \in Threads \ {t} : Owns(u)' = Owns(u)
    BY <1>0, <2>1 DEF Owns
  <2>3. Owns(t) = {GetSpecific(t)} \ {NULL}
    BY DEF Owns, SlotInv, ErrInv
  <2>4. heap' \subseteq heap \ Owns(t)
    BY <1>0, <2>3
  <2> QED BY <1>1, <2>2, <2>4
<1>7. CASE /\ UNCHANGED <<slot, err, heap>>
           /\ pc' = pc \/ \E p \in Places \ {"release", "install"} :
                pc' = [pc EXCEPT ![t] = p] /\ pc[t] \notin {"release", "install"}
  <2>1. \A u \in Threads : Owns(u)' = Owns(u)
    BY <1>0, <1>7 DEF Owns
  <2> QED BY <1>1, <1>7, <2>1
<1> QED BY <1>0, <1>1, <1>2, <1>3, <1>4, <1>5, <1>6, <1>7 DEF NoErrorLeak, Step, Goto,
           CheckFlag, ClaimFlag, CreateKeyFails, CallApi, AllocErrorFails,
           Return, GetLastError

(* The pointers clients hold.                                               *)
LEMMA HeldNext ==
  ASSUME TypeOK, TypeOK', KeyInv, SlotInv, HeldInv, HasKey,
         NEW t \in Threads, Step(t)
  PROVE  HeldInv'
<1> USE ConstantsAssumption DEF TypeOK, Places
<1>0. /\ UNCHANGED deltacloud_last_error
      /\ ~CreateKey(t)
      /\ created = {deltacloud_last_error} /\ deltacloud_last_error \in Keys
      /\ \A u \in Threads :
           /\ GetSpecific(u) = slot[deltacloud_last_error][u]
           /\ GetSpecific(u)' = slot'[deltacloud_last_error][u]
  BY KeyKept
<1>a. \A u \in Threads : held[u] # NULL =>
        pc[u] = "idle" /\ held[u] = GetSpecific(u) /\ content[held[u]] = seen[u]
  BY DEF HeldInv
<1>b. \A u \in Threads : held[u] # NULL => held[u] \in heap
  BY <1>a DEF SlotInv, OwnersApart, Owns
<1>2. ASSUME NEW n \in Codes, AllocError(t, n) PROVE HeldInv'
  BY <1>0, <1>2, <1>a, <1>b DEF AllocError, Goto, HeldInv, clientVars
<1>3. CASE InstallError(t)
  BY <1>0, <1>3, <1>a DEF InstallError, Goto, HeldInv, clientVars
<1>4. CASE GetLastError(t)
  <2>1. GetSpecific(t) # NULL => ErrorNums(GetSpecific(t)) = {content[GetSpecific(t)]}
    BY DEF ErrorNums, SlotInv, OwnInv
  <2> QED BY <1>0, <1>4, <1>a, <2>1 DEF GetLastError, HeldInv
<1>5. CASE Exit(t)
  <2>1. \A k \in Keys, u \in Threads \ {t} : slot'[k][u] = slot[k][u]
    BY <1>5 DEF Exit
  <2> QED BY <1>0, <1>5, <1>a, <2>1 DEF Exit, ForgetHeld, HeldInv
<1>6. CASE /\ UNCHANGED <<slot, content>>
           /\ \E p \in Places : pc' = [pc EXCEPT ![t] = p]
           /\ \/ ForgetHeld(t)
              \/ UNCHANGED clientVars /\ pc[t] # "idle"
  BY <1>0, <1>6, <1>a DEF HeldInv, ForgetHeld, clientVars
<1> QED BY <1>0, <1>2, <1>3, <1>4, <1>5, <1>6 DEF Step, Goto, keyVars,
           CheckFlag, ClaimFlag, CreateKeyFails, CallApi, AllocErrorFails,
           ReleaseLast, InstallErrorFails, Return

(* The failure on its way into the slot.                                    *)
LEMMA WantNext ==
  ASSUME TypeOK, TypeOK', KeyInv, SlotInv, WantInv, HasKey,
         NEW t \in Threads, Step(t)
  PROVE  WantInv'
<1> USE ConstantsAssumption DEF TypeOK, Places, FailureRecordedInline,
        FailureRecorded
<1>0. /\ UNCHANGED deltacloud_last_error
      /\ KeyExists
      /\ ~CreateKey(t)
      /\ created = {deltacloud_last_error} /\ deltacloud_last_error \in Keys
      /\ \A u \in Threads :
           /\ GetSpecific(u) = slot[deltacloud_last_error][u]
           /\ GetSpecific(u)' = slot'[deltacloud_last_error][u]
  BY KeyKept
<1>a. \A u \in Threads :
        /\ pc[u] \in {"release", "install"} => err[u] \in heap \cap Errs
        /\ pc[u] # "install" /\ GetSpecific(u) # NULL => GetSpecific(u) \in heap
  BY DEF SlotInv, ErrInv, OwnersApart, Owns
<1>2. ASSUME NEW n \in Codes, AllocError(t, n) PROVE WantInv'
  <2> USE <1>2 DEF AllocError, Goto
  <2>1. \A u \in Threads : GetSpecific(u)' = GetSpecific(u)
    BY <1>0
  <2>2. \A u \in Threads : pc[u] = "failing" /\ GetSpecific(u) \in Errs =>
          GetSpecific(u) \in heap
    BY <1>a
  <2> QED BY <1>0, <1>a, <2>1, <2>2 DEF WantInv
<1>3. CASE InstallError(t)
  <2> USE <1>3 DEF InstallError, Goto
  <2>1. \A u \in Threads \ {t} : GetSpecific(u)' = GetSpecific(u)
    BY <1>0
  <2>2. GetSpecific(t)' = err[t] /\ err[t] \in Errs
    BY <1>0, <1>a
  <2> QED BY <1>0, <2>1, <2>2 DEF WantInv
<1>4. CASE InstallErrorFails(t)
  <2> USE <1>4 DEF InstallErrorFails, Goto, SetSpecificMayFail
  <2>1. deltacloud_last_error \notin InlineKeys
    BY <1>0
  <2> QED BY <1>0, <2>1 DEF WantInv
<1>5. CASE Return(t)
  BY <1>0, <1>5 DEF Return, Goto, WantInv
<1>6. CASE Exit(t)
  <2>1. \A k \in Keys, u \in Threads \ {t} : slot'[k][u] = slot[k][u]
    BY <1>6 DEF Exit
  <2> QED BY <1>0, <1>6, <2>1 DEF Exit, WantInv
<1>7. CASE /\ UNCHANGED <<slot, content, err, want>>
           /\ \/ pc' = pc
              \/ \E p \in {"idle", "claim", "create", "body"} :
                   /\ pc' = [pc EXCEPT ![t] = p]
                   /\ pc[t] \in {"idle", "claim", "create"}
              \/ pc' = [pc EXCEPT ![t] = "failing"] /\ pc[t] \in {"body", "failing"}
              \/ pc' = [pc EXCEPT ![t] = "install"] /\ pc[t] = "release"
  BY <1>0, <1>7 DEF WantInv
<1> QED BY <1>0, <1>2, <1>3, <1>4, <1>5, <1>6, <1>7 DEF Step, Goto, keyVars,
           CheckFlag, ClaimFlag, CreateKeyFails, CallApi, AllocErrorFails,
           ReleaseLast, GetLastError

(* A live structure keeps the error number it was given.                    *)
LEMMA CodedNext ==
  ASSUME TypeOK, LiveCoded, NEW t \in Threads, Step(t)
  PROVE  LiveCoded'
<1>1. ASSUME NEW n \in Codes, AllocError(t, n) PROVE LiveCoded'
  BY <1>1 DEF AllocError, TypeOK, LiveCoded
<1>2. CASE UNCHANGED content /\ heap' \subseteq heap
  BY <1>2 DEF LiveCoded
<1> QED BY <1>1, <1>2 DEF Step, CheckFlag, ClaimFlag, CreateKey,
           CreateKeyFails, CallApi, AllocErrorFails, ReleaseLast,
           InstallError, InstallErrorFails, Return, GetLastError, Exit

-----------------------------------------------------------------------------
(* The invariant holds of every behaviour.                                  *)
LEMMA InvInit == Init => IInv
<1> SUFFICES ASSUME Init PROVE IInv
  OBVIOUS
<1> USE ConstantsAssumption DEF Init
<1>1. ~HasKey
  BY DEF HasKey
<1>2. \A k \in Keys, t \in Threads :
        /\ slot[k][t] \notin Errs
        /\ k \notin foreign => slot[k][t] = NULL
  <2>1. PICK data \in [foreign -> [Threads -> Others \cup {NULL}]] :
          slot = [k \in Keys |->
                    IF k \in foreign THEN data[k] ELSE [t \in Threads |-> NULL]]
    OBVIOUS
  <2>2. \A k \in Keys, t \in Threads :
          slot[k][t] = IF k \in foreign THEN data[k][t] ELSE NULL
    BY <2>1
  <2>3. \A k \in foreign : data[k] \in [Threads -> Others \cup {NULL}]
    BY <2>1
  <2>4. \A k \in foreign, t \in Threads : data[k][t] \in Others \cup {NULL}
    BY <2>3
  <2> QED BY <2>2, <2>4
<1>3. Fresh
  BY <1>2 DEF Fresh
<1>4. LiveCoded /\ KeyInv
  BY DEF LiveCoded, KeyInv
<1> QED BY TypeInit, <1>1, <1>3, <1>4 DEF IInv, SlotInv, OwnInv, ErrInv,
           OwnersApart, OthersUntouched, NoErrorLeak, HeldInv, WantInv,
           FailureRecordedInline

(* Without a key there is nothing to say of the slots.                      *)
LEMMA NothingWithoutKey ==
  ~HasKey => SlotInv /\ NoErrorLeak /\ HeldInv /\ WantInv
BY DEF SlotInv, OwnInv, ErrInv, OwnersApart, OthersUntouched, NoErrorLeak,
   HeldInv, WantInv, FailureRecordedInline

(* Every step preserves the invariant, conjunct by conjunct.                *)
LEMMA InvNext == ASSUME Serialised PROVE IInv /\ [Next]_vars => IInv'
<1> SUFFICES ASSUME IInv, [Next]_vars PROVE IInv'
  OBVIOUS
<1>1. TypeOK'
  BY TypeNext DEF IInv
<1>2. CASE UNCHANGED vars
  <2> USE <1>2 DEF vars
  <2>1. /\ HasKey' = HasKey
        /\ \A t \in Threads :
             GetSpecific(t)' = GetSpecific(t) /\ Owns(t)' = Owns(t)
    BY DEF HasKey, GetSpecific, KeyExists, Owns
  <2>2. LiveCoded' /\ KeyInv' /\ Fresh'
    BY DEF IInv, LiveCoded, KeyInv, Fresh
  <2>3. SlotInv'
    BY <2>1 DEF IInv, SlotInv, OwnInv, ErrInv, OwnersApart, OthersUntouched
  <2>4. NoErrorLeak' /\ HeldInv' /\ WantInv'
    BY <2>1 DEF IInv, NoErrorLeak, HeldInv, WantInv, FailureRecordedInline,
       FailureRecorded
  <2> QED BY <1>1, <2>2, <2>3, <2>4 DEF IInv
<1>3. ASSUME NEW t \in Threads, Step(t) PROVE IInv'
  <2> USE <1>1, <1>3 DEF IInv
  <2>1. KeyInv' /\ LiveCoded' /\ Fresh'
    BY KeyNext, CodedNext, FreshNext
  <2>2. CASE HasKey
    BY <2>1, <2>2, SlotNext, LeakNext, HeldNext, WantNext
  <2>3. CASE ~HasKey /\ CreateKey(t)
    BY <2>1, <2>3, KeyStarts
  <2>4. CASE ~HasKey /\ ~CreateKey(t)
    <3>1. created' = created
      BY <2>4 DEF Step, CheckFlag, ClaimFlag, CreateKeyFails, CallApi,
         AllocError, AllocErrorFails, ReleaseLast, InstallError,
         InstallErrorFails, Return, GetLastError, Exit, keyVars
    <3>2. ~HasKey'
      BY <2>4, <3>1, KeyCreated DEF KeyInv, HasKey
    <3>3. SlotInv' /\ NoErrorLeak' /\ HeldInv' /\ WantInv'
      BY <3>2, NothingWithoutKey, PTL
    <3> QED BY <2>1, <3>3
  <2> QED BY <2>2, <2>3, <2>4
<1> QED BY <1>2, <1>3 DEF Next

(* The inductive invariant holds in every reachable state.                  *)
THEOREM Invariance == ASSUME Serialised PROVE Spec => []IInv
<1>1. IInv /\ [Next]_vars => IInv'
  BY InvNext
<1> QED BY InvInit, <1>1, PTL DEF Spec

(* No thread ever frees or reaches the error of another one, or frees what  *)
(* other components store: not even while its key was still 0.              *)
THEOREM SlotsPrivateAlways == ASSUME Serialised PROVE Spec => []SlotsPrivate
<1>1. IInv => SlotsPrivate
  BY DEF IInv, SlotInv, SlotsPrivate
<1> QED BY Invariance, <1>1, PTL

(* With a key that needs no storage of its own, set_error() and the         *)
(* destructor leak nothing.                                                 *)
THEOREM NoErrorLeakAlways == ASSUME Serialised PROVE Spec => []NoErrorLeak
<1>1. IInv => NoErrorLeak
  BY DEF IInv
<1> QED BY Invariance, <1>1, PTL

(* What get_last_error() returned outlives everything other threads do.     *)
THEOREM HeldPointerValidAlways == ASSUME Serialised PROVE Spec => []HeldPointerValid
<1>1. IInv => HeldPointerValid
  BY ConstantsAssumption DEF IInv, TypeOK, Places, HeldInv, HeldPointerValid,
     SlotInv, OwnersApart, Owns
<1> QED BY Invariance, <1>1, PTL

(* A failure that had the memory to be recorded is what the thread sees.    *)
THEOREM FailureRecordedAlways ==
  ASSUME Serialised PROVE Spec => []FailureRecordedInline
<1>1. IInv => FailureRecordedInline
  BY DEF IInv, WantInv
<1> QED BY Invariance, <1>1, PTL

-----------------------------------------------------------------------------
(* Each step is a step of LastError or leaves its variables alone.          *)
LEMMA RefinementInit == Init => Promise!Init
BY DEF Init, Promise!Init, storeBar, lastErrorBar, HasKey

(* While there is no key a step sets the store up, shows anything once it   *)
(* is lost, or changes nothing.                                             *)
LEMMA RefinementWithoutKey ==
  ASSUME Serialised, IInv, IInv', ~HasKey, NEW t \in Threads, Step(t)
  PROVE  Promise!Next \/ UNCHANGED Promise!vars
<1> USE ConstantsAssumption DEF IInv, TypeOK, Places
<1>1. lastErrorBar = [u \in Threads |-> None]
  BY DEF lastErrorBar
<1>2. created = {}
  BY KeyCreated
<1>3. CASE CreateKey(t)
  <2>1. ~ready /\ HasKey' /\ \A u \in Threads : GetSpecific(u)' = NULL
    BY <1>3, KeyStarts DEF CreateKey, Goto, KeyInv, HasKey
  <2>2. lastErrorBar' = lastErrorBar /\ storeBar = "none" /\ storeBar' = "kept"
    BY <1>1, <2>1 DEF lastErrorBar, storeBar
  <2> QED BY <1>3, <2>2 DEF CreateKey, clientVars, Promise!SetUp, Promise!Next
<1>4. CASE ~CreateKey(t)
  <2>1. created' = created
    BY <1>4 DEF Step, CheckFlag, ClaimFlag, CreateKeyFails, CallApi,
       AllocError, AllocErrorFails, ReleaseLast, InstallError,
       InstallErrorFails, Return, GetLastError, Exit, keyVars
  <2>2. ~HasKey'
    BY <1>2, <2>1 DEF HasKey
  <2>3. lastErrorBar' = lastErrorBar
    BY <1>1, <2>2 DEF lastErrorBar
  <2>4. CASE CreateKeyFails(t)
    <3>1. storeBar = "none" /\ storeBar' = "lost"
      BY <2>2, <2>4 DEF storeBar, CreateKeyFails, Goto, KeyInv
    <3> QED BY <2>3, <2>4, <3>1 DEF CreateKeyFails, clientVars, Promise!SetUp,
               Promise!Next
  <2>5. CASE ~CreateKeyFails(t)
    <3>1. storeBar' = storeBar
      BY <1>2, <1>4, <2>2, <2>5 DEF storeBar, Step, CheckFlag, ClaimFlag,
         CallApi, AllocError, AllocErrorFails, ReleaseLast, InstallError,
         InstallErrorFails, Return, GetLastError, Exit, Goto, KeyInv
    <3>2. CASE GetLastError(t)
      <4>1. storeBar = "lost"
        BY <3>2 DEF GetLastError, storeBar
      <4>2. ErrorNums(GetSpecific(t)) \subseteq Codes \cup {None}
        BY DEF ErrorNums
      <4> QED BY <2>3, <3>1, <3>2, <4>1, <4>2
              DEF GetLastError, Promise!GetAnything, Promise!Next
    <3>3. CASE ForgetHeld(t)
      BY <2>3, <3>1, <3>3 DEF ForgetHeld, Promise!Forget, Promise!Next
    <3>4. CASE UNCHANGED clientVars
      BY <2>3, <3>1, <3>4 DEF clientVars, Promise!vars
    <3> QED BY <1>4, <2>5, <3>2, <3>3, <3>4 DEF Step, CheckFlag, ClaimFlag,
               CallApi, AllocError, AllocErrorFails, ReleaseLast,
               InstallError, InstallErrorFails, Return, Exit
  <2> QED BY <2>4, <2>5
<1> QED BY <1>3, <1>4

(* With a key, a step of set_error(), get_last_error() or a thread's end    *)
(* maps to the action of the same meaning, every other step to a stutter.   *)
LEMMA RefinementWithKey ==
  ASSUME Serialised, IInv, IInv', HasKey, NEW t \in Threads, Step(t)
  PROVE  Promise!Next \/ UNCHANGED Promise!vars
<1> DEFINE bar(u) == lastErrorBar[u]
           Same(u) == bar(u)' = bar(u)
<1> USE ConstantsAssumption DEF IInv, TypeOK, Places, lastErrorBar
<1>k. /\ UNCHANGED <<deltacloud_last_error, foreign>>
      /\ HasKey' /\ KeyExists
      /\ ~CreateKey(t)
      /\ created = {deltacloud_last_error} /\ deltacloud_last_error \in Keys
      /\ \A u \in Threads :
           /\ GetSpecific(u) = slot[deltacloud_last_error][u]
           /\ GetSpecific(u)' = slot'[deltacloud_last_error][u]
  BY KeyKept
<1>s. storeBar = "kept" /\ storeBar' = "kept"
  BY <1>k DEF storeBar
<1>0. \A u \in Threads :
        /\ pc[u] \in {"release", "install"} => err[u] \in heap \cap Errs
        /\ pc[u] # "install" /\ GetSpecific(u) # NULL => GetSpecific(u) \in heap \cap Errs
  BY DEF SlotInv, ErrInv, OwnersApart, Owns
<1>1. ASSUME ForgetHeld(t), \A u \in Threads : Same(u) PROVE Promise!Forget(t)
  <2>1. lastErrorBar' = lastErrorBar
    BY <1>1
  <2> QED BY <1>1, <1>s, <2>1 DEF ForgetHeld, Promise!Forget
<1>2. ASSUME UNCHANGED clientVars, \A u \in Threads : Same(u)
      PROVE  UNCHANGED Promise!vars
  <2>1. lastErrorBar' = lastErrorBar
    BY <1>2
  <2> QED BY <1>2, <1>s, <2>1 DEF clientVars, Promise!vars
<1>3. CASE CheckFlag(t) \/ CallApi(t)
  <2>1. \A u \in Threads : Same(u)
    BY <1>k, <1>3 DEF CheckFlag, CallApi, Goto
  <2>2. ForgetHeld(t)
    BY <1>3 DEF CheckFlag, CallApi
  <2> QED BY <1>1, <2>1, <2>2 DEF Promise!Next
<1>5. CASE ClaimFlag(t) \/ CreateKeyFails(t) \/ AllocErrorFails(t) \/ Return(t)
  <2>1. \A u \in Threads : Same(u)
    BY <1>k, <1>5 DEF ClaimFlag, CreateKeyFails, AllocErrorFails, Return, Goto
  <2>2. UNCHANGED clientVars
    BY <1>5 DEF ClaimFlag, CreateKeyFails, AllocErrorFails, Return
  <2> QED BY <1>2, <2>1, <2>2
<1>6. ASSUME NEW n \in Codes, AllocError(t, n)
      PROVE  UNCHANGED Promise!vars
  <2>1. \A u \in Threads : GetSpecific(u)' = GetSpecific(u)
    BY <1>k, <1>6 DEF AllocError
  <2>2. PICK e \in Errs \ heap :
          /\ content' = [content EXCEPT ![e] = n]
          /\ err' = [err EXCEPT ![t] = e]
    BY <1>6 DEF AllocError
  <2>3. \A u \in Threads : Same(u)
    BY <1>k, <1>6, <1>0, <2>1, <2>2 DEF AllocError, Goto
  <2> QED BY <1>2, <1>6, <2>3 DEF AllocError
<1>7. CASE ReleaseLast(t)
  <2> USE <1>7 DEF ReleaseLast, Goto
  <2>1. \A u \in Threads : GetSpecific(u)' = GetSpecific(u)
    BY <1>k
  <2>2. \A u \in Threads \ {t} : Same(u)
    BY <1>k, <2>1
  <2>3. CASE GetSpecific(t) = NULL
    BY <1>2, <2>1, <2>2, <2>3
  <2>4. CASE GetSpecific(t) # NULL
    <3>1. content[err[t]] \in Codes
      BY <1>0 DEF LiveCoded
    <3>2. bar(t)' = content[err[t]]
      BY <1>k, <2>1, <2>4
    <3>3. lastErrorBar' = [lastErrorBar EXCEPT ![t] = content[err[t]]]
      BY <2>2, <3>2
    <3> QED BY <1>s, <3>1, <3>3 DEF Promise!Fail, Promise!Next, clientVars
  <2> QED BY <2>3, <2>4
<1>8. CASE InstallError(t)
  <2> USE <1>8 DEF InstallError, Goto
  <2>1. \A u \in Threads \ {t} : GetSpecific(u)' = GetSpecific(u)
    BY <1>k
  <2>2. GetSpecific(t)' = err[t] /\ err[t] # NULL
    BY <1>k, <1>0
  <2>3. content[err[t]] \in Codes
    BY <1>0 DEF LiveCoded
  <2>4. lastErrorBar' = [lastErrorBar EXCEPT ![t] = content[err[t]]]
    <3>1. bar(t)' = content[err[t]]
      BY <1>k, <2>2
    <3>2. \A u \in Threads \ {t} : Same(u)
      BY <1>k, <2>1
    <3> QED BY <3>1, <3>2
  <2> QED BY <1>s, <2>3, <2>4 DEF Promise!Fail, Promise!Next, clientVars
<1>9. CASE InstallErrorFails(t)
  <2>1. \A u \in Threads : GetSpecific(u)' = GetSpecific(u)
    BY <1>k, <1>9 DEF InstallErrorFails
  <2>2. GetSpecific(t) = NULL
    BY <1>k, <1>9 DEF InstallErrorFails, SetSpecificMayFail
  <2>3. \A u \in Threads : Same(u)
    BY <1>k, <1>9, <2>1, <2>2 DEF InstallErrorFails, Goto
  <2> QED BY <1>2, <1>9, <2>3 DEF InstallErrorFails
<1>10. CASE GetLastError(t)
  <2>1. \A u \in Threads : GetSpecific(u)' = GetSpecific(u)
    BY <1>k, <1>10 DEF GetLastError
  <2>2. lastErrorBar' = lastErrorBar
    BY <1>k, <1>10, <2>1 DEF GetLastError
  <2>3. ErrorNums(GetSpecific(t)) = {lastErrorBar[t]}
    BY <1>0, <1>10 DEF GetLastError, ErrorNums
  <2>4. seen' = [seen EXCEPT ![t] = lastErrorBar[t]]
    BY <1>10, <2>3 DEF GetLastError
  <2> QED BY <1>s, <2>2, <2>4 DEF Promise!GetLastError, Promise!Next
<1>11. CASE Exit(t)
  <2>1. \A k \in Keys, u \in Threads \ {t} : slot'[k][u] = slot[k][u] /\ slot'[k][t] = NULL
    BY <1>11 DEF Exit
  <2>2. /\ \A u \in Threads \ {t} : GetSpecific(u)' = GetSpecific(u)
        /\ GetSpecific(t)' = NULL
    BY <1>k, <1>11, <2>1 DEF Exit
  <2>3. lastErrorBar' = [lastErrorBar EXCEPT ![t] = None]
    BY <1>k, <1>11, <2>2 DEF Exit
  <2> QED BY <1>s, <1>11, <2>3 DEF Exit, ForgetHeld, Promise!Exit, Promise!Next
<1> QED BY <1>k, <1>3, <1>5, <1>6, <1>7, <1>8, <1>9, <1>10, <1>11 DEF Step

(* The detailed slot implements one private last error per thread, if the   *)
(* library gets its key, and promises nothing if it does not.               *)
THEOREM LastErrorRefined == ASSUME Serialised PROVE Spec => LastErrorPromised
<1>1. IInv /\ IInv' /\ [Next]_vars => [Promise!Next]_(Promise!vars)
  <2> SUFFICES ASSUME IInv, IInv', [Next]_vars
               PROVE  Promise!Next \/ UNCHANGED Promise!vars
    OBVIOUS
  <2>1. CASE UNCHANGED vars
    BY <2>1 DEF vars, Promise!vars, storeBar, lastErrorBar, GetSpecific,
       HasKey, KeyExists
  <2>2. CASE Next
    BY <2>2, RefinementWithoutKey, RefinementWithKey DEF Next
  <2> QED BY <2>1, <2>2
<1> QED BY Invariance, RefinementInit, <1>1, PTL DEF Spec, LastErrorPromised, Promise!Spec
=============================================================================
