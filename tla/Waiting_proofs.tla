---------------------------- MODULE Waiting_proofs ----------------------------
(***************************************************************************)
(* Theorems about CondVar and Thread.  For any set of threads: a           *)
(* notification is never missed by an untimed wait, the internal mutex     *)
(* exists for every thread inside a wait and, if the object is not         *)
(* destroyed under a timed wait, no thread sleeps on the queue of an       *)
(* object that is gone.  For any sets of threads and of thread and jthread *)
(* objects: a thread's state lives exactly as long as it runs, and until   *)
(* it is joined or detached there is exactly one object to join it with.   *)
(***************************************************************************)
EXTENDS CondVar, Thread, FiniteSetTheorems, TLAPS

-----------------------------------------------------------------------------
(* condition_variable *)

\* What the argument needs of the types; the count of references is not used.
Types ==
  /\ asleep \subseteq Threads
  /\ pc \in [Threads -> InWait \cup {"out", "in"}]
  /\ timed \in [Threads -> BOOLEAN]
  /\ expired \in [Threads -> BOOLEAN]
  /\ slept \in [Threads -> BOOLEAN]

\* The internal mutex is held between a thread's unlock and its sleep, so that
\* nobody can notify in between.
Guarded == \A t \in Threads : pc[t] \in {"held", "before", "after"} => internal = t

\* Who is in the queue, and why a sleep is repeated.
Queued ==
  \A t \in Threads :
    /\ t \in asleep <=> pc[t] = "asleep"
    /\ pc[t] \in InWait /\ slept[t] => timed[t]

\* An untimed wait is pending until it is notified.
Pending == \A t \in Threads : pc[t] \in {"before", "asleep"} /\ ~timed[t] => t \in pending

\* The object exists for the threads that have not begun to wait, and for those
\* in a timed wait, which may sleep again.
Exists ==
  \A t \in Threads :
    /\ pc[t] \in {"enter", "held", "before", "asleep"} => alive
    /\ pc[t] \in InWait /\ timed[t] => alive

IInv == Types /\ Guarded /\ Queued /\ Pending

-----------------------------------------------------------------------------
LEMMA Initially == Init => IInv /\ Exists
<1>. SUFFICES ASSUME Init PROVE IInv /\ Exists
  OBVIOUS
<1>. QED
  BY DEF Init, IInv, Types, Guarded, Queued, Pending, Exists, InWait

\* The actions of the program that leave every wait where it is.
LEMMA ProgramKeeps ==
  ASSUME IInv, NEW t \in Threads,
         LockUser(t) \/ UnlockUser(t) \/ SetFlag(t) \/ Destroy(t)
  PROVE  IInv'
<1>. USE DEF IInv, Types, Guarded, Queued, Pending, InWait
<1>1. CASE LockUser(t)
  BY <1>1 DEF LockUser, Goto
<1>2. CASE UnlockUser(t)
  BY <1>2 DEF UnlockUser, Goto
<1>3. CASE SetFlag(t)
  BY <1>3 DEF SetFlag
<1>4. CASE Destroy(t)
  BY <1>4 DEF Destroy
<1>. QED
  BY <1>1, <1>2, <1>3, <1>4

\* No thread is between its unlock and its sleep when another one notifies.
LEMMA NobodyBetween ==
  ASSUME IInv, MayNotify, None \notin Threads
  PROVE  \A u \in Threads : pc[u] \notin {"held", "before", "after"}
BY DEF IInv, Guarded, MayNotify

LEMMA NotifyKeeps ==
  ASSUME IInv, NEW t \in Threads, NotifyAll(t) \/ NotifyOne(t)
  PROVE  IInv'
<1>1. MayNotify
  BY DEF NotifyAll, NotifyOne
<1>2. \A u \in Threads : pc[u] \notin {"held", "before", "after"}
  BY <1>1, NobodyBetween, CondVarAssumption DEF CondVarAssumption
<1>3. CASE NotifyAll(t)
  <2>1. \A u \in Threads : pc'[u] = IF u \in asleep THEN "relock" ELSE pc[u]
    BY <1>3 DEF NotifyAll, Awake
  <2>2. Types'
    BY <1>3 DEF NotifyAll, Awake, IInv, Types, InWait
  <2>3. Guarded' /\ Queued' /\ Pending'
    BY <1>2, <1>3, <2>1 DEF NotifyAll, IInv, Guarded, Queued, Pending, InWait
  <2>. QED
    BY <2>2, <2>3 DEF IInv
<1>4. CASE NotifyOne(t)
  <2>1. PICK u \in asleep : /\ asleep' = asleep \ {u}
                            /\ pending' = pending \ {u}
                            /\ pc' = Awake({u})
    BY <1>4 DEF NotifyOne
  <2>2. \A v \in Threads : pc'[v] = IF v = u THEN "relock" ELSE pc[v]
    BY <2>1 DEF Awake
  <2>3. Types'
    BY <1>4, <2>1 DEF NotifyOne, Awake, IInv, Types, InWait
  <2>4. Guarded' /\ Queued' /\ Pending'
    BY <1>2, <1>4, <2>1, <2>2 DEF NotifyOne, IInv, Types, Guarded, Queued, Pending, InWait
  <2>. QED
    BY <2>3, <2>4 DEF IInv
<1>. QED
  BY <1>3, <1>4

LEMMA WaitKeeps ==
  ASSUME IInv, NEW t \in Threads,
         BeginWait(t) \/ Proceed(t) \/ Deadline(t) \/ TimeOut(t)
  PROVE  IInv'
<1>. USE DEF IInv, Types, Guarded, Queued, Pending, InWait, Goto
<1>1. CASE BeginWait(t)
  <2>1. PICK b \in BOOLEAN : timed' = [timed EXCEPT ![t] = b]
    BY <1>1 DEF BeginWait
  <2>. QED
    BY <1>1, <2>1 DEF BeginWait
<1>2. CASE LockInternal(t)
  BY <1>2, CondVarAssumption DEF LockInternal, CondVarAssumption
<1>3. CASE GiveUpLock(t)
  BY <1>3 DEF GiveUpLock
<1>4. CASE Sleep(t)
  BY <1>4 DEF Sleep
<1>5. CASE Relock(t)
  <2>1. pc'[t] \in {"before", "after"} /\ (pc'[t] = "before" => timed[t])
    BY <1>5 DEF Relock
  <2>2. \A u \in Threads : u # t => pc[u] \notin {"held", "before", "after"}
    BY <1>5, CondVarAssumption DEF Relock, CondVarAssumption
  <2>. QED
    BY <1>5, <2>1, <2>2 DEF Relock
<1>6. CASE UnlockInternal(t)
  BY <1>6 DEF UnlockInternal, ReleaseInternal
<1>7. CASE Regain(t)
  BY <1>7 DEF Regain
<1>8. CASE EndWait(t)
  BY <1>8 DEF EndWait
<1>9. CASE Deadline(t)
  BY <1>9 DEF Deadline
<1>10. CASE TimeOut(t)
  BY <1>10 DEF TimeOut
<1>. QED
  BY <1>1, <1>2, <1>3, <1>4, <1>5, <1>6, <1>7, <1>8, <1>9, <1>10 DEF Proceed

LEMMA Inductive == IInv /\ [Next]_vars => IInv'
<1>. SUFFICES ASSUME IInv, [Next]_vars PROVE IInv'
  OBVIOUS
<1>1. ASSUME NEW t \in Threads, Program(t)
      PROVE  IInv'
  BY <1>1, ProgramKeeps, NotifyKeeps, WaitKeeps DEF Program
<1>2. ASSUME NEW t \in Threads, Proceed(t) \/ Deadline(t) \/ TimeOut(t)
      PROVE  IInv'
  BY <1>2, WaitKeeps
<1>3. CASE NewCondition
  BY <1>3 DEF NewCondition, IInv, Types, Guarded, Queued, Pending
<1>4. CASE UNCHANGED vars
  BY <1>4 DEF vars, IInv, Types, Guarded, Queued, Pending
<1>. QED
  BY <1>1, <1>2, <1>3, <1>4 DEF Next

LEMMA Invariant == Spec => []IInv
BY Initially, Inductive, PTL DEF Spec

\* A thread in an untimed wait sleeps only while nobody has notified since it
\* unlocked: notify_all and notify_one, with the internal mutex, cannot fall
\* between the unlock and the sleep.
THEOREM NotificationIsSeen == Spec => []NoMissedNotify
<1>1. IInv => NoMissedNotify
  BY DEF IInv, Types, Queued, Pending, NoMissedNotify
<1>. QED
  BY <1>1, Invariant, PTL

-----------------------------------------------------------------------------
(* The object exists while a thread sleeps on its queue. *)

\* The steps of one thread's wait do not need the object before it is gone.
LEMMA WaitExists ==
  ASSUME IInv, Exists, NEW t \in Threads,
         BeginWait(t) \/ Proceed(t) \/ Deadline(t) \/ TimeOut(t)
  PROVE  Exists'
<1>. USE DEF IInv, Types, Queued, Exists, InWait, Goto
<1>1. CASE BeginWait(t)
  BY <1>1 DEF BeginWait
<1>2. CASE LockInternal(t)
  BY <1>2 DEF LockInternal
<1>3. CASE GiveUpLock(t)
  BY <1>3 DEF GiveUpLock
<1>4. CASE Sleep(t)
  BY <1>4 DEF Sleep
<1>5. CASE Relock(t)
  <2>1. pc'[t] \in {"before", "after"} /\ (pc'[t] = "before" => timed[t])
    BY <1>5 DEF Relock
  <2>. QED
    BY <1>5, <2>1 DEF Relock
<1>6. CASE UnlockInternal(t)
  BY <1>6 DEF UnlockInternal
<1>7. CASE Regain(t)
  BY <1>7 DEF Regain
<1>8. CASE EndWait(t)
  BY <1>8 DEF EndWait
<1>9. CASE Deadline(t)
  BY <1>9 DEF Deadline
<1>10. CASE TimeOut(t)
  BY <1>10 DEF TimeOut
<1>. QED
  BY <1>1, <1>2, <1>3, <1>4, <1>5, <1>6, <1>7, <1>8, <1>9, <1>10 DEF Proceed

LEMMA NotifyExists ==
  ASSUME IInv, Exists, NEW t \in Threads, NotifyAll(t) \/ NotifyOne(t)
  PROVE  Exists'
<1>1. alive'
  BY DEF NotifyAll, NotifyOne
<1>. QED
  BY <1>1 DEF Exists

LEMMA DestroyExists ==
  ASSUME IInv, Exists, ~DestroyInTimedWait, NEW t \in Threads, Destroy(t)
  PROVE  Exists'
<1>1. \A u \in Threads : pc[u] \in InWait => ~timed[u]
  BY DEF Destroy
<1>2. \A u \in Threads : pc[u] \notin {"enter", "held", "before", "asleep"}
  BY <1>1 DEF Destroy, IInv, Pending, InWait
<1>. QED
  BY <1>1, <1>2 DEF Destroy, Exists

LEMMA ExistsInductive ==
  ASSUME ~DestroyInTimedWait
  PROVE  IInv /\ Exists /\ [Next]_vars => Exists'
<1>. SUFFICES ASSUME IInv, Exists, [Next]_vars PROVE Exists'
  OBVIOUS
<1>1. ASSUME NEW t \in Threads, Program(t)
      PROVE  Exists'
  <2>1. CASE LockUser(t) \/ UnlockUser(t) \/ SetFlag(t)
    BY <2>1 DEF LockUser, UnlockUser, SetFlag, Goto, IInv, Types, Exists, InWait
  <2>. QED
    BY <1>1, <2>1, DestroyExists, NotifyExists, WaitExists DEF Program
<1>2. ASSUME NEW t \in Threads, Proceed(t) \/ Deadline(t) \/ TimeOut(t)
      PROVE  Exists'
  BY <1>2, WaitExists
<1>3. CASE NewCondition
  BY <1>3 DEF NewCondition, Exists
<1>4. CASE UNCHANGED vars
  BY <1>4 DEF vars, Exists
<1>. QED
  BY <1>1, <1>2, <1>3, <1>4 DEF Next

\* If the object outlives the timed waits, no thread sleeps, or is about to, on
\* the queue of an object that is gone; an untimed wait that has been notified
\* does not need it any more.
THEOREM QueueExists ==
  ASSUME ~DestroyInTimedWait
  PROVE  Spec => []ConditionAlive
<1>1. Exists => ConditionAlive
  BY DEF Exists, ConditionAlive
<1>. QED
  BY <1>1, Initially, Inductive, ExistsInductive, PTL DEF Spec

-----------------------------------------------------------------------------
(* The internal mutex exists while a thread is inside a wait: the object    *)
(* and every wait have a reference each, so that it is never the last one   *)
(* that somebody else gives back.                                           *)

Waiting == {t \in Threads : pc[t] \in InWait}

RefsExact == refs = Cardinality(Waiting) + (IF alive THEN 1 ELSE 0)

LInv == TypeOK /\ RefsExact

\* How many wait, before and after a step that moves one thread.
LEMMA WaitingCounts ==
  /\ IsFiniteSet(Waiting) /\ Cardinality(Waiting) \in Nat
  /\ \A t \in Threads :
       /\ Cardinality(Waiting \cup {t}) =
            IF t \in Waiting THEN Cardinality(Waiting) ELSE Cardinality(Waiting) + 1
       /\ Cardinality(Waiting \ {t}) =
            IF t \in Waiting THEN Cardinality(Waiting) - 1 ELSE Cardinality(Waiting)
       /\ t \in Waiting => Cardinality(Waiting) > 0
<1>1. IsFiniteSet(Waiting)
  <2>1. Waiting \in SUBSET Threads
    BY DEF Waiting
  <2>. QED
    BY <2>1, FS_Subset, CondVarAssumption DEF CondVarAssumption
<1>2. Cardinality(Waiting) \in Nat
  BY <1>1, FS_CardinalityType
<1>3. ASSUME NEW t \in Threads, t \in Waiting PROVE Cardinality(Waiting) > 0
  BY <1>1, <1>2, <1>3, FS_EmptySet
<1>. QED
  BY <1>1, <1>2, <1>3, FS_AddElement, FS_RemoveElement

\* A step that moves nobody into a wait or out of one, nor makes or destroys
\* the object, must not change the count.
LEMMA CountKept ==
  ASSUME RefsExact, refs' = refs, alive' = alive,
         \A u \in Threads : pc'[u] \in InWait <=> pc[u] \in InWait
  PROVE  RefsExact'
<1>1. Waiting' = Waiting
  BY DEF Waiting
<1>. QED
  BY <1>1 DEF RefsExact

LEMMA MovesKeepCount ==
  ASSUME IInv, LInv, NEW t \in Threads,
         \/ LockUser(t) \/ UnlockUser(t) \/ SetFlag(t) \/ Deadline(t) \/ TimeOut(t)
         \/ NotifyAll(t) \/ NotifyOne(t) \/ LockInternal(t) \/ GiveUpLock(t) \/ Sleep(t)
         \/ Relock(t) \/ UnlockInternal(t) \/ Regain(t)
  PROVE  LInv'
<1>. USE DEF LInv, TypeOK, Goto
<1>1. CASE LockUser(t)
  BY <1>1, CountKept DEF LockUser, InWait
<1>2. CASE UnlockUser(t)
  BY <1>2, CountKept DEF UnlockUser, InWait
<1>3. CASE SetFlag(t)
  BY <1>3, CountKept DEF SetFlag
<1>4. CASE Deadline(t)
  BY <1>4, CountKept DEF Deadline
<1>5. CASE TimeOut(t)
  BY <1>5, CountKept DEF TimeOut, InWait
<1>6. CASE NotifyAll(t)
  <2>1. \A u \in Threads : u \in asleep => pc[u] = "asleep"
    BY DEF IInv, Queued
  <2>2. \A u \in Threads : pc'[u] \in InWait <=> pc[u] \in InWait
    BY <1>6, <2>1 DEF NotifyAll, Awake, InWait
  <2>3. TypeOK'
    BY <1>6 DEF NotifyAll, Awake, InWait
  <2>. QED
    BY <1>6, <2>2, <2>3, CountKept DEF NotifyAll
<1>7. CASE NotifyOne(t)
  <2>1. \A u \in Threads : u \in asleep => pc[u] = "asleep"
    BY DEF IInv, Queued
  <2>2. \A u \in Threads : pc'[u] \in InWait <=> pc[u] \in InWait
    BY <1>7, <2>1 DEF NotifyOne, Awake, InWait
  <2>3. TypeOK'
    BY <1>7 DEF NotifyOne, Awake, InWait
  <2>. QED
    BY <1>7, <2>2, <2>3, CountKept DEF NotifyOne
<1>8. CASE LockInternal(t)
  BY <1>8, CountKept DEF LockInternal, InWait
<1>9. CASE GiveUpLock(t)
  BY <1>9, CountKept DEF GiveUpLock, InWait
<1>10. CASE Sleep(t)
  BY <1>10, CountKept DEF Sleep, InWait
<1>11. CASE Relock(t)
  BY <1>11, CountKept DEF Relock, InWait
<1>12. CASE UnlockInternal(t)
  BY <1>12, CountKept DEF UnlockInternal, ReleaseInternal, InWait
<1>13. CASE Regain(t)
  BY <1>13, CountKept DEF Regain, InWait
<1>. QED
  BY <1>1, <1>2, <1>3, <1>4, <1>5, <1>6, <1>7, <1>8, <1>9, <1>10, <1>11, <1>12, <1>13

\* A reference comes and goes with the object, and with each wait.
LEMMA ReferencesMove ==
  ASSUME LInv, NEW t \in Threads, BeginWait(t) \/ EndWait(t) \/ Destroy(t)
  PROVE  LInv'
<1>. USE DEF LInv, TypeOK, RefsExact
<1>1. CASE BeginWait(t)
  <2>1. Waiting' = Waiting \cup {t} /\ t \notin Waiting
    BY <1>1 DEF BeginWait, Goto, Waiting, InWait
  <2>2. RefsExact'
    BY <1>1, <2>1, WaitingCounts DEF BeginWait, Reference
  <2>3. PICK b \in BOOLEAN : timed' = [timed EXCEPT ![t] = b]
    BY <1>1 DEF BeginWait
  <2>4. refs' \in Nat
    BY <1>1 DEF BeginWait, Reference
  <2>. QED
    BY <1>1, <2>2, <2>3, <2>4 DEF BeginWait, Goto, InWait
<1>2. CASE EndWait(t)
  <2>1. Waiting' = Waiting \ {t} /\ t \in Waiting
    BY <1>2 DEF EndWait, Goto, Waiting, InWait
  <2>2. RefsExact' /\ refs' \in Nat
    BY <1>2, <2>1, WaitingCounts DEF EndWait
  <2>. QED
    BY <1>2, <2>2 DEF EndWait, Goto
<1>3. CASE Destroy(t)
  <2>1. Waiting' = Waiting
    BY <1>3 DEF Destroy, Waiting
  <2>2. RefsExact' /\ refs' \in Nat
    BY <1>3, <2>1, WaitingCounts DEF Destroy
  <2>. QED
    BY <1>3, <2>2 DEF Destroy
<1>. QED
  BY <1>1, <1>2, <1>3

LEMMA NewKeepsCount == ASSUME LInv, NewCondition PROVE LInv'
<1>1. Waiting' = Waiting
  BY DEF NewCondition, Waiting
<1>. QED
  BY <1>1, WaitingCounts DEF NewCondition, LInv, TypeOK, RefsExact

\* The internal mutex exists for every thread inside a wait, whether or not the
\* object still does.
THEOREM MutexOutlives == Spec => []MutexAlive
<1>1. Init => LInv
  <2>. SUFFICES ASSUME Init PROVE LInv
    OBVIOUS
  <2>1. Waiting = {}
    BY DEF Init, Waiting, InWait
  <2>2. alive /\ refs = 1 /\ Cardinality({}) = 0
    BY FS_EmptySet DEF Init
  <2>3. RefsExact
    BY <2>1, <2>2 DEF RefsExact
  <2>4. TypeOK
    BY DEF Init, TypeOK, InWait
  <2>. QED
    BY <2>3, <2>4 DEF LInv
<1>2. IInv /\ LInv /\ [Next]_vars => LInv'
  <2>. SUFFICES ASSUME IInv, LInv, [Next]_vars PROVE LInv'
    OBVIOUS
  <2>1. CASE NewCondition
    BY <2>1, NewKeepsCount
  <2>2. ASSUME NEW t \in Threads, Program(t) \/ Proceed(t) \/ Deadline(t) \/ TimeOut(t)
        PROVE  LInv'
    BY <2>2, MovesKeepCount, ReferencesMove DEF Program, Proceed
  <2>3. CASE UNCHANGED vars
    BY <2>3, CountKept DEF vars, LInv, TypeOK
  <2>. QED
    BY <2>1, <2>2, <2>3 DEF Next
<1>3. LInv => MutexAlive
  <2>. SUFFICES ASSUME LInv, NEW t \in Threads, pc[t] \in InWait PROVE refs > 0
    BY DEF LInv, MutexAlive
  <2>1. t \in Waiting
    BY DEF Waiting
  <2>2. Cardinality(Waiting) \in Nat /\ Cardinality(Waiting) > 0
    BY <2>1, WaitingCounts
  <2>3. refs = Cardinality(Waiting) \/ refs = Cardinality(Waiting) + 1
    BY <2>2 DEF LInv, RefsExact
  <2>. QED
    BY <2>2, <2>3
<1>. QED
  BY <1>1, <1>2, <1>3, Initially, Inductive, PTL DEF Spec

-----------------------------------------------------------------------------
(* thread and jthread: every thread has one object until it is joined or   *)
(* detached.  The invariant says besides which calls are under way.        *)

\* A joinable object is the only one for its thread, which is not over.
Handles ==
  /\ \A o \in Objects : Joinable(o) =>
       os[object[o].handle] \in {"running", "ended"} /\ object[o].handle \notin detached
  /\ \A o, g \in Objects : Joinable(o) /\ object[o].handle = object[g].handle => o = g
  /\ \A w \in Workers : os[w] \in {"running", "ended"} /\ w \notin detached =>
       \E o \in Objects : object[o].handle = w

Detachments == \A w \in detached : os[w] \in {"running", "gone"}

Sources == \A o \in JThreads : Joinable(o) => object[o].source = object[o].handle

\* A call that will join has something to join (its object does not change
\* meanwhile, as the thread with the objects is in the call), one that runs a
\* stop callback has a stop_state, and one that moves has two objects of one type.
Calls ==
  call.pc # "idle" =>
    /\ call.on \in Objects
    /\ call.pc = "join" => call.next # "keep"
    /\ call.pc # "join" => object[call.on].source # NoThread
    /\ call.next # "keep" => Joinable(call.on)
    /\ call.next = "move" =>
         /\ call.from \in Objects /\ call.from # call.on
         /\ call.on \in JThreads <=> call.from \in JThreads

Inv == ThreadTypeOK /\ StateExact /\ Handles /\ Detachments /\ Sources /\ Calls

-----------------------------------------------------------------------------
LEMMA InitiallyExact == ThreadInit => Inv
<1> SUFFICES ASSUME ThreadInit PROVE Inv
  OBVIOUS
<1>1. ThreadTypeOK
  BY ThreadAssumption DEF ThreadInit, WaitInit, ThreadTypeOK, WaitTypeOK, NoWorker, Object, Fresh, Call, Idle
<1>2. StateExact /\ Handles /\ Detachments /\ Sources /\ Calls
  BY ThreadAssumption
  DEF ThreadInit, NoWorker, Fresh, Idle, StateExact, Handles, Detachments, Sources, Calls, Joinable
<1> QED
  BY <1>1, <1>2 DEF Inv

\* After terminate nothing is left.
LEMMA Terminated == Terminate => Inv'
<1> SUFFICES ASSUME Terminate PROVE Inv'
  OBVIOUS
<1>1. ThreadTypeOK'
  BY ThreadAssumption DEF Terminate, ThreadTypeOK, WaitTypeOK, NoWorker, Object, Fresh, Call, Idle
<1>2. (StateExact /\ Handles /\ Detachments /\ Sources /\ Calls)'
  BY ThreadAssumption
  DEF Terminate, NoWorker, Fresh, Idle, StateExact, Handles, Detachments, Sources, Calls, Joinable
<1> QED
  BY <1>1, <1>2 DEF Inv

-----------------------------------------------------------------------------
(* What a step of a thread, of its waits or of the program's stores does   *)
(* to the objects: nothing.                                                *)

LEMMA Waits ==
  ASSUME Inv, NEW w \in Workers,
         EnterWait(w) \/ ContinueWait(w) \/ Spurious(w) \/ StoreAny(w) \/ StoreLast(w) \/ NotifyLater(w)
  PROVE  Inv'
<1>1. UNCHANGED <<object, os, detached, state, callback, requested, call, terminated>>
  BY DEF EnterWait, ContinueWait, Spurious, StoreAny, StoreLast, NotifyLater, threadVars
<1>2. WaitTypeOK'
  BY DEF Inv, ThreadTypeOK, WaitTypeOK, EnterWait, ContinueWait, Spurious, StoreAny, StoreLast, NotifyLater,
         CallWait, Load, WaitPlatform, WakeEarly, Move, Store, Stored, Notify, Woken
<1>3. last' \subseteq Workers
  BY DEF Inv, ThreadTypeOK, EnterWait, ContinueWait, Spurious, StoreAny, StoreLast, NotifyLater, threadVars
<1>4. ThreadTypeOK'
  BY <1>1, <1>2, <1>3 DEF Inv, ThreadTypeOK
<1>5. (StateExact /\ Handles /\ Detachments /\ Sources /\ Calls)'
  BY <1>1 DEF Inv, StateExact, Handles, Detachments, Sources, Calls, Joinable
<1> QED
  BY <1>4, <1>5 DEF Inv

LEMMA Registers ==
  ASSUME Inv, NEW w \in Workers, Register(w)
  PROVE  Inv'
<1>1. ThreadTypeOK'
  BY DEF Inv, ThreadTypeOK, WaitTypeOK, Register, Stored
<1>2. UNCHANGED <<object, os, detached, state, call>>
  BY DEF Register
<1>3. (StateExact /\ Handles /\ Detachments /\ Sources /\ Calls)'
  BY <1>2 DEF Inv, StateExact, Handles, Detachments, Sources, Calls, Joinable
<1> QED
  BY <1>1, <1>3 DEF Inv

\* However it ends, the state goes with the thread.
LEMMA Ends ==
  ASSUME Inv, NEW w \in Workers, End(w) \/ Unwind(w)
  PROVE  Inv'
<1>1. ThreadTypeOK'
  BY DEF Inv, ThreadTypeOK, WaitTypeOK, End, Unwind, Over, waitVars
<1>2. /\ os' = [os EXCEPT ![w] = IF w \in detached THEN "gone" ELSE "ended"]
      /\ state' = [state EXCEPT ![w] = "deleted"]
      /\ os[w] = "running"
      /\ UNCHANGED <<object, detached, call>>
  BY DEF End, Unwind, Over, Running
<1>3. StateExact'
  BY <1>2 DEF Inv, StateExact, ThreadTypeOK
<1>4. (Handles /\ Detachments)'
  BY <1>2, ThreadAssumption DEF Inv, ThreadTypeOK, Handles, Detachments, Joinable, Object
<1>5. (Sources /\ Calls)'
  BY <1>2 DEF Inv, Sources, Calls, Joinable
<1> QED
  BY <1>1, <1>3, <1>4, <1>5 DEF Inv

LEMMA Launches ==
  ASSUME Inv, NEW w \in Workers, LaunchDetached(w)
  PROVE  Inv'
<1>1. ThreadTypeOK'
  BY DEF Inv, ThreadTypeOK, WaitTypeOK, LaunchDetached, waitVars
<1>2. StateExact'
  BY DEF Inv, StateExact, ThreadTypeOK, LaunchDetached
<1>3. (Handles /\ Detachments)'
  BY ThreadAssumption DEF Inv, ThreadTypeOK, LaunchDetached, Handles, Detachments, Joinable, Object
<1>4. (Sources /\ Calls)'
  BY DEF Inv, LaunchDetached, Sources, Calls, Joinable
<1> QED
  BY <1>1, <1>2, <1>3, <1>4 DEF Inv

-----------------------------------------------------------------------------
(* Thread objects *)

LEMMA Starts ==
  ASSUME Inv, NEW o \in Objects, NEW w \in Workers, Start(o, w)
  PROVE  Inv'
<1>1. ThreadTypeOK'
  BY DEF Inv, ThreadTypeOK, WaitTypeOK, Start, waitVars, Object
<1>2. StateExact'
  BY DEF Inv, StateExact, ThreadTypeOK, Start
<1>3. /\ \A g \in Objects \ {o} : object'[g] = object[g] /\ object[g].handle # w
      /\ object[o].handle = NoThread /\ object'[o].handle = w
      /\ o \in JThreads => object'[o].source = w
  BY ThreadAssumption DEF Inv, ThreadTypeOK, Start, Handles, Joinable, Object, Fresh
<1>4. (Handles /\ Detachments)'
  BY <1>3, ThreadAssumption DEF Inv, ThreadTypeOK, Start, Handles, Detachments, Joinable, Object
<1>5. Sources'
  BY <1>3, ThreadAssumption DEF Inv, Sources, Joinable
<1>6. Calls'
  BY DEF Start, Ready, Calls, Idle
<1> QED
  BY <1>1, <1>2, <1>4, <1>5, <1>6 DEF Inv

\* An object takes over what another had; its own thread is gone.
LEMMA MovesOver ==
  ASSUME Inv, NEW o \in Objects, NEW g \in Objects, o # g, o \in JThreads <=> g \in JThreads,
         object' = Moved(o, g),
         \A w \in Workers : os'[w] = IF w = object[o].handle THEN "gone" ELSE os[w],
         UNCHANGED detached
  PROVE  /\ object' \in [Objects -> Object]
         /\ Handles' /\ Sources'
<1>1. object' \in [Objects -> Object]
  BY DEF Inv, ThreadTypeOK, Moved, Object, Fresh
<1>2. /\ object'[o] = object[g] /\ object'[g].handle = NoThread
      /\ \A x \in Objects \ {o, g} : object'[x] = object[x]
  BY DEF Inv, ThreadTypeOK, Moved, Fresh
<1>3. \A x \in Objects : object[x].handle \in Workers \cup {NoThread}
  BY DEF Inv, ThreadTypeOK, Object
<1>4. Handles'
  <2>1. (\A x \in Objects : Joinable(x) =>
           os[object[x].handle] \in {"running", "ended"} /\ object[x].handle \notin detached)'
    BY <1>2, <1>3 DEF Inv, Handles, Joinable
  <2>2. (\A x, y \in Objects : Joinable(x) /\ object[x].handle = object[y].handle => x = y)'
    BY <1>2 DEF Inv, Handles, Joinable
  <2>3. ASSUME NEW w \in Workers, os'[w] \in {"running", "ended"}, w \notin detached'
        PROVE  \E x \in Objects : object'[x].handle = w
    <3>1. os[w] = os'[w] /\ object[o].handle # w
      BY <2>3
    <3>2. PICK x \in Objects : object[x].handle = w
      BY <2>3, <3>1 DEF Inv, Handles
    <3> QED
      BY <1>2, <3>1, <3>2
  <2> QED
    BY <2>1, <2>2, <2>3 DEF Handles
<1>5. Sources'
  BY <1>2, ThreadAssumption DEF Inv, Sources, Joinable
<1> QED
  BY <1>1, <1>4, <1>5

\* RequestStop on a joinable object of a call that will join, or of jthread::request_stop.
LEMMA Requests ==
  ASSUME Inv, NEW o \in Objects, NEW next \in {"keep", "end", "move"}, NEW from \in Objects \cup {NoThread},
         Ready, RequestStop(o, next, from), o \in JThreads,
         next # "keep" => Joinable(o),
         next = "move" => from \in JThreads /\ from # o
  PROVE  Inv'
<1> DEFINE s == object[o].source
           runs == s # NoThread /\ s \notin requested /\ callback[s] = "armed"
<1>1. s \in Workers \cup {NoThread}
  BY DEF Inv, ThreadTypeOK, Object
<1>2. ThreadTypeOK'
  <2>1. requested' \subseteq Workers
    BY <1>1 DEF Inv, ThreadTypeOK, RequestStop
  <2>2. callback' \in [Workers -> {"none", "due", "armed", "running", "done"}]
    BY <1>1 DEF Inv, ThreadTypeOK, RequestStop
  <2>3. call' \in Call
    BY DEF RequestStop, Call, Idle
  <2>4. UNCHANGED <<value, waiting, owed, object, os, detached, state, last, terminated>>
    BY DEF RequestStop, waitVars
  <2> QED
    BY <2>1, <2>2, <2>3, <2>4 DEF Inv, ThreadTypeOK, WaitTypeOK
<1>3. UNCHANGED <<object, os, detached, state>>
  BY DEF RequestStop
<1>4. (StateExact /\ Handles /\ Detachments /\ Sources)'
  BY <1>3 DEF Inv, StateExact, Handles, Detachments, Sources, Joinable
<1>5. Calls'
  <2>1. CASE call' = Idle
    BY <2>1 DEF Calls, Idle
  <2>2. CASE call' = [pc |-> IF runs THEN "store" ELSE "join", on |-> o, next |-> next, from |-> from]
             /\ ~(next = "keep" /\ ~runs)
    BY <1>3, <2>2, ThreadAssumption DEF Calls, Joinable
  <2> QED
    BY <2>1, <2>2 DEF RequestStop
<1> QED
  BY <1>2, <1>4, <1>5 DEF Inv

LEMMA RunsCallback ==
  ASSUME Inv, CallbackStores \/ CallbackNotifies
  PROVE  Inv'
<1>1. /\ call \in Call /\ call.on \in Objects
      /\ object[call.on].source \in Workers
      /\ call.next # "keep" => Joinable(call.on)
  BY DEF Inv, ThreadTypeOK, Calls, Call, CallbackStores, CallbackNotifies, Object
<1>2. ThreadTypeOK'
  <2>1. CASE CallbackStores
    BY <1>1, <2>1 DEF CallbackStores, Inv, ThreadTypeOK, WaitTypeOK, Stored, Call
  <2>2. CASE CallbackNotifies
    BY <1>1, <2>2 DEF CallbackNotifies, Inv, ThreadTypeOK, WaitTypeOK, Woken, Call, Idle
  <2> QED
    BY <2>1, <2>2
<1>3. UNCHANGED <<object, os, detached, state>>
  BY DEF CallbackStores, CallbackNotifies
<1>4. (StateExact /\ Handles /\ Detachments /\ Sources)'
  BY <1>3 DEF Inv, StateExact, Handles, Detachments, Sources, Joinable
<1>5. Calls'
  <2>1. CASE CallbackStores
    BY <1>1, <1>3, <2>1, ThreadAssumption DEF CallbackStores, Inv, Calls, Call, Joinable
  <2>2. CASE CallbackNotifies
    BY <1>1, <1>3, <2>2, ThreadAssumption DEF CallbackNotifies, Inv, Calls, Call, Idle, Joinable
  <2> QED
    BY <2>1, <2>2
<1> QED
  BY <1>2, <1>4, <1>5 DEF Inv

\* join, and the three ways a call goes on after it.
LEMMA Joins ==
  ASSUME Inv, Joined
  PROVE  Inv'
<1> DEFINE o == call.on
           w == object[o].handle
<1>1. /\ o \in Objects /\ w \in Workers /\ os[w] = "ended"
      /\ call.next \in {"join", "end", "move"}
      /\ os' = [os EXCEPT ![w] = "gone"]
      /\ call.next = "move" =>
           call.from \in Objects /\ call.from # o /\ (o \in JThreads <=> call.from \in JThreads)
      /\ UNCHANGED <<detached, state>>
  <2>1. call.pc = "join" /\ call \in Call
    BY DEF Joined, Inv, ThreadTypeOK
  <2>2. o \in Objects /\ Joinable(o) /\ call.next \in {"join", "end", "move"}
    BY <2>1 DEF Inv, Calls, Call
  <2>3. w \in Workers
    BY <2>2 DEF Inv, ThreadTypeOK, Object, Joinable
  <2> QED
    BY <2>1, <2>2, <2>3 DEF Joined, Inv, Calls
<1>2. /\ \A v \in Workers : os'[v] = IF v = w THEN "gone" ELSE os[v]
      /\ os' \in [Workers -> {"none", "running", "ended", "gone"}]
  BY <1>1 DEF Inv, ThreadTypeOK
<1>3. object' \in [Objects -> Object] /\ Handles' /\ Sources'
  <2>1. CASE call.next \in {"join", "end"}
    <3>1. /\ object'[o].handle = NoThread
          /\ \A x \in Objects \ {o} : object'[x] = object[x]
          /\ object' \in [Objects -> Object]
      BY <1>1, <2>1 DEF Joined, Inv, ThreadTypeOK, Object, Fresh
    <3>2. \A x \in Objects : object[x].handle \in Workers \cup {NoThread}
      BY DEF Inv, ThreadTypeOK, Object
    <3>3. Handles'
      BY <1>1, <1>2, <3>1, <3>2, ThreadAssumption DEF Inv, Handles, Joinable
    <3>4. Sources'
      BY <3>1, ThreadAssumption DEF Inv, Sources, Joinable
    <3> QED
      BY <3>1, <3>3, <3>4
  <2>2. CASE call.next = "move"
    <3>1. object' = Moved(o, call.from)
      BY <2>2 DEF Joined
    <3> QED
      BY <1>1, <1>2, <2>2, <3>1, MovesOver
  <2> QED
    BY <1>1, <2>1, <2>2
<1>4. ThreadTypeOK'
  BY <1>1, <1>2, <1>3 DEF Inv, ThreadTypeOK, WaitTypeOK, Joined, waitVars, Call, Idle
<1>5. StateExact' /\ Detachments'
  BY <1>1, <1>2 DEF Inv, StateExact, Detachments, ThreadTypeOK
<1>6. Calls'
  BY DEF Joined, Calls, Idle
<1> QED
  BY <1>3, <1>4, <1>5, <1>6 DEF Inv

LEMMA BeginsJoin ==
  ASSUME Inv, NEW o \in Objects, Join(o)
  PROVE  Inv'
<1>1. ThreadTypeOK'
  BY DEF Inv, ThreadTypeOK, WaitTypeOK, Join, waitVars, Call
<1>2. UNCHANGED <<object, os, detached, state>>
  BY DEF Join
<1>3. (StateExact /\ Handles /\ Detachments /\ Sources)'
  BY <1>2 DEF Inv, StateExact, Handles, Detachments, Sources, Joinable
<1>4. Calls'
  BY <1>2 DEF Join, Calls, Joinable
<1> QED
  BY <1>1, <1>3, <1>4 DEF Inv

LEMMA Detaches ==
  ASSUME Inv, NEW o \in Objects, Detach(o)
  PROVE  Inv'
<1> DEFINE w == object[o].handle
<1>1. /\ w \in Workers /\ os[w] \in {"running", "ended"} /\ w \notin detached
      /\ detached' = detached \cup {w}
      /\ \A v \in Workers : os'[v] = IF v = w /\ os[v] = "ended" THEN "gone" ELSE os[v]
      /\ os' \in [Workers -> {"none", "running", "ended", "gone"}]
  BY DEF Inv, ThreadTypeOK, Detach, Joinable, Object, Handles
<1>2. /\ object'[o].handle = NoThread
      /\ \A x \in Objects \ {o} : object'[x] = object[x]
      /\ object' \in [Objects -> Object]
  BY DEF Inv, ThreadTypeOK, Detach, Object
<1>3. ThreadTypeOK'
  BY <1>1, <1>2 DEF Inv, ThreadTypeOK, WaitTypeOK, Detach, waitVars
<1>4. StateExact' /\ Detachments'
  BY <1>1 DEF Inv, StateExact, Detachments, ThreadTypeOK, Detach
<1>5. \A x \in Objects : object[x].handle \in Workers \cup {NoThread}
  BY DEF Inv, ThreadTypeOK, Object
<1>6. \A x \in Objects \ {o} : Joinable(x) => object[x].handle # w
  BY <1>1 DEF Inv, Handles, Joinable
<1>7. Handles'
  BY <1>1, <1>2, <1>5, <1>6, ThreadAssumption DEF Inv, Handles, Joinable
<1>8. Sources'
  BY <1>2, ThreadAssumption DEF Inv, Sources, Joinable
<1>9. Calls'
  BY DEF Detach, Ready, Calls, Idle
<1> QED
  BY <1>3, <1>4, <1>7, <1>8, <1>9 DEF Inv

\* A joinable jthread that is assigned to is stopped and joined first.
LEMMA MoveAssigns ==
  ASSUME Inv, NEW o \in Objects, NEW g \in Objects, MoveAssign(o, g)
  PROVE  Inv'
<1>1. CASE Joinable(o) /\ o \in JThreads
  BY <1>1, Requests DEF MoveAssign
<1>2. CASE Joinable(o) /\ o \notin JThreads
  BY <1>2, Terminated DEF MoveAssign
<1>3. CASE ~Joinable(o)
  <2>1. /\ object' = Moved(o, g)
        /\ UNCHANGED <<waitVars, os, detached, state, callback, requested, last, call, terminated>>
        /\ call = Idle
    BY <1>3 DEF MoveAssign, Ready
  <2>2. object[o].handle \notin Workers
    BY <1>3, ThreadAssumption DEF Joinable
  <2>3. object' \in [Objects -> Object] /\ Handles' /\ Sources'
    BY <2>1, <2>2, MovesOver DEF MoveAssign
  <2>4. ThreadTypeOK'
    BY <2>1, <2>3 DEF Inv, ThreadTypeOK, WaitTypeOK, waitVars
  <2>5. (StateExact /\ Detachments /\ Calls)'
    BY <2>1 DEF Inv, StateExact, Detachments, Calls, Idle
  <2> QED
    BY <2>3, <2>4, <2>5 DEF Inv
<1> QED
  BY <1>1, <1>2, <1>3

LEMMA Destroys ==
  ASSUME Inv, NEW o \in Objects, DestroyObject(o)
  PROVE  Inv'
<1>1. CASE Joinable(o) /\ o \in JThreads
  BY <1>1, Requests DEF DestroyObject
<1>2. CASE Joinable(o) /\ o \notin JThreads
  BY <1>2, Terminated DEF DestroyObject
<1>3. CASE ~Joinable(o)
  <2>1. /\ object' = [object EXCEPT ![o] = Fresh]
        /\ UNCHANGED <<waitVars, os, detached, state, callback, requested, last, call, terminated>>
        /\ call = Idle
    BY <1>3 DEF DestroyObject, Ready
  <2>2. /\ object'[o].handle = NoThread
        /\ \A x \in Objects \ {o} : object'[x] = object[x]
        /\ object' \in [Objects -> Object]
    BY <2>1 DEF Inv, ThreadTypeOK, Object, Fresh
  <2>3. object[o].handle = NoThread
    BY <1>3 DEF Joinable
  <2>4. (StateExact /\ Detachments /\ Calls)'
    BY <2>1 DEF Inv, StateExact, Detachments, Calls, Idle
  <2>5. Handles' /\ Sources'
    BY <2>1, <2>2, <2>3, ThreadAssumption DEF Inv, Handles, Sources, Joinable
  <2>6. ThreadTypeOK'
    BY <2>1, <2>2 DEF Inv, ThreadTypeOK, WaitTypeOK, waitVars
  <2> QED
    BY <2>4, <2>5, <2>6 DEF Inv
<1> QED
  BY <1>1, <1>2, <1>3

-----------------------------------------------------------------------------
LEMMA Kept == Inv /\ [ThreadNext]_allVars => Inv'
<1> SUFFICES ASSUME Inv, [ThreadNext]_allVars PROVE Inv'
  OBVIOUS
<1>1. ASSUME NEW w \in Workers, OfWorker(w) PROVE Inv'
  BY <1>1, Registers, Waits, Ends, Launches DEF OfWorker
<1>2. ASSUME NEW o \in Objects, OfObject(o) PROVE Inv'
  <2>1. CASE Request(o)
    BY <2>1, Requests DEF Request
  <2>2. CASE JoinNothing(o)
    BY <2>2, Terminated DEF JoinNothing
  <2> QED
    BY <1>2, <2>1, <2>2, BeginsJoin, Detaches, Destroys, Starts, MoveAssigns DEF OfObject
<1>3. CASE UNCHANGED allVars
  <2>1. UNCHANGED <<value, waiting, owed, object, os, detached, state, callback, requested, last, call, terminated>>
    BY <1>3 DEF allVars, waitVars, threadVars
  <2>2. ThreadTypeOK'
    BY <2>1 DEF Inv, ThreadTypeOK, WaitTypeOK
  <2>3. (StateExact /\ Handles /\ Detachments /\ Sources /\ Calls)'
    BY <2>1 DEF Inv, StateExact, Handles, Detachments, Sources, Calls, Joinable
  <2> QED
    BY <2>2, <2>3 DEF Inv
<1> QED
  BY <1>1, <1>2, <1>3, RunsCallback, Joins DEF ThreadNext

\* The objects of a thread are one or none.
LEMMA Counts == Inv => ThreadsExact
<1> SUFFICES ASSUME Inv PROVE ObjectsExact
  BY DEF Inv, ThreadsExact
<1>1. ASSUME NEW w \in Workers
      PROVE  Cardinality({o \in Objects : object[o].handle = w})
               = IF os[w] \in {"running", "ended"} /\ w \notin detached THEN 1 ELSE 0
  <2> DEFINE S == {o \in Objects : object[o].handle = w}
  <2>1. CASE os[w] \in {"running", "ended"} /\ w \notin detached
    <3>1. PICK o \in Objects : object[o].handle = w
      BY <2>1 DEF Inv, Handles
    <3>2. S = {o}
      BY <3>1, ThreadAssumption DEF Inv, Handles, Joinable
    <3> QED
      BY <2>1, <3>2, FS_Singleton
  <2>2. CASE ~(os[w] \in {"running", "ended"} /\ w \notin detached)
    <3>1. S = {}
      BY <2>2, ThreadAssumption DEF Inv, Handles, Joinable
    <3> QED
      BY <2>2, <3>1, FS_EmptySet
  <2> QED
    BY <2>1, <2>2
<1> QED
  BY <1>1 DEF Inv, ObjectsExact, Sources

(* The state of a thread is there as long as it runs, and a thread that was *)
(* not detached or joined has exactly one object to join it with, which in  *)
(* a jthread also has its stop_state (thread::__start, and the moves of     *)
(* thread and jthread), for any sets of threads and objects.                *)
THEOREM EveryThreadHasItsObject == ThreadSpec => []ThreadsExact
  BY InitiallyExact, Kept, Counts, PTL DEF ThreadSpec
================================================================================
