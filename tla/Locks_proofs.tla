----------------------------- MODULE Locks_proofs -----------------------------
(***************************************************************************)
(* For any sets of threads and mutexes and any bound: lock(first, second)  *)
(* never waits while it holds something, call_once calls once, and the     *)
(* mutexes are locked exactly as their owners say.                         *)
(***************************************************************************)
EXTENDS Locks, TLAPS

HeldType == [Mutexes -> [Threads -> Int]]

Types ==
  /\ held \in HeldType
  /\ guard \in [Threads -> [Objects -> Guard]]
  /\ call \in [Threads -> Call]
  /\ flag \in [mutex_ : Threads \cup {None}, done_ : BOOLEAN]
  /\ runs \in Nat
  /\ served \subseteq Threads

(* Where a thread is in lock(first, second): at a "lock" it has nothing    *)
(* locked, and between it and the next one at most what object x names.    *)
Pair(t) ==
  /\ call[t].pc = "lock" => \A m \in Mutexes : held[m][t] <= 0
  /\ call[t].pc \in {"try", "back"} =>
       \A m \in Mutexes : held[m][t] <= IF m = guard[t][call[t].x].mutex THEN 1 ELSE 0

Inv == Types /\ OnceExact /\ \A t \in Threads : Pair(t)

-----------------------------------------------------------------------------
(* Locking and unlocking by t change nothing for another thread. *)

LEMMA LockedColumn ==
  ASSUME NEW h \in HeldType, NEW t \in Threads, NEW m
  PROVE  /\ Locked(h, t, m) \in HeldType
         /\ \A n \in Mutexes, u \in Threads :
              Locked(h, t, m)[n][u] = IF n = m /\ u = t THEN h[n][u] + 1 ELSE h[n][u]
<1>1. CASE m \in Mutexes BY <1>1 DEF HeldType, Locked
<1>2. CASE m \notin Mutexes
  <2>1. Locked(h, t, m) = h BY <1>2 DEF HeldType, Locked
  <2>2. QED BY <1>2, <2>1
<1>3. QED BY <1>1, <1>2

LEMMA UnlockedColumn ==
  ASSUME NEW h \in HeldType, NEW t \in Threads, NEW m
  PROVE  /\ Unlocked(h, t, m) \in HeldType
         /\ \A n \in Mutexes, u \in Threads :
              Unlocked(h, t, m)[n][u] = IF n = m /\ u = t THEN h[n][u] - 1 ELSE h[n][u]
<1>1. CASE m \in Mutexes BY <1>1 DEF HeldType, Unlocked
<1>2. CASE m \notin Mutexes
  <2>1. Unlocked(h, t, m) = h BY <1>2 DEF HeldType, Unlocked
  <2>2. QED BY <1>2, <2>1
<1>3. QED BY <1>1, <1>2

LEMMA WithoutGuardColumn ==
  ASSUME NEW h \in HeldType, NEW t \in Threads, NEW i \in Objects
  PROVE  /\ WithoutGuard(h, t, i) \in HeldType
         /\ \A n \in Mutexes, u \in Threads \ {t} : WithoutGuard(h, t, i)[n][u] = h[n][u]
  BY UnlockedColumn DEF WithoutGuard

LEMMA SameMutex ==
  ASSUME NEW m, NEW n
  PROVE  [mutex |-> m, owns |-> TRUE] = [mutex |-> n, owns |-> TRUE] <=> m = n
  OBVIOUS

LEMMA SetOwns ==
  ASSUME NEW g \in Guard, NEW b \in BOOLEAN
  PROVE  [g EXCEPT !.owns = b] = [mutex |-> g.mutex, owns |-> b]
  BY DEF Guard

(* Setting owns_ leaves the objects of other threads, and the mutex.       *)
LEMMA OwnsColumn ==
  ASSUME guard \in [Threads -> [Objects -> Guard]],
         NEW t \in Threads, NEW i \in Objects, NEW b \in BOOLEAN,
         guard' = [guard EXCEPT ![t][i].owns = b]
  PROVE  /\ guard' \in [Threads -> [Objects -> Guard]]
         /\ \A u \in Threads \ {t} : guard'[u] = guard[u]
         /\ guard'[t][i].mutex = guard[t][i].mutex
<1> DEFINE g == [guard[t][i] EXCEPT !.owns = b]
<1>1. g \in Guard /\ g.mutex = guard[t][i].mutex
  <2>1. guard[t][i] \in Guard OBVIOUS
  <2> HIDE DEF g
  <2>2. g = [mutex |-> guard[t][i].mutex, owns |-> b] BY <2>1 DEF g, Guard
  <2>3. QED BY <2>1, <2>2 DEF Guard
<1>2. guard' = [guard EXCEPT ![t] = [guard[t] EXCEPT ![i] = g]] OBVIOUS
<1>3. QED
  <2> HIDE DEF g
  <2> QED BY <1>1, <1>2

(* A step of a thread outside of lock(first, second) which changes only    *)
(* its own locks and objects keeps everything.                             *)
Own(t) ==
  /\ call[t] = Idle
  /\ held' \in HeldType
  /\ \A n \in Mutexes, u \in Threads \ {t} : held'[n][u] = held[n][u]
  /\ guard' \in [Threads -> [Objects -> Guard]]
  /\ \A u \in Threads \ {t} : guard'[u] = guard[u]
  /\ UNCHANGED <<call, flag, runs, served>>

LEMMA OwnKeeps ==
  ASSUME Inv, NEW t \in Threads, Own(t)
  PROVE  Inv'
<1>1. Types' BY DEF Inv, Types, Own
<1>2. OnceExact' BY DEF Inv, OnceExact, Own
<1>3. ASSUME NEW u \in Threads PROVE Pair(u)'
  <2>1. Pair(u) BY DEF Inv
  <2>2. CASE u = t
    BY <2>2 DEF Own, Pair, Idle
  <2>3. CASE u # t
    BY <2>1, <2>3 DEF Own, Pair
  <2>4. QED BY <2>2, <2>3
<1>4. QED BY <1>1, <1>2, <1>3 DEF Inv

-----------------------------------------------------------------------------
LEMMA GuardTypes ==
  ASSUME Types, NEW t \in Threads, NEW i \in Objects
  PROVE  /\ guard[t][i] \in Guard
         /\ Empty \in Guard
         /\ 3 - i \in Objects
  BY DEF Types, Objects, Guard, Empty

LEMMA MutexSteps ==
  ASSUME Inv, NEW t \in Threads, NEW m \in Mutexes, LockMutex(t, m) \/ UnlockMutex(t, m)
  PROVE  Own(t)
<1> USE DEF Inv, Types
<1>1. CASE LockMutex(t, m) BY <1>1, LockedColumn DEF LockMutex, Own
<1>2. CASE UnlockMutex(t, m) BY <1>2, UnlockedColumn DEF UnlockMutex, Own
<1>3. QED BY <1>1, <1>2

LEMMA ObjectSteps ==
  ASSUME Inv, NEW t \in Threads, NEW i \in Objects,
         \/ DropGuard(t, i) \/ Lock(t, i) \/ Unlock(t, i) \/ Release(t, i) \/ MoveAssign(t, i)
         \/ \E m \in Mutexes : Defer(t, i, m) \/ TryToLock(t, i, m) \/ Adopt(t, i, m)
  PROVE  Own(t)
<1> USE DEF Inv, Types
<1>0. guard[t][i] \in Guard /\ Empty \in Guard /\ 3 - i \in Objects /\ guard[t][3 - i] \in Guard
  BY GuardTypes
<1>1. CASE DropGuard(t, i) BY <1>0, <1>1, WithoutGuardColumn DEF DropGuard, Own
<1>2. CASE Lock(t, i)
  <2>1. /\ call[t] = Idle
        /\ held' = Locked(held, t, guard[t][i].mutex)
        /\ guard' = [guard EXCEPT ![t][i].owns = TRUE]
        /\ UNCHANGED <<call, flag, runs, served>>
    BY <1>2 DEF Lock
  <2>2. guard' \in [Threads -> [Objects -> Guard]] /\ \A u \in Threads \ {t} : guard'[u] = guard[u]
    BY <2>1, OwnsColumn
  <2>3. held' \in HeldType /\ \A n \in Mutexes, u \in Threads \ {t} : held'[n][u] = held[n][u]
    BY <2>1, LockedColumn
  <2>4. QED BY <2>1, <2>2, <2>3 DEF Own
<1>3. CASE Unlock(t, i)
  <2>1. /\ call[t] = Idle
        /\ held' = Unlocked(held, t, guard[t][i].mutex)
        /\ guard' = [guard EXCEPT ![t][i].owns = FALSE]
        /\ UNCHANGED <<call, flag, runs, served>>
    BY <1>3 DEF Unlock
  <2>2. guard' \in [Threads -> [Objects -> Guard]] /\ \A u \in Threads \ {t} : guard'[u] = guard[u]
    BY <2>1, OwnsColumn
  <2>3. held' \in HeldType /\ \A n \in Mutexes, u \in Threads \ {t} : held'[n][u] = held[n][u]
    BY <2>1, UnlockedColumn
  <2>4. QED BY <2>1, <2>2, <2>3 DEF Own
<1>4. CASE Release(t, i) BY <1>0, <1>4 DEF Release, Own
<1>5. CASE MoveAssign(t, i)
  <2>1. held' = WithoutGuard(held, t, i) BY <1>5 DEF MoveAssign
  <2>2. held' \in HeldType /\ \A n \in Mutexes, u \in Threads \ {t} : held'[n][u] = held[n][u]
    BY <2>1, WithoutGuardColumn
  <2>3. guard' \in [Threads -> [Objects -> Guard]] /\ \A u \in Threads \ {t} : guard'[u] = guard[u]
    BY <1>0, <1>5 DEF MoveAssign
  <2>4. QED BY <1>5, <2>2, <2>3 DEF MoveAssign, Own
<1>6. ASSUME NEW m \in Mutexes, Defer(t, i, m) PROVE Own(t)
  BY <1>6, WithoutGuardColumn DEF Defer, Own, Guard
<1>7. ASSUME NEW m \in Mutexes, TryToLock(t, i, m) PROVE Own(t)
  <2> DEFINE h == IF Available(t, m) THEN Locked(held, t, m) ELSE held
  <2>1. h \in HeldType /\ \A n \in Mutexes, u \in Threads \ {t} : h[n][u] = held[n][u]
    BY LockedColumn
  <2>2. held' = WithoutGuard(h, t, i) BY <1>7 DEF TryToLock
  <2>3. held' \in HeldType /\ \A n \in Mutexes, u \in Threads \ {t} : held'[n][u] = held[n][u]
    <3> HIDE DEF h
    <3> QED BY <2>1, <2>2, WithoutGuardColumn
  <2>4. [mutex |-> m, owns |-> Available(t, m)] \in Guard
    BY DEF Guard, Available
  <2>5. QED BY <1>7, <2>3, <2>4 DEF TryToLock, Own
<1>8. ASSUME NEW m \in Mutexes, Adopt(t, i, m) PROVE Own(t)
  BY <1>8, WithoutGuardColumn DEF Adopt, Own, Guard
<1>9. QED BY <1>1, <1>2, <1>3, <1>4, <1>5, <1>6, <1>7, <1>8

LEMMA SwapStep ==
  ASSUME Inv, NEW t \in Threads, Swap(t)
  PROVE  Own(t)
  BY DEF Inv, Types, Swap, Own, Objects

-----------------------------------------------------------------------------
(* The calls that take several steps *)

LEMMA LockBothKeeps ==
  ASSUME Inv, NEW t \in Threads, NEW i \in Objects, LockBoth(t, i)
  PROVE  Inv'
<1> USE DEF Inv
<1>1. Types' BY DEF Types, LockBoth, Call, Objects
<1>2. OnceExact' BY DEF OnceExact, LockBoth, Types, Call, Idle
<1>3. ASSUME NEW u \in Threads PROVE Pair(u)'
  <2>1. CASE u = t
    BY <2>1 DEF LockBoth, Pair, Types, HeldType, HoldsNothing, Holds
  <2>2. CASE u # t BY <2>2 DEF LockBoth, Pair, Types
  <2>3. QED BY <2>1, <2>2
<1>4. QED BY <1>1, <1>2, <1>3

LEMMA LockOneKeeps ==
  ASSUME Inv, NEW t \in Threads, LockOne(t)
  PROVE  Inv'
<1> USE DEF Inv
<1> DEFINE m == guard[t][call[t].x].mutex
<1>0. held' = Locked(held, t, m) /\ call[t].x \in Objects
  BY DEF LockOne, Types, Call
<1>1. held' \in HeldType /\ \A n \in Mutexes, u \in Threads :
        held'[n][u] = IF n = m /\ u = t THEN held[n][u] + 1 ELSE held[n][u]
  BY <1>0, LockedColumn DEF Types
<1>2. Types' /\ guard'[t][call[t].x].mutex = m /\ \A u \in Threads \ {t} : guard'[u] = guard[u]
  <2>1. guard' = [guard EXCEPT ![t][call[t].x].owns = TRUE] BY DEF LockOne
  <2>2. /\ guard' \in [Threads -> [Objects -> Guard]]
        /\ \A u \in Threads \ {t} : guard'[u] = guard[u]
        /\ guard'[t][call[t].x].mutex = m
    BY <1>0, <2>1, OwnsColumn DEF Types
  <2>3. call' \in [Threads -> Call] /\ UNCHANGED <<flag, runs, served>> BY DEF LockOne, Types, Call
  <2>4. QED BY <1>1, <2>2, <2>3 DEF Types
<1>3. OnceExact' BY DEF OnceExact, LockOne, Types, Call
<1>4. ASSUME NEW u \in Threads PROVE Pair(u)'
  <2>1. CASE u = t
    <3>1. call'[t].pc = "try" /\ call'[t].x = call[t].x BY DEF LockOne, Types, Call
    <3>2. guard'[t][call'[t].x].mutex = m BY <1>2, <3>1
    <3>3. \A n \in Mutexes : held[n][t] <= 0 BY DEF LockOne, Pair
    <3>4. QED BY <1>1, <2>1, <3>1, <3>2, <3>3 DEF Pair, Types, HeldType
  <2>2. CASE u # t
    <3>1. call'[u] = call[u] BY <2>2 DEF LockOne, Types
    <3>2. QED BY <1>1, <1>2, <2>2, <3>1 DEF Pair
  <2>3. QED BY <2>1, <2>2
<1>5. QED BY <1>2, <1>3, <1>4

(* After the call, or before the unlock, in which nothing else changes.    *)
LEMMA TryOtherKeeps ==
  ASSUME Inv, NEW t \in Threads, TryOther(t)
  PROVE  Inv'
<1> USE DEF Inv
<1> DEFINE m == guard[t][call[t].y].mutex
<1>0. call[t].y \in Objects BY DEF Types, Call
<1>1. CASE m # None /\ Available(t, m)
  <2>1. held' = Locked(held, t, m) /\ guard' = [guard EXCEPT ![t][call[t].y].owns = TRUE]
        /\ call' = [call EXCEPT ![t] = Idle] /\ UNCHANGED <<flag, runs, served>>
    BY <1>1 DEF TryOther
  <2>2. held' \in HeldType /\ \A n \in Mutexes, u \in Threads \ {t} : held'[n][u] = held[n][u]
    BY <2>1, LockedColumn DEF Types
  <2>3. Types' /\ \A u \in Threads \ {t} : guard'[u] = guard[u]
    BY <1>0, <2>1, <2>2, OwnsColumn DEF Types, Call, Idle, Objects
  <2>4. OnceExact' BY <2>1 DEF OnceExact, TryOther, Types, Call, Idle
  <2>5. ASSUME NEW u \in Threads PROVE Pair(u)'
    <3>1. CASE u = t
      <4>1. call'[t].pc = "idle" BY <2>1 DEF Types, Idle
      <4>2. QED BY <3>1, <4>1 DEF Pair
    <3>2. CASE u # t
      <4>1. call'[u] = call[u] BY <2>1, <3>2 DEF Types
      <4>2. guard'[u] = guard[u] /\ \A n \in Mutexes : held'[n][u] = held[n][u] BY <2>2, <2>3, <3>2
      <4>3. QED BY <4>1, <4>2 DEF Pair
    <3>3. QED BY <3>1, <3>2
  <2>6. QED BY <2>3, <2>4, <2>5
<1>2. CASE m = None
  <2>1. call' = [call EXCEPT ![t] = Idle] /\ UNCHANGED <<held, guard, flag, runs, served>>
    BY <1>2 DEF TryOther
  <2>2. Types' BY <2>1 DEF Types, Call, Idle, Objects
  <2>3. OnceExact' BY <2>1 DEF OnceExact, TryOther, Types, Call, Idle
  <2>4. ASSUME NEW u \in Threads PROVE Pair(u)'
    BY <2>1 DEF Pair, Types, Idle
  <2>5. QED BY <2>2, <2>3, <2>4
<1>3. CASE m # None /\ ~Available(t, m)
  <2>1. call' = [call EXCEPT ![t] = [call[t] EXCEPT !.pc = "back"]]
        /\ UNCHANGED <<held, guard, flag, runs, served>>
    BY <1>3 DEF TryOther
  <2>2. Types' BY <2>1 DEF Types, Call
  <2>3. OnceExact' BY <2>1 DEF OnceExact, TryOther, Types, Call
  <2>4. ASSUME NEW u \in Threads PROVE Pair(u)'
    <3>1. Pair(u) /\ call[t].pc = "try" BY DEF TryOther
    <3>2. call'[u].x = call[u].x /\ (u # t => call'[u] = call[u]) /\ call'[t].pc = "back"
      BY <2>1 DEF Types, Call
    <3>3. QED BY <2>1, <3>1, <3>2 DEF Pair
  <2>5. QED BY <2>2, <2>3, <2>4
<1>4. QED BY <1>1, <1>2, <1>3

(* The only lock it has is given back before it waits for the other.       *)
LEMMA BackOffKeeps ==
  ASSUME Inv, NEW t \in Threads, BackOff(t)
  PROVE  Inv'
<1> USE DEF Inv
<1> DEFINE m == guard[t][call[t].x].mutex
<1>0. held' = Unlocked(held, t, m) /\ call[t].x \in Objects /\ call[t].y \in Objects
  BY DEF BackOff, Types, Call
<1>1. held' \in HeldType /\ \A n \in Mutexes, u \in Threads :
        held'[n][u] = IF n = m /\ u = t THEN held[n][u] - 1 ELSE held[n][u]
  BY <1>0, UnlockedColumn DEF Types
<1>2. Types' /\ \A u \in Threads \ {t} : guard'[u] = guard[u]
  BY <1>0, <1>1, OwnsColumn DEF Types, BackOff, Call
<1>3. OnceExact' BY DEF OnceExact, BackOff, Types, Call
<1>4. ASSUME NEW u \in Threads PROVE Pair(u)'
  <2>1. CASE u = t
    <3>1. call'[t].pc = "lock" BY DEF BackOff, Types
    <3>2. \A n \in Mutexes : held[n][t] \in Int /\ held[n][t] <= IF n = m THEN 1 ELSE 0
      BY DEF BackOff, Pair, Types, HeldType
    <3>3. \A n \in Mutexes : held'[n][t] <= 0 BY <1>1, <3>2
    <3>4. QED BY <2>1, <3>1, <3>3 DEF Pair
  <2>2. CASE u # t
    <3>1. call'[u] = call[u] BY <2>2 DEF BackOff, Types
    <3>2. guard'[u] = guard[u] /\ \A n \in Mutexes : held'[n][u] = held[n][u] BY <1>1, <1>2, <2>2
    <3>3. QED BY <3>1, <3>2 DEF Pair
  <2>3. QED BY <2>1, <2>2
<1>5. QED BY <1>2, <1>3, <1>4

(* The thread in the function is the one that holds the flag's mutex.      *)
LEMMA OnceKeeps ==
  ASSUME Inv, NEW t \in Threads, CallOnce(t) \/ CallableReturns(t) \/ CallableThrows(t)
  PROVE  Inv'
<1> USE DEF Inv
<1>0. None \notin Threads BY LocksAssumption DEF LocksAssumption
<1>1. CASE CallOnce(t)
  <2>1. CASE flag.done_
    <3>1. served' = served \cup {t} /\ UNCHANGED <<held, guard, call, flag, runs>>
      BY <1>1, <2>1 DEF CallOnce
    <3>2. QED BY <2>1, <3>1 DEF Types, OnceExact, Pair
  <2>2. CASE ~flag.done_
    <3>1. /\ call[t] = Idle /\ flag.mutex_ = None
          /\ flag' = [flag EXCEPT !.mutex_ = t]
          /\ call' = [call EXCEPT ![t].pc = "callable"]
          /\ UNCHANGED <<held, guard, runs, served>>
      BY <1>1, <2>2 DEF CallOnce
    <3>2. Types' BY <3>1 DEF Types, Call
    <3>3. OnceExact'
      <4>1. flag'.mutex_ = t /\ ~flag'.done_ BY <2>2, <3>1 DEF Types
      <4>2. \A u \in Threads : call'[u].pc = "callable" <=> u = t
        BY <1>0, <3>1 DEF OnceExact, Types, Call
      <4>3. runs = 0 /\ served = {} BY <2>2 DEF OnceExact
      <4>4. QED BY <3>1, <4>1, <4>2, <4>3 DEF OnceExact
    <3>4. ASSUME NEW u \in Threads PROVE Pair(u)'
      BY <3>1 DEF Pair, Types, Call
    <3>5. QED BY <3>2, <3>3, <3>4
  <2>3. QED BY <2>1, <2>2
<1>2. CASE CallableReturns(t)
  <2>1. ~flag.done_
    BY <1>0, <1>2 DEF CallableReturns, OnceExact
  <2>2. Types' BY <1>2 DEF CallableReturns, Types, Call, Idle, Objects
  <2>3. OnceExact' BY <1>0, <1>2, <2>1 DEF CallableReturns, OnceExact, Types, Call, Idle
  <2>4. ASSUME NEW u \in Threads PROVE Pair(u)'
    BY <1>2 DEF CallableReturns, Pair, Types, Idle
  <2>5. QED BY <2>2, <2>3, <2>4
<1>3. CASE CallableThrows(t)
  <2>1. Types' BY <1>3 DEF CallableThrows, Types, Call, Idle, Objects
  <2>2. OnceExact' BY <1>0, <1>3 DEF CallableThrows, OnceExact, Types, Call, Idle
  <2>3. ASSUME NEW u \in Threads PROVE Pair(u)'
    BY <1>3 DEF CallableThrows, Pair, Types, Idle
  <2>4. QED BY <2>1, <2>2, <2>3
<1>4. QED BY <1>1, <1>2, <1>3

-----------------------------------------------------------------------------
LEMMA Initially ==
  Init => Inv
  BY LocksAssumption
  DEF Init, Inv, Types, HeldType, Guard, Empty, Objects, Call, Idle, OnceExact, Pair, LocksAssumption

LEMMA Inductive ==
  Inv /\ [Next]_vars => Inv'
<1> SUFFICES ASSUME Inv, [Next]_vars PROVE Inv'
  OBVIOUS
<1>1. CASE UNCHANGED vars
  BY <1>1 DEF vars, Inv, Types, OnceExact, Pair
<1>2. ASSUME NEW t \in Threads, NEW m \in Mutexes, LockMutex(t, m) \/ UnlockMutex(t, m)
      PROVE  Inv'
  BY <1>2, MutexSteps, OwnKeeps
<1>3. ASSUME NEW t \in Threads, NEW i \in Objects, OfObject(t, i)
      PROVE  Inv'
  <2>1. CASE LockBoth(t, i) BY <2>1, LockBothKeeps
  <2>2. CASE ~LockBoth(t, i) BY <1>3, <2>2, ObjectSteps, OwnKeeps DEF OfObject
  <2>3. QED BY <2>1, <2>2
<1>4. ASSUME NEW t \in Threads, Swap(t) PROVE Inv'
  BY <1>4, SwapStep, OwnKeeps
<1>5. ASSUME NEW t \in Threads, LockOne(t) \/ TryOther(t) \/ BackOff(t) PROVE Inv'
  BY <1>5, LockOneKeeps, TryOtherKeeps, BackOffKeeps
<1>6. ASSUME NEW t \in Threads, CallOnce(t) \/ CallableReturns(t) \/ CallableThrows(t)
      PROVE  Inv'
  BY <1>6, OnceKeeps
<1>7. QED
  BY <1>1, <1>2, <1>3, <1>4, <1>5, <1>6 DEF Next

LEMMA Invariant ==
  Spec => []Inv
<1>1. Init => Inv BY Initially
<1>2. Inv /\ [Next]_vars => Inv' BY Inductive
<1>3. QED BY <1>1, <1>2, PTL DEF Spec

-----------------------------------------------------------------------------
(* lock(first, second) waits for a mutex only while the calling thread has *)
(* none, so threads in it cannot wait for each other.                      *)
THEOREM NobodyWaitsHolding ==
  Spec => []WaitsHoldNothing
<1>1. Inv => WaitsHoldNothing
  <2> SUFFICES ASSUME Inv, NEW t \in Threads, call[t].pc = "lock", NEW m \in Mutexes
               PROVE  ~(held[m][t] > 0)
    BY DEF WaitsHoldNothing, HoldsNothing, Holds
  <2>1. held[m][t] <= 0 BY DEF Inv, Pair
  <2>2. held[m][t] \in Int BY DEF Inv, Types, HeldType
  <2>3. QED BY <2>1, <2>2
<1>2. QED BY <1>1, Invariant, PTL

(* call_once: the function returns at most once, and before any call_once  *)
(* does, however many threads call and however often it throws.            *)
THEOREM CalledOnce ==
  Spec => []OnceExact
<1>1. Inv => OnceExact BY DEF Inv
<1>2. QED BY <1>1, Invariant, PTL

-----------------------------------------------------------------------------
(* Counting: what a step changes in one thread's locks and objects. *)

(* Inside lock(first, second), and between the objects and their mutexes.  *)
InCall(t) ==
  /\ call[t].pc \in {"lock", "try", "back"} =>
       /\ call[t].y = 3 - call[t].x
       /\ guard[t][1].mutex # guard[t][2].mutex
       /\ guard[t][call[t].x].mutex # None
  /\ call[t].pc \in {"try", "back"} => guard[t][call[t].x].owns
  /\ call[t].pc = "back" => guard[t][call[t].y].mutex # None

Own1(t) == \A i \in Objects : guard[t][i].owns => guard[t][i].mutex # None

CountInv ==
  /\ Inv
  /\ raw \in [Threads -> SUBSET Mutexes]
  /\ Counted
  /\ \A t \in Threads : InCall(t) /\ Own1(t)

(* The locks of thread t are counted. *)
Balance(t) ==
  \A m \in Mutexes :
    held[m][t] = Owned(t, 1, m) + Owned(t, 2, m) + (IF m \in raw[t] THEN 1 ELSE 0)

(* It is enough to look at the thread that takes the step.                 *)
LEMMA OnlyItsOwn ==
  ASSUME CountInv, Inv', NEW t \in Threads,
         raw' \in [Threads -> SUBSET Mutexes],
         \A n \in Mutexes, u \in Threads \ {t} : held'[n][u] = held[n][u],
         \A u \in Threads \ {t} : guard'[u] = guard[u] /\ raw'[u] = raw[u] /\ call'[u] = call[u],
         Balance(t)', InCall(t)', Own1(t)'
  PROVE  CountInv'
<1>1. ASSUME NEW u \in Threads \ {t} PROVE Balance(u)' /\ InCall(u)' /\ Own1(u)'
  <2>1. Balance(u) /\ InCall(u) /\ Own1(u) BY DEF CountInv, Counted, Balance
  <2>2. guard'[u] = guard[u] /\ raw'[u] = raw[u] /\ call'[u] = call[u] OBVIOUS
  <2>3. \A m \in Mutexes : held'[m][u] = held[m][u] OBVIOUS
  <2>4. QED BY <2>1, <2>2, <2>3 DEF Balance, InCall, Own1, Owned
<1>2. Counted' BY <1>1 DEF Counted, Balance
<1>3. QED BY <1>1, <1>2 DEF CountInv

RawCount(t, m) == IF m \in raw[t] THEN 1 ELSE 0

LEMMA OwnedIs ==
  ASSUME Types, NEW t \in Threads, NEW i \in Objects, NEW m
  PROVE  /\ Owned(t, i, m) = IF guard[t][i].owns /\ guard[t][i].mutex = m THEN 1 ELSE 0
         /\ Owned(t, i, m) \in {0, 1}
<1>1. guard[t][i] \in Guard BY GuardTypes
<1>2. guard[t][i] = [mutex |-> guard[t][i].mutex, owns |-> guard[t][i].owns]
      /\ guard[t][i].owns \in BOOLEAN
  BY <1>1 DEF Guard
<1>3. guard[t][i] = [mutex |-> m, owns |-> TRUE] <=> guard[t][i].owns /\ guard[t][i].mutex = m
  <2>1. ASSUME guard[t][i] = [mutex |-> m, owns |-> TRUE]
        PROVE  guard[t][i].owns /\ guard[t][i].mutex = m
    BY <2>1
  <2>2. ASSUME guard[t][i].owns, guard[t][i].mutex = m
        PROVE  guard[t][i] = [mutex |-> m, owns |-> TRUE]
    <3>1. guard[t][i].owns = TRUE BY <1>2, <2>2
    <3>2. QED BY <1>2, <2>2, <3>1
  <2>3. QED BY <2>1, <2>2
<1>4. QED BY <1>3 DEF Owned

(* A step that changes one object changes its mutexes as much.             *)
LEMMA Rebalance ==
  ASSUME CountInv, Types', NEW t \in Threads, NEW i \in Objects,
         guard'[t][3 - i] = guard[t][3 - i],
         \A n \in Mutexes : held'[n][t] = held[n][t] + Owned(t, i, n)' - Owned(t, i, n)
                                         + RawCount(t, n)' - RawCount(t, n)
  PROVE  Balance(t)'
<1> SUFFICES ASSUME NEW n \in Mutexes
             PROVE  held'[n][t] = Owned(t, 1, n)' + Owned(t, 2, n)' + RawCount(t, n)'
  BY DEF Balance, RawCount
<1>1. held[n][t] = Owned(t, 1, n) + Owned(t, 2, n) + RawCount(t, n)
  BY DEF CountInv, Counted, RawCount
<1>2. Owned(t, 3 - i, n)' = Owned(t, 3 - i, n) BY DEF Owned
<1>3. /\ Owned(t, 1, n) \in {0, 1} /\ Owned(t, 2, n) \in {0, 1}
      /\ Owned(t, 1, n)' \in {0, 1} /\ Owned(t, 2, n)' \in {0, 1}
  <2>1. Types BY DEF CountInv, Inv
  <2>2. 1 \in Objects /\ 2 \in Objects BY DEF Objects
  <2>3. Owned(t, 1, n) \in {0, 1} /\ Owned(t, 2, n) \in {0, 1} BY <2>1, <2>2, OwnedIs
  <2>4. \A k \in Objects : guard'[t][k] \in Guard BY DEF Types
  <2>5. QED BY <2>3 DEF Owned
<1>4. RawCount(t, n) \in {0, 1} /\ RawCount(t, n)' \in {0, 1} BY DEF RawCount
<1>5. CASE i = 1 BY <1>1, <1>2, <1>3, <1>4, <1>5
<1>6. CASE i = 2 BY <1>1, <1>2, <1>3, <1>4, <1>6
<1>7. QED BY <1>5, <1>6 DEF Objects

(* Giving up object i takes from each mutex what the object had of it.     *)
LEMMA WithoutGuardCount ==
  ASSUME Types, NEW h \in HeldType, NEW t \in Threads, NEW i \in Objects, NEW n \in Mutexes
  PROVE  WithoutGuard(h, t, i)[n][t] = h[n][t] - Owned(t, i, n)
<1>1. h[n][t] \in Int BY DEF HeldType
<1>2. CASE guard[t][i].owns
  <2>1. WithoutGuard(h, t, i) = Unlocked(h, t, guard[t][i].mutex) BY <1>2 DEF WithoutGuard
  <2>2. QED BY <1>1, <1>2, <2>1, UnlockedColumn, OwnedIs
<1>3. CASE ~guard[t][i].owns
  <2>1. WithoutGuard(h, t, i) = h BY <1>3 DEF WithoutGuard
  <2>2. QED BY <1>1, <1>3, <2>1, OwnedIs
<1>4. QED BY <1>2, <1>3

(* A step outside of lock(first, second) that keeps the balance.           *)
LEMMA OwnCounted ==
  ASSUME CountInv, NEW t \in Threads, Own(t),
         raw' \in [Threads -> SUBSET Mutexes],
         \A u \in Threads \ {t} : raw'[u] = raw[u],
         Balance(t)', Own1(t)'
  PROVE  CountInv'
<1>1. Inv' BY OwnKeeps DEF CountInv
<1>2. InCall(t)' BY DEF Own, InCall, Idle
<1>3. QED BY <1>1, <1>2, OnlyItsOwn DEF Own

-----------------------------------------------------------------------------
LEMMA MutexCounted ==
  ASSUME CountInv, NEW t \in Threads, NEW m \in Mutexes, LockMutex(t, m) \/ UnlockMutex(t, m)
  PROVE  CountInv'
<1> USE DEF CountInv, Inv
<1>1. Own(t) BY MutexSteps
<1>2. Types' /\ Types BY <1>1, OwnKeeps
<1>3. /\ raw' \in [Threads -> SUBSET Mutexes] /\ \A u \in Threads \ {t} : raw'[u] = raw[u]
      /\ guard' = guard
  <2>1. CASE LockMutex(t, m) BY <2>1 DEF LockMutex
  <2>2. CASE UnlockMutex(t, m) BY <2>2 DEF UnlockMutex
  <2>3. QED BY <2>1, <2>2
<1>4. \A n \in Mutexes : held'[n][t] = held[n][t] + RawCount(t, n)' - RawCount(t, n)
  <2> SUFFICES ASSUME NEW n \in Mutexes
               PROVE  held'[n][t] = held[n][t] + RawCount(t, n)' - RawCount(t, n)
    OBVIOUS
  <2>0. held[n][t] \in Int /\ held \in HeldType BY DEF Types, HeldType
  <2>1. CASE LockMutex(t, m)
    <3>1. held' = Locked(held, t, m) /\ m \notin raw[t] /\ raw' = [raw EXCEPT ![t] = raw[t] \cup {m}]
      BY <2>1 DEF LockMutex
    <3>2. held'[n][t] = IF n = m THEN held[n][t] + 1 ELSE held[n][t]
      BY <2>0, <3>1, LockedColumn
    <3>3. raw'[t] = raw[t] \cup {m} BY <3>1
    <3>4. QED BY <2>0, <3>1, <3>2, <3>3 DEF RawCount
  <2>2. CASE UnlockMutex(t, m)
    <3>1. held' = Unlocked(held, t, m) /\ m \in raw[t] /\ raw' = [raw EXCEPT ![t] = raw[t] \ {m}]
      BY <2>2 DEF UnlockMutex
    <3>2. held'[n][t] = IF n = m THEN held[n][t] - 1 ELSE held[n][t]
      BY <2>0, <3>1, UnlockedColumn
    <3>3. raw'[t] = raw[t] \ {m} BY <3>1
    <3>4. QED BY <2>0, <3>1, <3>2, <3>3 DEF RawCount
  <2>3. QED BY <2>1, <2>2
<1>5. Balance(t)'
  <2>1. 1 \in Objects /\ guard'[t][3 - 1] = guard[t][3 - 1] BY <1>3 DEF Objects
  <2>2. \A n \in Mutexes : Owned(t, 1, n)' = Owned(t, 1, n) /\ Owned(t, 1, n) \in {0, 1}
    BY <1>3 DEF Owned
  <2>3. \A n \in Mutexes : held[n][t] \in Int /\ RawCount(t, n)' \in {0, 1} /\ RawCount(t, n) \in {0, 1}
    BY DEF Types, HeldType, RawCount
  <2>4. \A n \in Mutexes : held'[n][t] = held[n][t] + Owned(t, 1, n)' - Owned(t, 1, n)
                                         + RawCount(t, n)' - RawCount(t, n)
    BY <1>4, <2>2, <2>3
  <2>5. QED BY <1>2, <2>1, <2>4, Rebalance
<1>6. Own1(t)' BY <1>3 DEF Own1
<1>7. QED BY <1>1, <1>3, <1>5, <1>6, OwnCounted

(* An object of a thread in no call, by what its two lock objects become.  *)
LEMMA ObjectCounted ==
  ASSUME CountInv, NEW t \in Threads, NEW i \in Objects,
         \/ DropGuard(t, i) \/ Lock(t, i) \/ Unlock(t, i) \/ Release(t, i)
         \/ \E m \in Mutexes : Defer(t, i, m) \/ TryToLock(t, i, m) \/ Adopt(t, i, m)
  PROVE  CountInv'
<1> USE DEF CountInv, Inv
<1>1. Own(t) BY ObjectSteps
<1>2. Types' /\ Types BY <1>1, OwnKeeps
<1>0. /\ guard[t] \in [Objects -> Guard] /\ guard[t][i] \in Guard /\ guard[t][3 - i] \in Guard
      /\ held \in HeldType /\ 3 - i \in Objects /\ 3 - i # i
      /\ guard[t][i].owns => guard[t][i].mutex \in Mutexes
  <2>1. guard[t][i] \in Guard /\ 3 - i \in Objects BY <1>2, GuardTypes
  <2>2. Own1(t) OBVIOUS
  <2>3. guard[t][i].owns => guard[t][i].mutex \in Mutexes BY <2>1, <2>2 DEF Own1, Guard
  <2>4. QED BY <1>2, <2>1, <2>3 DEF Types, Objects
<1> DEFINE Result == /\ raw' \in [Threads -> SUBSET Mutexes]
                     /\ \A u \in Threads \ {t} : raw'[u] = raw[u]
                     /\ guard'[t][3 - i] = guard[t][3 - i]
                     /\ guard'[t][i].owns => guard'[t][i].mutex # None
                     /\ \A n \in Mutexes : held'[n][t] = held[n][t] + Owned(t, i, n)' - Owned(t, i, n)
                                                      + RawCount(t, n)' - RawCount(t, n)
<1>3. None \notin Mutexes BY LocksAssumption DEF LocksAssumption
<1>4. ASSUME NEW g \in Guard, guard' = [guard EXCEPT ![t][i] = g]
      PROVE  /\ guard'[t][3 - i] = guard[t][3 - i] /\ guard'[t][i] = g
             /\ \A n \in Mutexes : Owned(t, i, n)' = IF g.owns /\ g.mutex = n THEN 1 ELSE 0
  <2>1. guard'[t][3 - i] = guard[t][3 - i] /\ guard'[t][i] = g
    BY <1>0, <1>2, <1>4 DEF Types
  <2>2. g = [mutex |-> g.mutex, owns |-> g.owns] /\ g.owns \in BOOLEAN BY DEF Guard
  <2>3. QED BY <2>1, <2>2 DEF Owned
<1>5. \A n \in Mutexes : /\ Owned(t, i, n) = IF guard[t][i].owns /\ guard[t][i].mutex = n THEN 1 ELSE 0
                         /\ held[n][t] \in Int
                         /\ RawCount(t, n) = IF n \in raw[t] THEN 1 ELSE 0
                         /\ RawCount(t, n)' = IF n \in raw'[t] THEN 1 ELSE 0
                         /\ WithoutGuard(held, t, i)[n][t] = held[n][t] - Owned(t, i, n)
  <2>1. ASSUME NEW n \in Mutexes
        PROVE  /\ Owned(t, i, n) = IF guard[t][i].owns /\ guard[t][i].mutex = n THEN 1 ELSE 0
               /\ WithoutGuard(held, t, i)[n][t] = held[n][t] - Owned(t, i, n)
    BY <1>0, <1>2, OwnedIs, WithoutGuardCount
  <2>2. QED BY <1>0, <2>1 DEF RawCount, HeldType
<1>6. ASSUME DropGuard(t, i) PROVE Result
  <2>1. Empty \in Guard /\ ~Empty.owns BY DEF Empty, Guard
  <2>2. held' = WithoutGuard(held, t, i) /\ guard' = [guard EXCEPT ![t][i] = Empty] /\ raw' = raw
    BY <1>6 DEF DropGuard
  <2>3. guard'[t][3 - i] = guard[t][3 - i] /\ guard'[t][i] = Empty
        /\ \A n \in Mutexes : Owned(t, i, n)' = 0
    BY <1>4, <2>1, <2>2
  <2>4. QED BY <1>5, <2>1, <2>2, <2>3
<1>7. ASSUME NEW m \in Mutexes, Defer(t, i, m) PROVE Result
  <2> DEFINE g == [mutex |-> m, owns |-> FALSE]
  <2>1. g \in Guard /\ ~g.owns BY DEF Guard
  <2>2. held' = WithoutGuard(held, t, i) /\ guard' = [guard EXCEPT ![t][i] = g] /\ raw' = raw
    BY <1>7 DEF Defer
  <2> HIDE DEF g
  <2>3. guard'[t][3 - i] = guard[t][3 - i] /\ guard'[t][i] = g
        /\ \A n \in Mutexes : Owned(t, i, n)' = 0
    BY <1>4, <2>1, <2>2
  <2>4. QED BY <1>5, <2>1, <2>2, <2>3
<1>8. ASSUME NEW m \in Mutexes, TryToLock(t, i, m) PROVE Result
  <2> DEFINE g == [mutex |-> m, owns |-> Available(t, m)]
             h == IF Available(t, m) THEN Locked(held, t, m) ELSE held
  <2>1. g \in Guard /\ g.mutex = m /\ (g.owns <=> Available(t, m)) BY DEF Guard, Available
  <2>2. held' = WithoutGuard(h, t, i) /\ guard' = [guard EXCEPT ![t][i] = g] /\ raw' = raw
    BY <1>8 DEF TryToLock
  <2>3. h \in HeldType /\ \A n \in Mutexes :
          h[n][t] = IF n = m /\ Available(t, m) THEN held[n][t] + 1 ELSE held[n][t]
    BY <1>0, LockedColumn
  <2> HIDE DEF g, h
  <2>4. guard'[t][3 - i] = guard[t][3 - i] /\ guard'[t][i] = g
        /\ \A n \in Mutexes : Owned(t, i, n)' = IF g.owns /\ g.mutex = n THEN 1 ELSE 0
    BY <1>4, <2>1, <2>2
  <2>5. \A n \in Mutexes : held'[n][t] = h[n][t] - Owned(t, i, n)
    BY <1>2, <2>2, <2>3, WithoutGuardCount
  <2>6. ASSUME NEW n \in Mutexes
        PROVE  held'[n][t] = held[n][t] + Owned(t, i, n)' - Owned(t, i, n)
                               + RawCount(t, n)' - RawCount(t, n)
    <3>1. CASE n = m /\ Available(t, m) BY <1>5, <2>1, <2>2, <2>3, <2>4, <2>5, <3>1
    <3>2. CASE ~(n = m /\ Available(t, m)) BY <1>5, <2>1, <2>2, <2>3, <2>4, <2>5, <3>2
    <3>3. QED BY <3>1, <3>2
  <2>7. QED BY <1>3, <2>1, <2>2, <2>4, <2>6
<1>9. ASSUME NEW m \in Mutexes, Adopt(t, i, m) PROVE Result
  <2> DEFINE g == [mutex |-> m, owns |-> TRUE]
  <2>1. g \in Guard /\ g.owns /\ g.mutex = m BY DEF Guard
  <2>2. held' = WithoutGuard(held, t, i) /\ guard' = [guard EXCEPT ![t][i] = g]
        /\ m \in raw[t] /\ raw' = [raw EXCEPT ![t] = raw[t] \ {m}]
    BY <1>9 DEF Adopt
  <2> HIDE DEF g
  <2>3. guard'[t][3 - i] = guard[t][3 - i] /\ guard'[t][i] = g
        /\ \A n \in Mutexes : Owned(t, i, n)' = IF m = n THEN 1 ELSE 0
    BY <1>4, <2>1, <2>2
  <2>4. raw' \in [Threads -> SUBSET Mutexes] /\ raw'[t] = raw[t] \ {m}
        /\ \A u \in Threads \ {t} : raw'[u] = raw[u]
    BY <2>2
  <2>5. QED BY <1>3, <1>5, <2>1, <2>2, <2>3, <2>4
<1>10. ASSUME Lock(t, i) PROVE Result
  <2> DEFINE g == [mutex |-> guard[t][i].mutex, owns |-> TRUE]
  <2>1. g \in Guard /\ g.owns /\ g.mutex = guard[t][i].mutex BY <1>0 DEF Guard
  <2>2. held' = Locked(held, t, guard[t][i].mutex) /\ guard' = [guard EXCEPT ![t][i].owns = TRUE]
        /\ raw' = raw /\ ~guard[t][i].owns /\ guard[t][i].mutex # None
    BY <1>10 DEF Lock, Lockable
  <2>3. guard' = [guard EXCEPT ![t][i] = g]
    <3>1. g = [guard[t][i] EXCEPT !.owns = TRUE] BY <1>0, SetOwns
    <3> HIDE DEF g
    <3>2. QED BY <2>2, <3>1
  <2>4. \A n \in Mutexes : held'[n][t] = IF n = guard[t][i].mutex THEN held[n][t] + 1 ELSE held[n][t]
    BY <1>0, <2>2, LockedColumn
  <2> HIDE DEF g
  <2>5. guard'[t][3 - i] = guard[t][3 - i] /\ guard'[t][i] = g
        /\ \A n \in Mutexes : Owned(t, i, n)' = IF guard[t][i].mutex = n THEN 1 ELSE 0
    BY <1>4, <2>1, <2>3
  <2>6. QED BY <1>5, <2>1, <2>2, <2>4, <2>5
<1>11. ASSUME Unlock(t, i) PROVE Result
  <2> DEFINE g == [mutex |-> guard[t][i].mutex, owns |-> FALSE]
  <2>1. g \in Guard /\ ~g.owns BY <1>0 DEF Guard
  <2>2. held' = Unlocked(held, t, guard[t][i].mutex) /\ guard' = [guard EXCEPT ![t][i].owns = FALSE]
        /\ raw' = raw /\ guard[t][i].owns
    BY <1>11 DEF Unlock
  <2>3. guard' = [guard EXCEPT ![t][i] = g]
    <3>1. g = [guard[t][i] EXCEPT !.owns = FALSE] BY <1>0, SetOwns
    <3> HIDE DEF g
    <3>2. QED BY <2>2, <3>1
  <2>4. \A n \in Mutexes : held'[n][t] = IF n = guard[t][i].mutex THEN held[n][t] - 1 ELSE held[n][t]
    BY <1>0, <2>2, UnlockedColumn
  <2> HIDE DEF g
  <2>5. guard'[t][3 - i] = guard[t][3 - i] /\ guard'[t][i] = g
        /\ \A n \in Mutexes : Owned(t, i, n)' = 0
    BY <1>4, <2>1, <2>3
  <2>6. QED BY <1>5, <2>1, <2>2, <2>4, <2>5
<1>12. ASSUME Release(t, i) PROVE Result
  <2>1. Empty \in Guard /\ ~Empty.owns BY DEF Empty, Guard
  <2>2. held' = held /\ guard' = [guard EXCEPT ![t][i] = Empty] /\ guard[t][i].mutex \notin raw[t]
        /\ raw' = IF guard[t][i].owns THEN [raw EXCEPT ![t] = raw[t] \cup {guard[t][i].mutex}] ELSE raw
    BY <1>12 DEF Release
  <2>3. guard'[t][3 - i] = guard[t][3 - i] /\ guard'[t][i] = Empty
        /\ \A n \in Mutexes : Owned(t, i, n)' = 0
    BY <1>4, <2>1, <2>2
  <2>4. CASE guard[t][i].owns
    <3>1. raw' \in [Threads -> SUBSET Mutexes] /\ raw'[t] = raw[t] \cup {guard[t][i].mutex}
          /\ \A u \in Threads \ {t} : raw'[u] = raw[u]
      BY <1>0, <2>2, <2>4
    <3>2. QED BY <1>5, <2>1, <2>2, <2>3, <2>4, <3>1
  <2>5. CASE ~guard[t][i].owns BY <1>5, <2>1, <2>2, <2>3, <2>5
  <2>6. QED BY <2>4, <2>5
<1>13. Result BY <1>6, <1>7, <1>8, <1>9, <1>10, <1>11, <1>12
<1>14. Balance(t)' BY <1>2, <1>13, Rebalance
<1>15. Own1(t)'
  <2>1. \A k \in Objects : k = i \/ k = 3 - i BY DEF Objects
  <2>2. Own1(t) OBVIOUS
  <2>3. QED BY <1>0, <1>13, <2>1, <2>2 DEF Own1
<1>16. QED BY <1>1, <1>13, <1>14, <1>15, OwnCounted

(* The two objects, in either order.                                       *)
LEMMA MoveCounted ==
  ASSUME CountInv, NEW t \in Threads, NEW i \in Objects, MoveAssign(t, i)
  PROVE  CountInv'
<1> USE DEF CountInv, Inv
<1>1. Own(t) BY ObjectSteps
<1>2. Types' /\ Types BY <1>1, OwnKeeps
<1>3. raw' = raw BY DEF MoveAssign
<1>4. guard'[t][i] = guard[t][3 - i] /\ guard'[t][3 - i] = Empty /\ 3 - i \in Objects
      /\ held' = WithoutGuard(held, t, i)
  <2>1. guard' = [guard EXCEPT ![t][i] = guard[t][3 - i], ![t][3 - i] = Empty] /\ 3 - i \in Objects
        /\ 3 - i # i /\ held' = WithoutGuard(held, t, i)
    BY DEF MoveAssign, Objects
  <2>2. QED BY <1>2, <2>1 DEF Types
<1>5. ASSUME NEW n \in Mutexes
      PROVE  held'[n][t] = Owned(t, 1, n)' + Owned(t, 2, n)' + RawCount(t, n)'
  <2>1. held[n][t] = Owned(t, 1, n) + Owned(t, 2, n) + RawCount(t, n) BY DEF Counted, RawCount
  <2>2. held'[n][t] = held[n][t] - Owned(t, i, n) BY <1>2, <1>4, WithoutGuardCount DEF Types
  <2>3. Owned(t, i, n)' = Owned(t, 3 - i, n) BY <1>4 DEF Owned
  <2>4. Owned(t, 3 - i, n)' = 0 BY <1>4 DEF Owned, Empty
  <2>5. RawCount(t, n)' = RawCount(t, n) /\ RawCount(t, n) \in {0, 1} BY <1>3 DEF RawCount
  <2>6. Owned(t, 1, n) \in {0, 1} /\ Owned(t, 2, n) \in {0, 1} BY <1>2, OwnedIs DEF Objects
  <2>7. CASE i = 1 BY <2>1, <2>2, <2>3, <2>4, <2>5, <2>6, <2>7
  <2>8. CASE i = 2 BY <2>1, <2>2, <2>3, <2>4, <2>5, <2>6, <2>8
  <2>9. QED BY <2>7, <2>8 DEF Objects
<1>6. Balance(t)' BY <1>5 DEF Balance, RawCount
<1>7. Own1(t)'
  <2>1. \A k \in Objects : k = i \/ k = 3 - i BY DEF Objects
  <2>2. Own1(t) OBVIOUS
  <2>3. QED BY <1>4, <2>1, <2>2 DEF Own1, Empty
<1>8. QED BY <1>1, <1>3, <1>6, <1>7, OwnCounted

LEMMA SwapCounted ==
  ASSUME CountInv, NEW t \in Threads, Swap(t)
  PROVE  CountInv'
<1> USE DEF CountInv, Inv
<1>1. Own(t) BY SwapStep
<1>2. Types' /\ Types BY <1>1, OwnKeeps
<1>3. guard'[t][1] = guard[t][2] /\ guard'[t][2] = guard[t][1] /\ held' = held /\ raw' = raw
  BY <1>2 DEF Swap, Types, Objects
<1>4. ASSUME NEW n \in Mutexes
      PROVE  held'[n][t] = Owned(t, 1, n)' + Owned(t, 2, n)' + RawCount(t, n)'
  <2>1. held[n][t] = Owned(t, 1, n) + Owned(t, 2, n) + RawCount(t, n) BY DEF Counted, RawCount
  <2>2. Owned(t, 1, n)' = Owned(t, 2, n) /\ Owned(t, 2, n)' = Owned(t, 1, n) BY <1>3 DEF Owned
  <2>3. RawCount(t, n)' = RawCount(t, n) /\ RawCount(t, n) \in {0, 1} BY <1>3 DEF RawCount
  <2>4. Owned(t, 1, n) \in {0, 1} /\ Owned(t, 2, n) \in {0, 1} BY <1>2, OwnedIs DEF Objects
  <2>5. QED BY <1>3, <2>1, <2>2, <2>3, <2>4
<1>5. Balance(t)' BY <1>4 DEF Balance, RawCount
<1>6. Own1(t)'
  <2>1. Own1(t) OBVIOUS
  <2>2. QED BY <1>3, <2>1 DEF Own1, Objects
<1>7. QED BY <1>1, <1>3, <1>5, <1>6, OwnCounted

-----------------------------------------------------------------------------
(* lock(first, second) *)

LEMMA LockBothCounted ==
  ASSUME CountInv, NEW t \in Threads, NEW i \in Objects, LockBoth(t, i)
  PROVE  CountInv'
<1> USE DEF CountInv, Inv
<1>1. Inv' BY LockBothKeeps
<1>2. /\ call' = [call EXCEPT ![t] = [pc |-> "lock", x |-> i, y |-> 3 - i]]
      /\ UNCHANGED <<held, guard, raw>>
      /\ guard[t][i].mutex # None /\ guard[t][i].mutex # guard[t][3 - i].mutex
  BY DEF LockBoth, Lockable
<1>3. call'[t] = [pc |-> "lock", x |-> i, y |-> 3 - i] /\ \A u \in Threads \ {t} : call'[u] = call[u]
  BY <1>2 DEF Types
<1>4. Balance(t)' /\ Own1(t)' BY <1>2 DEF Balance, Own1, Owned, Counted
<1>5. guard[t][1].mutex # guard[t][2].mutex BY <1>2 DEF Objects
<1>6. InCall(t)' BY <1>2, <1>3, <1>5 DEF InCall
<1>7. QED BY <1>1, <1>2, <1>3, <1>4, <1>6, OnlyItsOwn

(* Nothing is locked before a "lock", so its object does not own yet.      *)
LEMMA LockOneCounted ==
  ASSUME CountInv, NEW t \in Threads, LockOne(t)
  PROVE  CountInv'
<1> USE DEF CountInv, Inv
<1>1. Inv' BY LockOneKeeps
<1>a. PICK x \in Objects : x = call[t].x BY DEF Types, Call
<1>b. PICK m \in Mutexes \cup {None} : m = guard[t][x].mutex BY DEF Types, Guard
<1> DEFINE g == [mutex |-> m, owns |-> TRUE]
<1>2. x \in Objects /\ 3 - x \in Objects /\ 3 - x # x /\ guard[t][x] \in Guard /\ call[t] \in Call
  BY <1>a DEF Types, Call, Objects
<1>3. /\ call[t].pc = "lock" /\ held' = Locked(held, t, m)
      /\ guard' = [guard EXCEPT ![t][x].owns = TRUE]
      /\ call' = [call EXCEPT ![t].pc = "try"]
      /\ raw' = raw
  BY <1>a, <1>b DEF LockOne
<1>4. guard' = [guard EXCEPT ![t][x] = g]
  <2>1. [guard[t][x] EXCEPT !.owns = TRUE] = g BY <1>b, <1>2, SetOwns
  <2> HIDE DEF g
  <2>2. QED BY <1>3, <2>1
<1>5. /\ guard'[t][x] = g /\ guard'[t][3 - x] = guard[t][3 - x]
      /\ \A u \in Threads \ {t} : guard'[u] = guard[u]
  <2>1. guard \in [Threads -> [Objects -> Guard]] BY DEF Types
  <2> HIDE DEF g
  <2>2. QED BY <1>2, <1>4, <2>1
<1>6. call'[t].pc = "try" /\ call'[t].x = x /\ call'[t].y = call[t].y
      /\ \A u \in Threads \ {t} : call'[u] = call[u]
  BY <1>a, <1>2, <1>3 DEF Types, Call
<1>7. /\ call[t].y = 3 - x /\ m # None /\ guard[t][1].mutex # guard[t][2].mutex
      /\ \A n \in Mutexes : held[n][t] <= 0
  <2>1. InCall(t) /\ Pair(t) OBVIOUS
  <2>2. QED BY <1>a, <1>b, <1>3, <2>1 DEF InCall, Pair
<1>8. ASSUME NEW n \in Mutexes
      PROVE  /\ Owned(t, x, n) = 0
             /\ Owned(t, x, n)' = IF n = m THEN 1 ELSE 0
             /\ held'[n][t] = IF n = m THEN held[n][t] + 1 ELSE held[n][t]
  <2>1. held[n][t] = Owned(t, 1, n) + Owned(t, 2, n) + RawCount(t, n) BY DEF Counted, RawCount
  <2>2. RawCount(t, n) \in {0, 1} BY DEF RawCount
  <2>3. Owned(t, 1, n) \in {0, 1} /\ Owned(t, 2, n) \in {0, 1} BY OwnedIs DEF Objects
  <2>4. Owned(t, 1, n) = 0 /\ Owned(t, 2, n) = 0 BY <1>7, <2>1, <2>2, <2>3
  <2>5. Owned(t, x, n) = 0 BY <1>2, <2>4 DEF Objects
  <2>6. Owned(t, x, n)' = IF n = m THEN 1 ELSE 0
    <3>1. guard'[t][x] = [mutex |-> n, owns |-> TRUE] <=> m = n BY <1>5, SameMutex
    <3>2. QED BY <3>1 DEF Owned
  <2>7. QED BY <1>3, <2>5, <2>6, LockedColumn DEF Types
<1>9. Balance(t)'
  <2>1. \A n \in Mutexes : held[n][t] \in Int /\ RawCount(t, n)' = RawCount(t, n) /\ RawCount(t, n) \in {0, 1}
    BY <1>3 DEF Types, HeldType, RawCount
  <2>2. \A n \in Mutexes : held'[n][t] = held[n][t] + Owned(t, x, n)' - Owned(t, x, n)
                                         + RawCount(t, n)' - RawCount(t, n)
    BY <1>8, <2>1
  <2>3. QED BY <1>1, <1>2, <1>5, <2>2, Rebalance
<1>10. Own1(t)'
  <2>1. \A k \in Objects : k = x \/ k = 3 - x BY <1>2 DEF Objects
  <2>2. Own1(t) OBVIOUS
  <2>3. QED BY <1>2, <1>5, <1>7, <2>1, <2>2 DEF Own1
<1>11. InCall(t)'
  <2>1. guard'[t][1].mutex # guard'[t][2].mutex
    <3>1. CASE x = 1 BY <1>b, <1>5, <1>7, <3>1
    <3>2. CASE x = 2 BY <1>b, <1>5, <1>7, <3>2
    <3>3. QED BY <1>2, <3>1, <3>2 DEF Objects
  <2>2. QED BY <1>5, <1>6, <1>7, <2>1 DEF InCall
<1>12. \A n \in Mutexes, u \in Threads \ {t} : held'[n][u] = held[n][u]
  BY <1>3, LockedColumn DEF Types
<1>13. QED BY <1>1, <1>3, <1>5, <1>6, <1>9, <1>10, <1>11, <1>12, OnlyItsOwn

(* The other object's mutex is another one, so it does not own it yet.     *)
LEMMA TryOtherCounted ==
  ASSUME CountInv, NEW t \in Threads, TryOther(t)
  PROVE  CountInv'
<1> USE DEF CountInv, Inv
<1>1. Inv' BY TryOtherKeeps
<1>a. PICK x \in Objects : x = call[t].x BY DEF Types, Call
<1>b. PICK y \in Objects : y = call[t].y BY DEF Types, Call
<1>c. PICK m \in Mutexes \cup {None} : m = guard[t][y].mutex BY DEF Types, Guard
<1> DEFINE g == [mutex |-> m, owns |-> TRUE]
<1>2. call[t].pc = "try" /\ raw' = raw BY DEF TryOther
<1>3. /\ y = 3 - x /\ x # y /\ guard[t][1].mutex # guard[t][2].mutex
      /\ guard[t][x].owns /\ guard[t][x].mutex # None /\ guard[t][x].mutex # m
      /\ \A n \in Mutexes : held[n][t] <= IF n = guard[t][x].mutex THEN 1 ELSE 0
  <2>1. InCall(t) /\ Pair(t) OBVIOUS
  <2>2. y = 3 - x /\ guard[t][1].mutex # guard[t][2].mutex
        /\ guard[t][x].owns /\ guard[t][x].mutex # None
        /\ \A n \in Mutexes : held[n][t] <= IF n = guard[t][x].mutex THEN 1 ELSE 0
    BY <1>a, <1>b, <1>2, <2>1 DEF InCall, Pair
  <2>3. x = 1 \/ x = 2 BY DEF Objects
  <2>4. QED BY <1>c, <2>2, <2>3
<1>4. guard[t][y] \in Guard /\ call[t] \in Call /\ guard \in [Threads -> [Objects -> Guard]]
  BY DEF Types
<1>5. CASE m # None /\ Available(t, m)
  <2>1. held' = Locked(held, t, m) /\ guard' = [guard EXCEPT ![t][y].owns = TRUE]
        /\ call' = [call EXCEPT ![t] = Idle]
    BY <1>b, <1>c, <1>5 DEF TryOther
  <2>2. guard' = [guard EXCEPT ![t][y] = g]
    <3>1. [guard[t][y] EXCEPT !.owns = TRUE] = g BY <1>4, <1>c, SetOwns
    <3> HIDE DEF g
    <3>2. QED BY <2>1, <3>1
  <2>3. /\ guard'[t][y] = g /\ guard'[t][3 - y] = guard[t][3 - y]
        /\ \A u \in Threads \ {t} : guard'[u] = guard[u]
    <3>1. 3 - y \in Objects /\ 3 - y # y BY DEF Objects
    <3> HIDE DEF g
    <3>2. QED BY <1>4, <2>2, <3>1
  <2>4. call'[t] = Idle /\ \A u \in Threads \ {t} : call'[u] = call[u] BY <2>1 DEF Types
  <2>5. ASSUME NEW n \in Mutexes
        PROVE  /\ Owned(t, y, n) = IF guard[t][y].owns /\ n = m THEN 1 ELSE 0
               /\ n = m => Owned(t, y, n) = 0
               /\ Owned(t, y, n)' = IF n = m THEN 1 ELSE 0
               /\ held'[n][t] = IF n = m THEN held[n][t] + 1 ELSE held[n][t]
    <3>1. Owned(t, y, n) = IF guard[t][y].owns /\ n = m THEN 1 ELSE 0 BY <1>c, OwnedIs
    <3>2. held[n][t] = Owned(t, 1, n) + Owned(t, 2, n) + RawCount(t, n) BY DEF Counted, RawCount
    <3>3. RawCount(t, n) \in {0, 1} BY DEF RawCount
    <3>4. Owned(t, 1, n) \in {0, 1} /\ Owned(t, 2, n) \in {0, 1} BY OwnedIs DEF Objects
    <3>5. n = m => Owned(t, 1, n) = 0 /\ Owned(t, 2, n) = 0 BY <1>3, <3>2, <3>3, <3>4
    <3>6. n = m => Owned(t, y, n) = 0 BY <3>5 DEF Objects
    <3>7. guard'[t][y] = [mutex |-> n, owns |-> TRUE] <=> m = n BY <2>3, SameMutex
    <3>8. Owned(t, y, n)' = IF n = m THEN 1 ELSE 0 BY <3>7 DEF Owned
    <3>9. QED BY <2>1, <3>1, <3>6, <3>8, LockedColumn DEF Types
  <2>6. Balance(t)'
    <3>1. \A n \in Mutexes : held[n][t] \in Int /\ RawCount(t, n)' = RawCount(t, n) /\ RawCount(t, n) \in {0, 1}
      BY <1>2 DEF Types, HeldType, RawCount
    <3>2. \A n \in Mutexes : held'[n][t] = held[n][t] + Owned(t, y, n)' - Owned(t, y, n)
                                           + RawCount(t, n)' - RawCount(t, n)
      BY <2>5, <3>1
    <3>3. QED BY <1>1, <2>3, <3>2, Rebalance
  <2>7. Own1(t)'
    <3>1. \A k \in Objects : k = y \/ k = 3 - y BY DEF Objects
    <3>2. Own1(t) OBVIOUS
    <3>3. QED BY <1>5, <2>3, <3>1, <3>2 DEF Own1
  <2>8. InCall(t)' BY <2>4 DEF InCall, Idle
  <2>9. \A n \in Mutexes, u \in Threads \ {t} : held'[n][u] = held[n][u]
    BY <2>1, LockedColumn DEF Types
  <2>10. QED BY <1>1, <1>2, <2>3, <2>4, <2>6, <2>7, <2>8, <2>9, OnlyItsOwn
<1>6. CASE m = None \/ ~Available(t, m)
  <2>1. UNCHANGED <<held, guard, raw>>
        /\ call' = [call EXCEPT ![t] = IF m = None THEN Idle ELSE [call[t] EXCEPT !.pc = "back"]]
    BY <1>b, <1>c, <1>6 DEF TryOther
  <2>2. Balance(t)' /\ Own1(t)' BY <2>1 DEF Balance, Own1, Owned, Counted
  <2>3. \A u \in Threads \ {t} : call'[u] = call[u] BY <2>1 DEF Types
  <2>4. InCall(t)'
    <3>1. CASE m = None
      <4>1. call'[t] = Idle BY <2>1, <3>1 DEF Types
      <4>2. QED BY <4>1 DEF InCall, Idle
    <3>2. CASE m # None
      <4>1. call'[t].pc = "back" /\ call'[t].x = x /\ call'[t].y = y
        BY <1>a, <1>b, <1>4, <2>1, <3>2 DEF Types, Call
      <4>2. QED BY <1>3, <1>c, <2>1, <3>2, <4>1 DEF InCall
    <3>3. QED BY <3>1, <3>2
  <2>5. QED BY <1>1, <2>1, <2>2, <2>3, <2>4, OnlyItsOwn
<1>7. QED BY <1>5, <1>6

LEMMA BackOffCounted ==
  ASSUME CountInv, NEW t \in Threads, BackOff(t)
  PROVE  CountInv'
<1> USE DEF CountInv, Inv
<1>1. Inv' BY BackOffKeeps
<1>a. PICK x \in Objects : x = call[t].x BY DEF Types, Call
<1>b. PICK y \in Objects : y = call[t].y BY DEF Types, Call
<1>c. PICK m \in Mutexes \cup {None} : m = guard[t][x].mutex BY DEF Types, Guard
<1> DEFINE g == [mutex |-> m, owns |-> FALSE]
<1>2. /\ call[t].pc = "back" /\ held' = Unlocked(held, t, m) /\ raw' = raw
      /\ guard' = [guard EXCEPT ![t][x].owns = FALSE]
      /\ call' = [call EXCEPT ![t] = [pc |-> "lock", x |-> y, y |-> x]]
  BY <1>a, <1>b, <1>c DEF BackOff
<1>3. /\ y = 3 - x /\ x = 3 - y /\ guard[t][1].mutex # guard[t][2].mutex
      /\ guard[t][x].owns /\ m # None /\ guard[t][y].mutex # None
  <2>1. InCall(t) OBVIOUS
  <2>2. y = 3 - x BY <1>a, <1>b, <1>2, <2>1 DEF InCall
  <2>3. x = 3 - y BY <2>2 DEF Objects
  <2>4. QED BY <1>a, <1>b, <1>c, <1>2, <2>1, <2>2, <2>3 DEF InCall
<1>4. guard[t][x] \in Guard /\ guard \in [Threads -> [Objects -> Guard]] BY DEF Types
<1>5. guard' = [guard EXCEPT ![t][x] = g]
  <2>1. [guard[t][x] EXCEPT !.owns = FALSE] = g BY <1>4, <1>c, SetOwns
  <2> HIDE DEF g
  <2>2. QED BY <1>2, <2>1
<1>6. /\ guard'[t][x] = g /\ guard'[t][3 - x] = guard[t][3 - x]
      /\ \A u \in Threads \ {t} : guard'[u] = guard[u]
  <2>1. 3 - x \in Objects /\ 3 - x # x BY DEF Objects
  <2> HIDE DEF g
  <2>2. QED BY <1>4, <1>5, <2>1
<1>7. call'[t] = [pc |-> "lock", x |-> y, y |-> x] /\ \A u \in Threads \ {t} : call'[u] = call[u]
  BY <1>2 DEF Types
<1>8. ASSUME NEW n \in Mutexes
      PROVE  /\ Owned(t, x, n) = IF n = m THEN 1 ELSE 0
             /\ Owned(t, x, n)' = 0
             /\ held'[n][t] = IF n = m THEN held[n][t] - 1 ELSE held[n][t]
  <2>1. Owned(t, x, n) = IF n = m THEN 1 ELSE 0 BY <1>3, <1>c, OwnedIs
  <2>2. Owned(t, x, n)' = 0 BY <1>6 DEF Owned
  <2>3. QED BY <1>2, <2>1, <2>2, UnlockedColumn DEF Types
<1>9. Balance(t)'
  <2>1. \A n \in Mutexes : held[n][t] \in Int /\ RawCount(t, n)' = RawCount(t, n) /\ RawCount(t, n) \in {0, 1}
    BY <1>2 DEF Types, HeldType, RawCount
  <2>2. \A n \in Mutexes : held'[n][t] = held[n][t] + Owned(t, x, n)' - Owned(t, x, n)
                                         + RawCount(t, n)' - RawCount(t, n)
    BY <1>8, <2>1
  <2>3. QED BY <1>1, <1>6, <2>2, Rebalance
<1>10. Own1(t)'
  <2>1. \A k \in Objects : k = x \/ k = 3 - x BY DEF Objects
  <2>2. Own1(t) OBVIOUS
  <2>3. QED BY <1>6, <2>1, <2>2 DEF Own1
<1>11. InCall(t)'
  <2>1. guard'[t][x].mutex = guard[t][x].mutex /\ guard'[t][y].mutex = guard[t][y].mutex
    BY <1>3, <1>6, <1>c
  <2>2. x = 1 \/ x = 2 BY DEF Objects
  <2>3. guard'[t][1].mutex # guard'[t][2].mutex BY <1>3, <2>1, <2>2
  <2>4. QED BY <1>3, <1>7, <2>1, <2>3 DEF InCall
<1>12. \A n \in Mutexes, u \in Threads \ {t} : held'[n][u] = held[n][u]
  BY <1>2, UnlockedColumn DEF Types
<1>13. QED BY <1>1, <1>2, <1>6, <1>7, <1>10, <1>9, <1>11, <1>12, OnlyItsOwn

LEMMA OnceCounted ==
  ASSUME CountInv, NEW t \in Threads, CallOnce(t) \/ CallableReturns(t) \/ CallableThrows(t)
  PROVE  CountInv'
<1> USE DEF CountInv, Inv
<1>1. Inv' BY OnceKeeps
<1>2. UNCHANGED <<held, guard, raw>> BY DEF CallOnce, CallableReturns, CallableThrows
<1>3. /\ \A u \in Threads \ {t} : call'[u] = call[u]
      /\ call'[t].pc \notin {"lock", "try", "back"}
  <2>1. CASE CallOnce(t) BY <2>1 DEF CallOnce, Types, Call, Idle
  <2>2. CASE CallableReturns(t) BY <2>2 DEF CallableReturns, Types, Idle
  <2>3. CASE CallableThrows(t) BY <2>3 DEF CallableThrows, Types, Idle
  <2>4. QED BY <2>1, <2>2, <2>3
<1>4. Balance(t)' /\ Own1(t)' BY <1>2 DEF Balance, Own1, Owned, Counted
<1>5. InCall(t)' BY <1>3 DEF InCall
<1>6. QED BY <1>1, <1>2, <1>3, <1>4, <1>5, OnlyItsOwn

-----------------------------------------------------------------------------
(* Mutual exclusion: a thread gets more of a mutex only when nobody is in  *)
(* its way.                                                                *)
Rises(t) ==
  \A n \in Mutexes : held'[n][t] <= held[n][t] \/ Available(t, n)

LEMMA ExclusiveKeeps ==
  ASSUME Exclusive, Types, Types', NEW t \in Threads, Rises(t),
         \A n \in Mutexes, u \in Threads \ {t} : held'[n][u] = held[n][u]
  PROVE  Exclusive'
<1> SUFFICES ASSUME NEW n \in Mutexes, NEW v \in Threads, NEW u \in Threads \ {v},
                    held'[n][v] > 0, held'[n][u] > 0
             PROVE  v \in Readers /\ u \in Readers
  BY DEF Exclusive, InItsWay, Holds
<1>1. held[n][v] \in Int /\ held[n][u] \in Int /\ held'[n][v] \in Int /\ held'[n][u] \in Int
  BY DEF Types, HeldType
<1>2. CASE held[n][v] > 0 /\ held[n][u] > 0
  BY <1>2 DEF Exclusive, InItsWay, Holds
<1>3. CASE ~(held[n][v] > 0)
  <2>1. v = t /\ Available(t, n) BY <1>1, <1>3 DEF Rises
  <2>2. held[n][u] > 0 BY <2>1
  <2>3. QED BY <2>1, <2>2 DEF Available, InItsWay, Holds
<1>4. CASE ~(held[n][u] > 0)
  <2>1. u = t /\ Available(t, n) BY <1>1, <1>4 DEF Rises
  <2>2. held[n][v] > 0 BY <2>1
  <2>3. QED BY <2>1, <2>2 DEF Available, InItsWay, Holds
<1>5. QED BY <1>2, <1>3, <1>4

LEMMA LockedRises ==
  ASSUME Types, NEW t \in Threads, NEW m, Available(t, m), held' = Locked(held, t, m)
  PROVE  Rises(t)
<1>1. \A n \in Mutexes : held[n][t] \in Int BY DEF Types, HeldType
<1>2. \A n \in Mutexes : held'[n][t] = IF n = m THEN held[n][t] + 1 ELSE held[n][t]
  BY LockedColumn DEF Types
<1>3. QED BY <1>1, <1>2 DEF Rises

LEMMA UnlockedRises ==
  ASSUME Types, NEW t \in Threads, NEW m, held' = Unlocked(held, t, m)
  PROVE  Rises(t)
<1>1. \A n \in Mutexes : held[n][t] \in Int BY DEF Types, HeldType
<1>2. \A n \in Mutexes : held'[n][t] = IF n = m THEN held[n][t] - 1 ELSE held[n][t]
  BY UnlockedColumn DEF Types
<1>3. QED BY <1>1, <1>2 DEF Rises

LEMMA WithoutGuardRises ==
  ASSUME Types, NEW t \in Threads, NEW i \in Objects, held' = WithoutGuard(held, t, i)
  PROVE  Rises(t)
<1>1. \A n \in Mutexes : held[n][t] \in Int BY DEF Types, HeldType
<1>2. \A n \in Mutexes : held'[n][t] = held[n][t] - Owned(t, i, n) BY WithoutGuardCount DEF Types
<1>3. \A n \in Mutexes : Owned(t, i, n) \in {0, 1} BY OwnedIs
<1>4. QED BY <1>1, <1>2, <1>3 DEF Rises

LEMMA SameRises ==
  ASSUME Types, NEW t \in Threads, held' = held
  PROVE  Rises(t)
<1>1. \A n \in Mutexes : held[n][t] \in Int BY DEF Types, HeldType
<1>2. QED BY <1>1 DEF Rises

LEMMA ObjectRises ==
  ASSUME Types, NEW t \in Threads, NEW i \in Objects, OfObject(t, i)
  PROVE  Rises(t)
<1>1. CASE DropGuard(t, i) BY <1>1, WithoutGuardRises DEF DropGuard
<1>2. CASE Lock(t, i)
  <2>1. PICK m : m = guard[t][i].mutex OBVIOUS
  <2>2. QED BY <1>2, <2>1, LockedRises DEF Lock
<1>3. CASE Unlock(t, i)
  <2>1. PICK m : m = guard[t][i].mutex OBVIOUS
  <2>2. QED BY <1>3, <2>1, UnlockedRises DEF Unlock
<1>4. CASE Release(t, i) BY <1>4, SameRises DEF Release
<1>5. CASE MoveAssign(t, i) BY <1>5, WithoutGuardRises DEF MoveAssign
<1>6. CASE LockBoth(t, i) BY <1>6, SameRises DEF LockBoth
<1>7. ASSUME NEW m \in Mutexes, Defer(t, i, m) PROVE Rises(t)
  BY <1>7, WithoutGuardRises DEF Defer
<1>8. ASSUME NEW m \in Mutexes, Adopt(t, i, m) PROVE Rises(t)
  BY <1>8, WithoutGuardRises DEF Adopt
<1>9. ASSUME NEW m \in Mutexes, TryToLock(t, i, m) PROVE Rises(t)
  <2>1. PICK h : h = IF Available(t, m) THEN Locked(held, t, m) ELSE held OBVIOUS
  <2>2. h \in HeldType /\ \A n \in Mutexes :
          h[n][t] = IF n = m /\ Available(t, m) THEN held[n][t] + 1 ELSE held[n][t]
    BY <2>1, LockedColumn DEF Types
  <2>3. held' = WithoutGuard(h, t, i) BY <1>9, <2>1 DEF TryToLock
  <2>4. \A n \in Mutexes : held'[n][t] = h[n][t] - Owned(t, i, n) /\ Owned(t, i, n) \in {0, 1}
    BY <2>2, <2>3, WithoutGuardCount, OwnedIs
  <2>5. \A n \in Mutexes : held[n][t] \in Int BY DEF Types, HeldType
  <2>6. QED BY <2>2, <2>4, <2>5 DEF Rises
<1>10. QED BY <1>1, <1>2, <1>3, <1>4, <1>5, <1>6, <1>7, <1>8, <1>9 DEF OfObject

(* Every step of a thread t is like that.                                  *)
LEMMA StepRises ==
  ASSUME Inv, NEW t \in Threads,
         \/ \E m \in Mutexes : LockMutex(t, m) \/ UnlockMutex(t, m)
         \/ \E i \in Objects : OfObject(t, i)
         \/ Swap(t) \/ LockOne(t) \/ TryOther(t) \/ BackOff(t)
         \/ CallOnce(t) \/ CallableReturns(t) \/ CallableThrows(t)
  PROVE  Rises(t) /\ \A n \in Mutexes, u \in Threads \ {t} : held'[n][u] = held[n][u]
<1> USE DEF Inv
<1>1. ASSUME NEW m \in Mutexes, LockMutex(t, m) \/ UnlockMutex(t, m)
      PROVE  Rises(t) /\ Own(t)
  <2>1. Own(t) BY <1>1, MutexSteps
  <2>2. CASE LockMutex(t, m) BY <2>1, <2>2, LockedRises DEF LockMutex
  <2>3. CASE UnlockMutex(t, m) BY <2>1, <2>3, UnlockedRises DEF UnlockMutex
  <2>4. QED BY <1>1, <2>2, <2>3
<1>2. ASSUME NEW i \in Objects, OfObject(t, i)
      PROVE  Rises(t) /\ \A n \in Mutexes, u \in Threads \ {t} : held'[n][u] = held[n][u]
  <2>1. Rises(t) BY <1>2, ObjectRises
  <2>2. CASE LockBoth(t, i) BY <2>1, <2>2 DEF LockBoth
  <2>3. CASE ~LockBoth(t, i)
    <3>1. Own(t) BY <1>2, <2>3, ObjectSteps DEF OfObject
    <3>2. QED BY <2>1, <3>1 DEF Own
  <2>4. QED BY <2>2, <2>3
<1>3. ASSUME held' = held
      PROVE  Rises(t) /\ \A n \in Mutexes, u \in Threads \ {t} : held'[n][u] = held[n][u]
  BY <1>3, SameRises
<1>4. CASE LockOne(t)
  <2>1. PICK m : m = guard[t][call[t].x].mutex OBVIOUS
  <2>2. held' = Locked(held, t, m) /\ Available(t, m) BY <1>4, <2>1 DEF LockOne
  <2>3. QED BY <2>2, LockedRises, LockedColumn DEF Types
<1>5. CASE TryOther(t)
  <2>1. PICK m : m = guard[t][call[t].y].mutex OBVIOUS
  <2>2. CASE m # None /\ Available(t, m)
    <3>1. held' = Locked(held, t, m) BY <1>5, <2>1, <2>2 DEF TryOther
    <3>2. QED BY <2>2, <3>1, LockedRises, LockedColumn DEF Types
  <2>3. CASE ~(m # None /\ Available(t, m))
    <3>1. held' = held BY <1>5, <2>1, <2>3 DEF TryOther
    <3>2. QED BY <1>3, <3>1
  <2>4. QED BY <2>2, <2>3
<1>6. CASE BackOff(t)
  <2>1. PICK m : m = guard[t][call[t].x].mutex OBVIOUS
  <2>2. held' = Unlocked(held, t, m) BY <1>6, <2>1 DEF BackOff
  <2>3. QED BY <2>2, UnlockedRises, UnlockedColumn DEF Types
<1>7. CASE Swap(t) \/ CallOnce(t) \/ CallableReturns(t) \/ CallableThrows(t)
  <2>1. held' = held BY <1>7 DEF Swap, CallOnce, CallableReturns, CallableThrows
  <2>2. QED BY <1>3, <2>1
<1>8. QED BY <1>1, <1>2, <1>4, <1>5, <1>6, <1>7 DEF Own

LEMMA CountInductive ==
  CountInv /\ Exclusive /\ [Next]_vars => CountInv' /\ Exclusive'
<1> SUFFICES ASSUME CountInv, Exclusive, [Next]_vars PROVE CountInv' /\ Exclusive'
  OBVIOUS
<1>0. Inv /\ Types BY DEF CountInv, Inv
<1>1. CASE UNCHANGED vars
  <2>1. Inv' BY <1>0, <1>1, Inductive
  <2>2. UNCHANGED <<held, guard, raw, call>> BY <1>1 DEF vars
  <2>3. QED BY <2>1, <2>2 DEF CountInv, Counted, InCall, Own1, Owned, Exclusive, InItsWay, Holds
<1>2. CASE Next
  <2>1. PICK t \in Threads :
         \/ \E m \in Mutexes : LockMutex(t, m) \/ UnlockMutex(t, m)
         \/ \E i \in Objects : OfObject(t, i)
         \/ Swap(t) \/ LockOne(t) \/ TryOther(t) \/ BackOff(t)
         \/ CallOnce(t) \/ CallableReturns(t) \/ CallableThrows(t)
    BY <1>2 DEF Next
  <2>2. CountInv'
    <3>1. CASE \E m \in Mutexes : LockMutex(t, m) \/ UnlockMutex(t, m) BY <3>1, MutexCounted
    <3>2. ASSUME NEW i \in Objects, OfObject(t, i) PROVE CountInv'
      <4>1. CASE LockBoth(t, i) BY <4>1, LockBothCounted
      <4>2. CASE MoveAssign(t, i) BY <4>2, MoveCounted
      <4>3. CASE ~LockBoth(t, i) /\ ~MoveAssign(t, i) BY <3>2, <4>3, ObjectCounted DEF OfObject
      <4>4. QED BY <4>1, <4>2, <4>3
    <3>3. CASE Swap(t) BY <3>3, SwapCounted
    <3>4. CASE LockOne(t) BY <3>4, LockOneCounted
    <3>5. CASE TryOther(t) BY <3>5, TryOtherCounted
    <3>6. CASE BackOff(t) BY <3>6, BackOffCounted
    <3>7. CASE CallOnce(t) \/ CallableReturns(t) \/ CallableThrows(t) BY <3>7, OnceCounted
    <3>8. QED BY <2>1, <3>1, <3>2, <3>3, <3>4, <3>5, <3>6, <3>7
  <2>3. Rises(t) /\ \A n \in Mutexes, u \in Threads \ {t} : held'[n][u] = held[n][u]
    BY <1>0, <2>1, StepRises
  <2>4. Types' BY <2>2 DEF CountInv, Inv
  <2>5. QED BY <1>0, <2>2, <2>3, <2>4, ExclusiveKeeps
<1>3. QED BY <1>1, <1>2

LEMMA CountInitially ==
  Init => CountInv /\ Exclusive
<1> SUFFICES ASSUME Init PROVE CountInv /\ Exclusive
  OBVIOUS
<1>1. Inv BY Initially
<1>2. Counted
  <2>1. SUFFICES ASSUME NEW m \in Mutexes, NEW t \in Threads
                 PROVE  held[m][t] = Owned(t, 1, m) + Owned(t, 2, m)
                                     + (IF m \in raw[t] THEN 1 ELSE 0)
    BY DEF Counted
  <2>2. guard[t][1] = Empty /\ guard[t][2] = Empty BY DEF Init, Objects
  <2>3. [mutex |-> None, owns |-> FALSE] # [mutex |-> m, owns |-> TRUE] OBVIOUS
  <2>4. Owned(t, 1, m) = 0 /\ Owned(t, 2, m) = 0 BY <2>2, <2>3 DEF Owned, Empty
  <2>5. held[m][t] = 0 /\ m \notin raw[t] BY DEF Init
  <2>6. QED BY <2>4, <2>5
<1>3. \A t \in Threads : InCall(t) /\ Own1(t) BY DEF Init, InCall, Own1, Idle, Empty
<1>4. raw \in [Threads -> SUBSET Mutexes] BY DEF Init
<1>5. Exclusive BY DEF Init, Exclusive, Holds
<1>6. QED BY <1>1, <1>2, <1>3, <1>4, <1>5 DEF CountInv

(* The mutexes are locked exactly as the lock objects and the program's    *)
(* own calls say, and never by two threads that are not both readers.      *)
THEOREM LocksAreExact ==
  Spec => []HeldExact
<1>1. Init => CountInv /\ Exclusive BY CountInitially
<1>2. CountInv /\ Exclusive /\ [Next]_vars => (CountInv /\ Exclusive)' BY CountInductive
<1>3. CountInv /\ Exclusive => HeldExact BY DEF CountInv, HeldExact
<1>4. QED BY <1>1, <1>2, <1>3, PTL DEF Spec
=============================================================================
