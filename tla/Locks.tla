-------------------------------- MODULE Locks --------------------------------
(***************************************************************************)
(* mutex, recursive_mutex, shared_mutex, the lock objects on top of them,  *)
(* lock(first, second) and call_once (include/mutex, include/shared_mutex).*)
(*                                                                         *)
(* Each thread has two lock objects of one type: shared_locks for the      *)
(* threads in Readers, unique_locks for the others.  A pthread mutex is    *)
(* its owner; a call that blocks is a step that is not enabled yet, but    *)
(* for lock(first, second), which is one step for each call it makes.      *)
(*                                                                         *)
(* What a program owes the library: a thread does not lock again what it   *)
(* holds (but a recursive mutex), and blocks in one place only: it holds   *)
(* nothing when it calls lock or call_once.                                *)
(***************************************************************************)
EXTENDS Integers

CONSTANTS
  Threads,
  Mutexes,
  None,
  Recursive,  \* the recursive_mutexes; the others are shared_mutexes, which
              \* without lock_shared do what a mutex does
  Readers,    \* threads whose lock objects are shared_locks
  MaxDepth    \* bound on locks of a recursive mutex inside each other

ASSUME LocksAssumption ==
  /\ None \notin Threads \cup Mutexes
  /\ Recursive \subseteq Mutexes
  /\ Readers \subseteq Threads
  /\ MaxDepth \in Nat \ {0}

VARIABLES
  held,    \* [Mutexes -> [Threads -> Nat]]  how often a thread has it locked
  guard,   \* [Threads -> [Objects -> Guard]]  the lock objects
  raw,     \* [Threads -> SUBSET Mutexes]  locked without an object: mutex::lock,
           \* lock_guard and scoped_lock, or left by unique_lock::release
  call,    \* [Threads -> Call]
  flag,    \* the once_flag: who holds its mutex_, and done_
  runs,    \* history: how often the function of call_once returned
  served   \* history: the threads whose call_once returned

vars == <<held, guard, raw, call, flag, runs, served>>

Objects == {1, 2}
Guard == [mutex : Mutexes \cup {None}, owns : BOOLEAN]
Empty == [mutex |-> None, owns |-> FALSE]

\* In lock(first, second): about to lock object x ("lock"), to try object y
\* ("try"), or to unlock x ("back").
Call == [pc : {"idle", "lock", "try", "back", "callable"}, x : Objects, y : Objects]
Idle == [pc |-> "idle", x |-> 1, y |-> 2]

TypeOK ==
  /\ held \in [Mutexes -> [Threads -> 0 .. MaxDepth]]
  /\ guard \in [Threads -> [Objects -> Guard]]
  /\ \A t \in Threads, i \in Objects : guard[t][i].owns => guard[t][i].mutex # None
  /\ raw \in [Threads -> SUBSET Mutexes]
  /\ call \in [Threads -> Call]
  /\ flag \in [mutex_ : Threads \cup {None}, done_ : BOOLEAN]
  /\ runs \in Nat
  /\ served \subseteq Threads

Init ==
  /\ held = [m \in Mutexes |-> [t \in Threads |-> 0]]
  /\ guard = [t \in Threads |-> [i \in Objects |-> Empty]]
  /\ raw = [t \in Threads |-> {}]
  /\ call = [t \in Threads |-> Idle]
  /\ flag = [mutex_ |-> None, done_ |-> FALSE]
  /\ runs = 0
  /\ served = {}

-----------------------------------------------------------------------------
(* The mutexes *)

Holds(t, m) == held[m][t] > 0
HoldsNothing(t) == \A m \in Mutexes : ~Holds(t, m)

\* Whom a thread that locks m has to wait for: readers share a mutex.
InItsWay(t, m) ==
  {u \in Threads \ {t} : Holds(u, m) /\ ~(t \in Readers /\ u \in Readers)}

Available(t, m) == InItsWay(t, m) = {}

\* What the program may lock: nothing that it holds, but a recursive mutex.
MayLock(t, m) ==
  IF m \in Recursive
  THEN t \notin Readers /\ held[m][t] < MaxDepth
  ELSE ~Holds(t, m)

Locked(h, t, m) == [h EXCEPT ![m][t] = @ + 1]
Unlocked(h, t, m) == [h EXCEPT ![m][t] = @ - 1]

-----------------------------------------------------------------------------
(* mutex::lock, lock_guard and scoped_lock: no object remembers the lock. *)

LockMutex(t, m) ==
  /\ call[t] = Idle
  /\ m \notin raw[t]
  /\ MayLock(t, m)
  /\ Available(t, m)
  /\ held' = Locked(held, t, m)
  /\ raw' = [raw EXCEPT ![t] = @ \cup {m}]
  /\ UNCHANGED <<guard, call, flag, runs, served>>

UnlockMutex(t, m) ==
  /\ call[t] = Idle
  /\ m \in raw[t]
  /\ held' = Unlocked(held, t, m)
  /\ raw' = [raw EXCEPT ![t] = @ \ {m}]
  /\ UNCHANGED <<guard, call, flag, runs, served>>

-----------------------------------------------------------------------------
(* unique_lock and shared_lock.  A call that check_lockable or unlock      *)
(* refuses throws and changes nothing.                                     *)

Lockable(t, i) == guard[t][i].mutex # None /\ ~guard[t][i].owns

\* The mutexes once object i has given up its own.
WithoutGuard(h, t, i) ==
  IF guard[t][i].owns THEN Unlocked(h, t, guard[t][i].mutex) ELSE h

\* MUTANT: the destructor does not look at owns_.
DropGuardUnasked(t, i) ==
  /\ call[t] = Idle
  /\ guard[t][i] # Empty
  /\ held' = Unlocked(held, t, guard[t][i].mutex)
  /\ guard' = [guard EXCEPT ![t][i] = Empty]
  /\ UNCHANGED <<raw, call, flag, runs, served>>

\* The lock object gets a value, and what it owned is unlocked: the destructor
\* and a new object, or an assignment.
DropGuard(t, i) ==
  /\ call[t] = Idle
  /\ guard[t][i] # Empty
  /\ held' = WithoutGuard(held, t, i)
  /\ guard' = [guard EXCEPT ![t][i] = Empty]
  /\ UNCHANGED <<raw, call, flag, runs, served>>

Defer(t, i, m) ==
  /\ call[t] = Idle
  /\ m \in Recursive => t \notin Readers
  /\ held' = WithoutGuard(held, t, i)
  /\ guard' = [guard EXCEPT ![t][i] = [mutex |-> m, owns |-> FALSE]]
  /\ UNCHANGED <<raw, call, flag, runs, served>>

\* g = unique_lock(m, try_to_lock): tries while g still has what it had.
TryToLock(t, i, m) ==
  /\ call[t] = Idle
  /\ MayLock(t, m)
  /\ held' = WithoutGuard(IF Available(t, m) THEN Locked(held, t, m) ELSE held, t, i)
  /\ guard' = [guard EXCEPT ![t][i] = [mutex |-> m, owns |-> Available(t, m)]]
  /\ UNCHANGED <<raw, call, flag, runs, served>>

Adopt(t, i, m) ==
  /\ call[t] = Idle
  /\ m \in raw[t]
  /\ raw' = [raw EXCEPT ![t] = @ \ {m}]
  /\ held' = WithoutGuard(held, t, i)
  /\ guard' = [guard EXCEPT ![t][i] = [mutex |-> m, owns |-> TRUE]]
  /\ UNCHANGED <<call, flag, runs, served>>

Lock(t, i) ==
  /\ call[t] = Idle
  /\ Lockable(t, i)
  /\ MayLock(t, guard[t][i].mutex)
  /\ Available(t, guard[t][i].mutex)
  /\ held' = Locked(held, t, guard[t][i].mutex)
  /\ guard' = [guard EXCEPT ![t][i].owns = TRUE]
  /\ UNCHANGED <<raw, call, flag, runs, served>>

Unlock(t, i) ==
  /\ call[t] = Idle
  /\ guard[t][i].owns
  /\ held' = Unlocked(held, t, guard[t][i].mutex)
  /\ guard' = [guard EXCEPT ![t][i].owns = FALSE]
  /\ UNCHANGED <<raw, call, flag, runs, served>>

\* unique_lock::release: the caller has the mutex from now on.
Release(t, i) ==
  /\ call[t] = Idle
  /\ t \notin Readers
  /\ guard[t][i].mutex # None
  /\ guard[t][i].mutex \notin raw[t]
  /\ raw' = IF guard[t][i].owns THEN [raw EXCEPT ![t] = @ \cup {guard[t][i].mutex}] ELSE raw
  /\ guard' = [guard EXCEPT ![t][i] = Empty]
  /\ UNCHANGED <<held, call, flag, runs, served>>

\* MUTANT: the source of the move keeps its mutex and owns_.
MoveAssignShared(t, i) ==
  /\ call[t] = Idle
  /\ held' = WithoutGuard(held, t, i)
  /\ guard' = [guard EXCEPT ![t][i] = guard[t][3 - i]]
  /\ UNCHANGED <<raw, call, flag, runs, served>>

\* One object from the other: what it had is unlocked first.
MoveAssign(t, i) ==
  /\ call[t] = Idle
  /\ held' = WithoutGuard(held, t, i)
  /\ guard' = [guard EXCEPT ![t][i] = guard[t][3 - i], ![t][3 - i] = Empty]
  /\ UNCHANGED <<raw, call, flag, runs, served>>

Swap(t) ==
  /\ call[t] = Idle
  /\ t \notin Readers
  /\ guard' = [guard EXCEPT ![t][1] = guard[t][2], ![t][2] = guard[t][1]]
  /\ UNCHANGED <<held, raw, call, flag, runs, served>>

-----------------------------------------------------------------------------
(* lock(first, second), where both are lock objects *)

\* The second object may be one that cannot be locked: its try_lock throws.
LockBoth(t, i) ==
  /\ call[t] = Idle
  /\ HoldsNothing(t)
  /\ Lockable(t, i)
  /\ guard[t][i].mutex # guard[t][3 - i].mutex
  /\ call' = [call EXCEPT ![t] = [pc |-> "lock", x |-> i, y |-> 3 - i]]
  /\ UNCHANGED <<held, guard, raw, flag, runs, served>>

\* first.lock(), or second.lock() after a failure.
LockOne(t) ==
  LET m == guard[t][call[t].x].mutex IN
  /\ call[t].pc = "lock"
  /\ Available(t, m)
  /\ held' = Locked(held, t, m)
  /\ guard' = [guard EXCEPT ![t][call[t].x].owns = TRUE]
  /\ call' = [call EXCEPT ![t].pc = "try"]
  /\ UNCHANGED <<raw, flag, runs, served>>

\* Only the first try can throw, and then first stays locked.
TryOther(t) ==
  LET m == guard[t][call[t].y].mutex IN
  /\ call[t].pc = "try"
  /\ IF m # None /\ Available(t, m)
     THEN /\ held' = Locked(held, t, m)
          /\ guard' = [guard EXCEPT ![t][call[t].y].owns = TRUE]
     ELSE UNCHANGED <<held, guard>>
  /\ call' = [call EXCEPT ![t] =
                IF m = None \/ Available(t, m) THEN Idle ELSE [@ EXCEPT !.pc = "back"]]
  /\ UNCHANGED <<raw, flag, runs, served>>

\* MUTANT: waits for the other mutex with the first one locked.
BackOffHolding(t) ==
  /\ call[t].pc = "back"
  /\ call' = [call EXCEPT ![t] = [pc |-> "lock", x |-> @.y, y |-> @.x]]
  /\ UNCHANGED <<held, guard, raw, flag, runs, served>>

BackOff(t) ==
  /\ call[t].pc = "back"
  /\ held' = Unlocked(held, t, guard[t][call[t].x].mutex)
  /\ guard' = [guard EXCEPT ![t][call[t].x].owns = FALSE]
  /\ call' = [call EXCEPT ![t] = [pc |-> "lock", x |-> @.y, y |-> @.x]]
  /\ UNCHANGED <<raw, flag, runs, served>>

-----------------------------------------------------------------------------
(* call_once: the function runs with flag.mutex_ locked. *)

\* MUTANT: done_ is set before the function runs.
CallOnceEarly(t) ==
  /\ call[t] = Idle
  /\ HoldsNothing(t)
  /\ flag.mutex_ = None
  /\ IF flag.done_
     THEN served' = served \cup {t} /\ UNCHANGED <<call, flag>>
     ELSE /\ flag' = [mutex_ |-> t, done_ |-> TRUE]
          /\ call' = [call EXCEPT ![t].pc = "callable"]
          /\ UNCHANGED served
  /\ UNCHANGED <<held, guard, raw, runs>>

CallOnce(t) ==
  /\ call[t] = Idle
  /\ HoldsNothing(t)
  /\ flag.mutex_ = None
  /\ IF flag.done_
     THEN served' = served \cup {t} /\ UNCHANGED <<call, flag>>
     ELSE /\ flag' = [flag EXCEPT !.mutex_ = t]
          /\ call' = [call EXCEPT ![t].pc = "callable"]
          /\ UNCHANGED served
  /\ UNCHANGED <<held, guard, raw, runs>>

CallableReturns(t) ==
  /\ call[t].pc = "callable"
  /\ flag' = [mutex_ |-> None, done_ |-> TRUE]
  /\ call' = [call EXCEPT ![t] = Idle]
  /\ runs' = runs + 1
  /\ served' = served \cup {t}
  /\ UNCHANGED <<held, guard, raw>>

\* The lock_guard gives the flag back to whoever waits for it.
CallableThrows(t) ==
  /\ call[t].pc = "callable"
  /\ flag' = [flag EXCEPT !.mutex_ = None]
  /\ call' = [call EXCEPT ![t] = Idle]
  /\ UNCHANGED <<held, guard, raw, runs, served>>

-----------------------------------------------------------------------------
OfObject(t, i) ==
  \/ DropGuard(t, i) \/ Lock(t, i) \/ Unlock(t, i) \/ Release(t, i)
  \/ MoveAssign(t, i) \/ LockBoth(t, i)
  \/ \E m \in Mutexes : Defer(t, i, m) \/ TryToLock(t, i, m) \/ Adopt(t, i, m)

Next == \E t \in Threads :
  \/ \E m \in Mutexes : LockMutex(t, m) \/ UnlockMutex(t, m)
  \/ \E i \in Objects : OfObject(t, i)
  \/ Swap(t) \/ LockOne(t) \/ TryOther(t) \/ BackOff(t)
  \/ CallOnce(t) \/ CallableReturns(t) \/ CallableThrows(t)

Spec == Init /\ [][Next]_vars

-----------------------------------------------------------------------------
(* A mutex is locked as often as objects own it and threads hold it by     *)
(* themselves: none is left locked with nobody to unlock it, and none is   *)
(* unlocked twice.  Nobody owns what another has: two threads have one     *)
(* mutex only if both are readers.                                         *)
Owned(t, i, m) == IF guard[t][i] = [mutex |-> m, owns |-> TRUE] THEN 1 ELSE 0

Counted ==
  \A m \in Mutexes, t \in Threads :
    held[m][t] = Owned(t, 1, m) + Owned(t, 2, m) + (IF m \in raw[t] THEN 1 ELSE 0)

Exclusive ==
  \A m \in Mutexes, t \in Threads : Holds(t, m) => InItsWay(t, m) = {}

HeldExact == Counted /\ Exclusive

(* A thread that waits inside lock(first, second) holds neither, whatever  *)
(* it locked and gave back before: threads with the mutexes in opposite    *)
(* orders do not wait for each other.                                      *)
WaitsHoldNothing ==
  \A t \in Threads : call[t].pc = "lock" => HoldsNothing(t)

(* The function of call_once returns at most once, on one thread at a      *)
(* time, and before any call_once returns; when it throws, the flag is     *)
(* free for the next thread.                                               *)
OnceExact ==
  /\ runs = IF flag.done_ THEN 1 ELSE 0
  /\ served # {} => runs = 1
  /\ flag.mutex_ # None => ~flag.done_
  /\ \A t \in Threads : flag.mutex_ = t <=> call[t].pc = "callable"
=============================================================================
