------------------------------- MODULE CondVar -------------------------------
(***************************************************************************)
(* condition_variable_any (include/condition_variable) on top of           *)
(* condition_variable (include/__psychicstd_condition_variable_core,       *)
(* src/condition_variable.cpp): waits on a lock of the program, with an    *)
(* internal mutex that is reference counted so that it can outlive the     *)
(* object, and timed waits that sleep on another clock than the one they   *)
(* are given, and sleep again when they wake up early.                     *)
(*                                                                         *)
(* The program is the usual one: a flag under a lock, waits in a loop, and *)
(* notifications with or without the lock.  It may destroy the object when *)
(* every thread that waits has been notified.                              *)
(***************************************************************************)
EXTENDS Integers, FiniteSets

CONSTANTS
  Threads,
  None,
  DestroyInTimedWait  \* may the object be destroyed while a notified thread
                      \* is still on its way out of a timed wait?

ASSUME CondVarAssumption ==
  /\ IsFiniteSet(Threads)
  /\ None \notin Threads
  /\ DestroyInTimedWait \in BOOLEAN

VARIABLES
  flag,      \* BOOLEAN  what the program waits for, under the lock
  lock,      \* the owner of the program's lock, or None
  alive,     \* BOOLEAN  the condition_variable_any exists
  internal,  \* the owner of __mutex_owner::__state::mutex_, or None
  refs,      \* Nat      __mutex_owner::__state::references_, 0 when it is deleted
  asleep,    \* SUBSET Threads  the queue of condition_
  pc,        \* [Threads -> where the thread is]
  timed,     \* [Threads -> BOOLEAN]  its wait has a deadline
  expired,   \* [Threads -> BOOLEAN]  which has passed
  slept,     \* [Threads -> BOOLEAN]  the sleep ended with ETIMEDOUT
  pending    \* SUBSET Threads  history: it has unlocked to wait and not been notified since

vars == <<flag, lock, alive, internal, refs, asleep, pc, timed, expired, slept, pending>>

\* The points of a wait, in order.
InWait == {"enter", "held", "before", "asleep", "relock", "after", "lockuser", "leave"}

TypeOK ==
  /\ flag \in BOOLEAN
  /\ lock \in Threads \cup {None}
  /\ alive \in BOOLEAN
  /\ internal \in Threads \cup {None}
  /\ refs \in Nat
  /\ asleep \subseteq Threads
  /\ pc \in [Threads -> InWait \cup {"out", "in"}]
  /\ timed \in [Threads -> BOOLEAN]
  /\ expired \in [Threads -> BOOLEAN]
  /\ slept \in [Threads -> BOOLEAN]
  /\ pending \subseteq Threads

Goto(t, p) == pc' = [pc EXCEPT ![t] = p]

-----------------------------------------------------------------------------
(* The program *)

LockUser(t) ==
  /\ pc[t] = "out"
  /\ lock = None
  /\ lock' = t
  /\ Goto(t, "in")
  /\ UNCHANGED <<flag, alive, internal, refs, asleep, timed, expired, slept, pending>>

UnlockUser(t) ==
  /\ pc[t] = "in"
  /\ lock' = None
  /\ Goto(t, "out")
  /\ UNCHANGED <<flag, alive, internal, refs, asleep, timed, expired, slept, pending>>

SetFlag(t) ==
  /\ pc[t] = "in"
  /\ flag' = ~flag
  /\ UNCHANGED <<lock, alive, internal, refs, asleep, pc, timed, expired, slept, pending>>

NewCondition ==
  /\ ~alive
  /\ refs = 0
  /\ alive' = TRUE
  /\ refs' = 1
  /\ UNCHANGED <<flag, lock, internal, asleep, pc, timed, expired, slept, pending>>

\* Every thread that waits has been notified: the program may destroy the object.
\* Its mutex lives on while a thread has a reference.
Destroy(t) ==
  /\ pc[t] \in {"out", "in"}
  /\ alive
  /\ pending = {}
  /\ \A u \in Threads : pc[u] \notin {"enter", "held"}
  /\ DestroyInTimedWait \/ \A u \in Threads : pc[u] \in InWait => ~timed[u]
  /\ alive' = FALSE
  /\ refs' = refs - 1
  /\ UNCHANGED <<flag, lock, internal, asleep, pc, timed, expired, slept, pending>>

-----------------------------------------------------------------------------
(* notify_all and notify_one: the internal mutex is held around the call. *)

\* MUTANT: notification without the internal mutex.
MayNotifyUnlocked == TRUE
MayNotify == internal = None

\* A thread that leaves the queue must have the internal mutex again.
Awake(woken) == [t \in Threads |-> IF t \in woken THEN "relock" ELSE pc[t]]

NotifyAll(t) ==
  /\ pc[t] \in {"out", "in"}
  /\ alive
  /\ MayNotify
  /\ asleep' = {}
  /\ pending' = {}
  /\ pc' = Awake(asleep)
  /\ UNCHANGED <<flag, lock, alive, internal, refs, timed, expired, slept>>

NotifyOne(t) ==
  /\ pc[t] \in {"out", "in"}
  /\ alive
  /\ MayNotify
  /\ \E u \in asleep :
       /\ asleep' = asleep \ {u}
       /\ pending' = pending \ {u}
       /\ pc' = Awake({u})
  /\ UNCHANGED <<flag, lock, alive, internal, refs, timed, expired, slept>>

-----------------------------------------------------------------------------
(* wait and wait_until *)

\* MUTANT: a waiting thread has no reference of its own.
ReferenceNone == refs
Reference == refs + 1

\* The flag is not set: the wait begins with a reference to the mutex.  The
\* program does not let every thread wait.
BeginWait(t) ==
  /\ pc[t] = "in"
  /\ ~flag
  /\ \E u \in Threads \ {t} : pc[u] \notin InWait
  /\ alive
  /\ refs' = Reference
  /\ timed' \in {[timed EXCEPT ![t] = b] : b \in BOOLEAN}
  /\ expired' = [expired EXCEPT ![t] = FALSE]
  /\ slept' = [slept EXCEPT ![t] = FALSE]
  /\ Goto(t, "enter")
  /\ UNCHANGED <<flag, lock, alive, internal, asleep, pending>>

LockInternal(t) ==
  /\ pc[t] = "enter"
  /\ internal = None
  /\ internal' = t
  /\ Goto(t, "held")
  /\ UNCHANGED <<flag, lock, alive, refs, asleep, timed, expired, slept, pending>>

\* lock.unlock(), with the internal mutex held.
GiveUpLock(t) ==
  /\ pc[t] = "held"
  /\ lock' = None
  /\ pending' = pending \cup {t}
  /\ Goto(t, "before")
  /\ UNCHANGED <<flag, alive, internal, refs, asleep, timed, expired, slept>>

\* condition_variable::wait and wait_until: asleep, and the internal mutex
\* free, in one step; not at all if the deadline has passed.
Sleep(t) ==
  /\ pc[t] = "before"
  /\ \/ /\ ~(timed[t] /\ expired[t])
        /\ asleep' = asleep \cup {t}
        /\ internal' = None
        /\ Goto(t, "asleep")
     \/ /\ timed[t] /\ expired[t]
        /\ Goto(t, "after")
        /\ UNCHANGED <<asleep, internal>>
  /\ UNCHANGED <<flag, lock, alive, refs, timed, expired, slept, pending>>

\* The deadline of the wait passes.
Deadline(t) ==
  /\ pc[t] \in InWait
  /\ timed[t] /\ ~expired[t]
  /\ expired' = [expired EXCEPT ![t] = TRUE]
  /\ UNCHANGED <<flag, lock, alive, internal, refs, asleep, pc, timed, slept, pending>>

\* pthread_cond_timedwait, on the realtime clock: maybe before the deadline of
\* the clock that the caller gave.
TimeOut(t) ==
  /\ pc[t] = "asleep"
  /\ timed[t]
  /\ asleep' = asleep \ {t}
  /\ slept' = [slept EXCEPT ![t] = TRUE]
  /\ Goto(t, "relock")
  /\ UNCHANGED <<flag, lock, alive, internal, refs, timed, expired, pending>>

\* The sleep is over when the internal mutex is held again.  A sleep that timed
\* out before the deadline is repeated.
Relock(t) ==
  /\ pc[t] = "relock"
  /\ internal = None
  /\ internal' = t
  /\ slept' = [slept EXCEPT ![t] = FALSE]
  /\ Goto(t, IF slept[t] /\ ~expired[t] THEN "before" ELSE "after")
  /\ UNCHANGED <<flag, lock, alive, refs, asleep, timed, expired, pending>>

\* MUTANT: the internal mutex is held until the caller's lock is.
ReleaseInternalLate(t) == lock = None /\ internal' = None
ReleaseInternal(t) == internal' = None

UnlockInternal(t) ==
  /\ pc[t] = "after"
  /\ ReleaseInternal(t)
  /\ Goto(t, "lockuser")
  /\ UNCHANGED <<flag, lock, alive, refs, asleep, timed, expired, slept, pending>>

Regain(t) ==
  /\ pc[t] = "lockuser"
  /\ lock = None
  /\ lock' = t
  /\ Goto(t, "leave")
  /\ UNCHANGED <<flag, alive, internal, refs, asleep, timed, expired, slept, pending>>

\* The reference to the mutex goes last, and maybe the mutex with it.
EndWait(t) ==
  /\ pc[t] = "leave"
  /\ refs' = refs - 1
  /\ pending' = pending \ {t}
  /\ Goto(t, "in")
  /\ UNCHANGED <<flag, lock, alive, internal, asleep, timed, expired, slept>>

-----------------------------------------------------------------------------
Init ==
  /\ flag = FALSE
  /\ lock = None
  /\ alive = TRUE
  /\ internal = None
  /\ refs = 1
  /\ asleep = {}
  /\ pc = [t \in Threads |-> "out"]
  /\ timed = [t \in Threads |-> FALSE]
  /\ expired = [t \in Threads |-> FALSE]
  /\ slept = [t \in Threads |-> FALSE]
  /\ pending = {}

Program(t) ==
  \/ LockUser(t) \/ UnlockUser(t) \/ SetFlag(t) \/ Destroy(t)
  \/ NotifyAll(t) \/ NotifyOne(t) \/ BeginWait(t)

Proceed(t) ==
  \/ LockInternal(t) \/ GiveUpLock(t) \/ Sleep(t)
  \/ Relock(t) \/ UnlockInternal(t) \/ Regain(t) \/ EndWait(t)

Next ==
  \/ \E t \in Threads : Program(t) \/ Proceed(t) \/ Deadline(t) \/ TimeOut(t)
  \/ NewCondition

Spec == Init /\ [][Next]_vars

\* Threads run, mutexes do not starve a thread, the program gives its lock
\* back, and time passes.
Fairness ==
  \A t \in Threads :
    /\ SF_vars(Proceed(t))
    /\ WF_vars(UnlockUser(t))
    /\ WF_vars(Deadline(t))
    /\ WF_vars(TimeOut(t) /\ expired[t])

FairSpec == Spec /\ Fairness

-----------------------------------------------------------------------------
(* What makes it correct. *)

\* The internal mutex exists for every thread that is inside a wait, which the
\* object itself need not.
MutexAlive == TypeOK /\ \A t \in Threads : pc[t] \in InWait => refs > 0

\* No thread sleeps, or is about to, on the queue of an object that is gone.
ConditionAlive == \A t \in Threads : pc[t] \in {"before", "asleep"} => alive

\* A thread in an untimed wait that is asleep has not been notified since it
\* unlocked: the notification cannot fall between unlock and sleep.
NoMissedNotify == \A t \in asleep : timed[t] \/ t \in pending

\* A thread that has been notified, or whose wait has a deadline, comes back.
WaitReturns ==
  \A t \in Threads :
    (/\ pc[t] \in InWait \ {"enter", "held"}
     /\ timed[t] \/ t \notin pending) ~> pc[t] = "in"

=============================================================================
