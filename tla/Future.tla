------------------------------- MODULE Future -------------------------------
(***************************************************************************)
(* promise, future, packaged_task and async (include/future,               *)
(* src/future.cpp): the reference-counted shared state between the side    *)
(* that sets a result and the side that waits for it.                      *)
(*                                                                         *)
(* A critical section of the state's mutex_ is one step; what the code     *)
(* does after the unlock (notify_all, release) and what future<T>::get     *)
(* does without the lock are steps of their own.  The handles are known by *)
(* the state they point to: a move only renames a handle, and a handle     *)
(* that was moved from has no state and every call of it throws.           *)
(*                                                                         *)
(* What a program owes the library: a promise is not destroyed during a    *)
(* call of it, a future has one thread in it at a time, and some thread is *)
(* left to set the promises that the others wait for.                      *)
(***************************************************************************)
EXTENDS Integers, Sequences, FiniteSets

CONSTANTS
  Threads,   \* the program's threads
  States,    \* shared states; a state also names the thread that async starts for it
  None,
  MaxNest    \* bound on packaged_task calls inside each other on one thread

ASSUME FutureAssumption ==
  /\ Threads \cap States = {}
  /\ None \notin Threads \cup States
  /\ IsFiniteSet(Threads)
  /\ MaxNest \in Nat

VARIABLES
  alive,             \* [States -> BOOLEAN]  allocated
  kind,              \* [States -> "promise" | "task" | "async"]  what sets it
  hasValue,          \* [States -> BOOLEAN]  __state<T> (FALSE: __state<void>)
  references,        \* [States -> Nat]
  ready,             \* [States -> BOOLEAN]
  future_retrieved,  \* [States -> BOOLEAN]
  error,             \* [States -> BOOLEAN]  error_ is broken_promise
  exception,         \* [States -> BOOLEAN]  exception_ is set
  storage,           \* [States -> "raw" | "built" | "moved"]  the T in storage_
  prom,              \* [States -> BOOLEAN]  a promise or packaged_task has it
  fut,               \* [States -> BOOLEAN]  a future has it
  waiting,           \* [States -> SUBSET Threads]  blocked on condition_
  proc,              \* [Procs -> Call]  where each thread is
  inside             \* [Threads -> Seq(States)]  packaged_tasks whose function it runs

vars == <<alive, kind, hasValue, references, ready, future_retrieved, error, exception,
          storage, prom, fut, waiting, proc, inside>>

Procs == Threads \cup States

Call == [pc : {"none", "user", "function", "caught", "notify", "release",
               "wait", "woken", "take", "destroy", "reset"},
         state : States \cup {None},
         next : {"none", "user", "release", "get", "wait", "timed"}]

At(pc, s, next) == [pc |-> pc, state |-> s, next |-> next]
User == At("user", None, "none")
Ended == At("none", None, "none")

TypeOK ==
  /\ alive \in [States -> BOOLEAN]
  /\ kind \in [States -> {"promise", "task", "async"}]
  /\ hasValue \in [States -> BOOLEAN]
  /\ references \in [States -> Nat]
  /\ \A v \in {ready, future_retrieved, error, exception, prom, fut} :
       v \in [States -> BOOLEAN]
  /\ storage \in [States -> {"raw", "built", "moved"}]
  /\ waiting \in [States -> SUBSET Threads]
  /\ proc \in [Procs -> Call]
  /\ inside \in [Threads -> Seq(States)]

-----------------------------------------------------------------------------
(* Who is where. *)

\* The thread runs the program's own code, maybe the function of a packaged_task.
InUser(t) == proc[t] = User

\* No thread is in a call of the promise, or in the function of its task.
PromiseIdle(s) ==
  /\ \A p \in Procs : proc[p].state = s => proc[p].pc \notin {"caught", "notify"}
  /\ \A t \in Threads : \A i \in 1 .. Len(inside[t]) : inside[t][i] # s

FutureIdle(s) ==
  \A t \in Threads : proc[t].state = s => proc[t].pc \notin {"wait", "woken", "take"}

\* The program does not let every thread wait.
SomeoneElseRuns(t) == \E u \in Threads \ {t} : proc[u].pc \notin {"wait", "woken"}

\* A thread of the program returns to it, the one that async started ends.
Back(p) == IF p \in Threads THEN User ELSE Ended

-----------------------------------------------------------------------------
(* Shared states and their handles *)

New(s, k, v, refs) ==
  /\ ~alive[s]
  /\ alive' = [alive EXCEPT ![s] = TRUE]
  /\ kind' = [kind EXCEPT ![s] = k]
  /\ hasValue' = [hasValue EXCEPT ![s] = v]
  /\ references' = [references EXCEPT ![s] = refs]
  /\ ready' = [ready EXCEPT ![s] = FALSE]
  /\ future_retrieved' = [future_retrieved EXCEPT ![s] = FALSE]
  /\ error' = [error EXCEPT ![s] = FALSE]
  /\ exception' = [exception EXCEPT ![s] = FALSE]
  /\ storage' = [storage EXCEPT ![s] = "raw"]
  /\ UNCHANGED <<waiting, inside>>

\* promise() and packaged_task(F&&).
NewPromise(t, s) ==
  /\ InUser(t)
  /\ \E k \in {"promise", "task"}, v \in BOOLEAN : New(s, k, v, 1)
  /\ prom' = [prom EXCEPT ![s] = TRUE]
  /\ UNCHANGED <<fut, proc>>

\* MUTANT: the thread that async starts has no reference of its own.
AsyncRefsOne == 1
\* The future's, and the one that async takes for the thread.
AsyncRefs == 2

Async(t, s) ==
  /\ InUser(t)
  /\ proc[s] = Ended
  /\ \E v \in BOOLEAN : New(s, "async", v, AsyncRefs)
  /\ fut' = [fut EXCEPT ![s] = TRUE]
  /\ proc' = [proc EXCEPT ![s] = At("function", s, "none")]
  /\ UNCHANGED prom

\* A second call throws "future already retrieved".
GetFuture(t, s) ==
  /\ InUser(t)
  /\ prom[s]
  /\ ~future_retrieved[s]
  /\ future_retrieved' = [future_retrieved EXCEPT ![s] = TRUE]
  /\ references' = [references EXCEPT ![s] = @ + 1]
  /\ fut' = [fut EXCEPT ![s] = TRUE]
  /\ UNCHANGED <<alive, kind, hasValue, ready, error, exception, storage, prom,
                 waiting, proc, inside>>

-----------------------------------------------------------------------------
(* Making a state ready *)

\* MUTANT: a state that is ready is not recognised.
MaySatisfyAlways(s) == TRUE

\* If not, "promise already satisfied" is thrown.
MaySatisfy(s) == ~ready[s]

\* The end of each critical section that does it; notify_all comes after it.
Satisfy(p, s, next) ==
  /\ ready' = [ready EXCEPT ![s] = TRUE]
  /\ proc' = [proc EXCEPT ![p] = At("notify", s, next)]

StoreValue(s) ==
  /\ MaySatisfy(s)
  /\ storage' = IF hasValue[s] THEN [storage EXCEPT ![s] = "built"] ELSE storage
  /\ UNCHANGED <<error, exception>>

StoreException(s) ==
  /\ MaySatisfy(s)
  /\ exception' = [exception EXCEPT ![s] = TRUE]
  /\ UNCHANGED <<error, storage>>

\* promise::set_value and set_exception.  If T's constructor throws, or the
\* state is ready, the call throws and nothing has changed.
Set(t, s) ==
  /\ InUser(t)
  /\ prom[s]
  /\ kind[s] = "promise"
  /\ StoreValue(s) \/ StoreException(s)
  /\ Satisfy(t, s, "user")
  /\ UNCHANGED <<alive, kind, hasValue, references, future_retrieved, prom, fut,
                 waiting, inside>>

\* packaged_task::operator(): __is_ready, then the function.
TaskCall(t, s) ==
  /\ InUser(t)
  /\ prom[s]
  /\ kind[s] = "task"
  /\ Len(inside[t]) < MaxNest
  /\ ~ready[s]
  /\ inside' = [inside EXCEPT ![t] = <<s>> \o @]
  /\ UNCHANGED <<alive, kind, hasValue, references, ready, future_retrieved, error,
                 exception, storage, prom, fut, waiting, proc>>

\* The function of a task or of async is over: its result is stored, or the
\* catch clause is entered because it, T's constructor or set_value threw.
FunctionEnds(p, s, next) ==
  \/ /\ StoreValue(s)
     /\ Satisfy(p, s, next)
  \/ /\ proc' = [proc EXCEPT ![p] = At("caught", s, next)]
     /\ UNCHANGED <<error, exception, storage, ready>>

TaskReturn(t) ==
  /\ InUser(t)
  /\ inside[t] # <<>>
  /\ FunctionEnds(t, Head(inside[t]), "user")
  /\ inside' = [inside EXCEPT ![t] = Tail(@)]
  /\ UNCHANGED <<alive, kind, hasValue, references, future_retrieved, prom, fut, waiting>>

AsyncReturn(s) ==
  /\ proc[s].pc = "function"
  /\ FunctionEnds(s, s, "release")
  /\ UNCHANGED <<alive, kind, hasValue, references, future_retrieved, prom, fut,
                 waiting, inside>>

\* set_exception(current_exception()).  In a task that called itself the state
\* is ready by now, and the second exception leaves operator().
Caught(p) ==
  LET s == proc[p].state IN
  /\ proc[p].pc = "caught"
  /\ \/ /\ StoreException(s)
        /\ Satisfy(p, s, proc[p].next)
     \/ /\ ~MaySatisfy(s)
        /\ proc' = [proc EXCEPT ![p] = Back(p)]
        /\ UNCHANGED <<error, exception, storage, ready>>
  /\ UNCHANGED <<alive, kind, hasValue, references, future_retrieved, prom, fut,
                 waiting, inside>>

\* MUTANT: a promise that is destroyed does not wake the waiting threads.
AfterAbandonQuiet(s) == At("release", s, "none")
AfterAbandon(s) == At("notify", s, "release")

\* ~promise, ~packaged_task and their move assignments: abandon, then release.
DropPromise(t, s) ==
  /\ InUser(t)
  /\ prom[s]
  /\ PromiseIdle(s)
  /\ prom' = [prom EXCEPT ![s] = FALSE]
  /\ \/ /\ ready[s]
        /\ proc' = [proc EXCEPT ![t] = At("release", s, "none")]
        /\ UNCHANGED <<error, ready>>
     \/ /\ ~ready[s]
        /\ error' = [error EXCEPT ![s] = TRUE]
        /\ ready' = [ready EXCEPT ![s] = TRUE]
        /\ proc' = [proc EXCEPT ![t] = AfterAbandon(s)]
  /\ UNCHANGED <<alive, kind, hasValue, references, future_retrieved, exception, storage,
                 fut, waiting, inside>>

\* notify_all, without the lock.
Notify(p) ==
  LET s == proc[p].state IN
  /\ proc[p].pc = "notify"
  /\ proc' = [q \in Procs |->
                IF q = p THEN IF proc[p].next = "release"
                              THEN At("release", s, "none") ELSE User
                ELSE IF q \in waiting[s] THEN [proc[q] EXCEPT !.pc = "woken"]
                ELSE proc[q]]
  /\ waiting' = [waiting EXCEPT ![s] = {}]
  /\ UNCHANGED <<alive, kind, hasValue, references, ready, future_retrieved, error,
                 exception, storage, prom, fut, inside>>

\* __state<T>::~__state destroys the T that it takes to be there.
Destructs(s) == ready[s] /\ ~error[s] /\ ~exception[s] /\ hasValue[s]

\* release, at the end of a call that gives a reference back.
Release(p) ==
  LET s == proc[p].state
      last == references[s] = 1
  IN
  /\ proc[p].pc = "release"
  /\ references' = [references EXCEPT ![s] = @ - 1]
  /\ alive' = [alive EXCEPT ![s] = @ /\ ~last]
  /\ storage' = [storage EXCEPT ![s] = IF last /\ Destructs(s) THEN "raw" ELSE @]
  /\ proc' = [proc EXCEPT ![p] = Back(p)]
  /\ UNCHANGED <<kind, hasValue, ready, future_retrieved, error, exception, prom, fut,
                 waiting, inside>>

-----------------------------------------------------------------------------
(* The future *)

\* ~future and its move assignment.
DropFuture(t, s) ==
  /\ InUser(t)
  /\ fut[s]
  /\ FutureIdle(s)
  /\ fut' = [fut EXCEPT ![s] = FALSE]
  /\ proc' = [proc EXCEPT ![t] = At("release", s, "none")]
  /\ UNCHANGED <<alive, kind, hasValue, references, ready, future_retrieved, error,
                 exception, storage, prom, waiting, inside>>

\* get, wait and wait_for: look at ready under the lock; block if it is not.
\* A thread does not wait from inside the function that may be awaited.
Wait(t, s, op) ==
  /\ InUser(t)
  /\ inside[t] = <<>>
  /\ fut[s]
  /\ FutureIdle(s)
  /\ \/ /\ ready[s]
        /\ op = "get"
        /\ proc' = [proc EXCEPT ![t] = At("take", s, "get")]
        /\ UNCHANGED waiting
     \/ /\ ~ready[s]
        /\ SomeoneElseRuns(t)
        /\ proc' = [proc EXCEPT ![t] = At("wait", s, op)]
        /\ waiting' = [waiting EXCEPT ![s] = @ \cup {t}]
  /\ UNCHANGED <<alive, kind, hasValue, references, ready, future_retrieved, error,
                 exception, storage, prom, fut, inside>>

\* The timeout of wait_for, or a spurious wake-up.
WakeUnasked(t) ==
  /\ proc[t].pc = "wait"
  /\ proc' = [proc EXCEPT ![t].pc = "woken"]
  /\ waiting' = [waiting EXCEPT ![proc[t].state] = @ \ {t}]
  /\ UNCHANGED <<alive, kind, hasValue, references, ready, future_retrieved, error,
                 exception, storage, prom, fut, inside>>

\* Awake, and the lock held again: look at ready once more.
LookAgain(t) ==
  LET s == proc[t].state
      op == proc[t].next
  IN
  /\ proc[t].pc = "woken"
  /\ \/ /\ ready[s] /\ op = "get"
        /\ proc' = [proc EXCEPT ![t] = At("take", s, "get")]
        /\ UNCHANGED waiting
     \/ /\ (op = "wait" /\ ready[s]) \/ op = "timed"
        /\ proc' = [proc EXCEPT ![t] = User]
        /\ UNCHANGED waiting
     \/ /\ ~ready[s]
        /\ proc' = [proc EXCEPT ![t].pc = "wait"]
        /\ waiting' = [waiting EXCEPT ![s] = @ \cup {t}]
  /\ UNCHANGED <<alive, kind, hasValue, references, ready, future_retrieved, error,
                 exception, storage, prom, fut, inside>>

\* get without the lock: an error or an exception is thrown, the value is moved
\* out; the future has no state any more.  If T's move constructor throws, the
\* value stays for ~__state.
Take(t) ==
  LET s == proc[t].state IN
  /\ proc[t].pc = "take"
  /\ fut' = [fut EXCEPT ![s] = FALSE]
  /\ \/ /\ proc' = [proc EXCEPT ![t] = At("release", s, "none")]
        /\ UNCHANGED storage
     \/ /\ ~error[s] /\ ~exception[s] /\ hasValue[s]
        /\ storage' = [storage EXCEPT ![s] = "moved"]
        /\ proc' = [proc EXCEPT ![t] = At("destroy", s, "none")]
  /\ UNCHANGED <<alive, kind, hasValue, references, ready, future_retrieved, error,
                 exception, prom, waiting, inside>>

DestroyValue(t) ==
  LET s == proc[t].state IN
  /\ proc[t].pc = "destroy"
  /\ storage' = [storage EXCEPT ![s] = "raw"]
  /\ proc' = [proc EXCEPT ![t].pc = "reset"]
  /\ UNCHANGED <<alive, kind, hasValue, references, ready, future_retrieved, error,
                 exception, prom, fut, waiting, inside>>

\* MUTANT: get leaves ready set, and ~__state destroys the value again.
AfterTakeKeep(s) == ready
AfterTake(s) == [ready EXCEPT ![s] = FALSE]

ResetReady(t) ==
  LET s == proc[t].state IN
  /\ proc[t].pc = "reset"
  /\ ready' = AfterTake(s)
  /\ proc' = [proc EXCEPT ![t] = At("release", s, "none")]
  /\ UNCHANGED <<alive, kind, hasValue, references, future_retrieved, error,
                 exception, storage, prom, fut, waiting, inside>>

-----------------------------------------------------------------------------
Init ==
  /\ alive = [s \in States |-> FALSE]
  /\ kind = [s \in States |-> "promise"]
  /\ hasValue = [s \in States |-> FALSE]
  /\ references = [s \in States |-> 0]
  /\ ready = [s \in States |-> FALSE]
  /\ future_retrieved = [s \in States |-> FALSE]
  /\ error = [s \in States |-> FALSE]
  /\ exception = [s \in States |-> FALSE]
  /\ storage = [s \in States |-> "raw"]
  /\ prom = [s \in States |-> FALSE]
  /\ fut = [s \in States |-> FALSE]
  /\ waiting = [s \in States |-> {}]
  /\ proc = [p \in Procs |-> IF p \in Threads THEN User ELSE Ended]
  /\ inside = [t \in Threads |-> <<>>]

UserCall(t) ==
  \/ TaskReturn(t)
  \/ \E s \in States :
       \/ NewPromise(t, s) \/ Async(t, s) \/ GetFuture(t, s)
       \/ Set(t, s) \/ TaskCall(t, s) \/ DropPromise(t, s) \/ DropFuture(t, s)
       \/ \E op \in {"get", "wait", "timed"} : Wait(t, s, op)

\* What the library does next for a thread that is in a call.
Proceed(p) == Caught(p) \/ Notify(p) \/ Release(p)

ProceedFuture(t) == LookAgain(t) \/ Take(t) \/ DestroyValue(t) \/ ResetReady(t)

Next ==
  \/ \E t \in Threads : UserCall(t) \/ WakeUnasked(t) \/ ProceedFuture(t)
  \/ \E p \in Procs : Proceed(p)
  \/ \E s \in States : AsyncReturn(s)

Spec == Init /\ [][Next]_vars

\* Threads run, functions return, and a promise is not kept for ever unset.
Fairness ==
  /\ \A p \in Procs : WF_vars(Proceed(p))
  /\ \A t \in Threads : WF_vars(ProceedFuture(t)) /\ SF_vars(TaskReturn(t))
  /\ \A s \in States : WF_vars(AsyncReturn(s))
  /\ \A s \in States : SF_vars(\E t \in Threads : Set(t, s) \/ DropPromise(t, s))

FairSpec == Spec /\ Fairness

-----------------------------------------------------------------------------
(* What makes it correct. *)

\* Threads that will still release the state.
Releasing(s) ==
  {p \in Procs : /\ proc[p].state = s
                 /\ \/ p \in States
                    \/ proc[p].pc \in {"release", "destroy", "reset"}
                    \/ proc[p].next = "release"}

\* The count of a state is the number of its handles and of the calls that have
\* yet to release it: it is deleted by the last one, once, and never leaks.  No
\* thread that is in a call of a state, a setter that has unlocked and not yet
\* notified among them, works on a deleted one, and no handle points to one.
RefsExact ==
  \A s \in States :
    /\ references[s] = Cardinality(Releasing(s)) + (IF prom[s] THEN 1 ELSE 0)
                                                 + (IF fut[s] THEN 1 ELSE 0)
    /\ alive[s] <=> references[s] > 0
    /\ prom[s] \/ fut[s] \/ (\E p \in Procs : proc[p].state = s) => alive[s]

\* There is a T in the storage exactly when ~__state would destroy one, but
\* for the moment in which get has destroyed it and not yet reset ready: no
\* value leaks and none is destroyed twice, whichever of get, set_value and
\* ~promise comes last.
StorageExact ==
  \A s \in States :
    (storage[s] # "raw") <=>
      /\ alive[s]
      /\ Destructs(s)
      /\ \A t \in Threads : ~(proc[t].pc = "reset" /\ proc[t].state = s)

\* A thread that sleeps although the state is ready is about to be notified.
NoLostWakeup ==
  \A s \in States : waiting[s] # {} /\ ready[s] =>
    \E p \in Procs : proc[p].pc = "notify" /\ proc[p].state = s

\* Types, counts and storage together: each shared state is deleted by its last
\* holder, destroys the value it holds once, and a thread that sleeps although the
\* state is ready is about to be notified (__state, future::get, ~promise).
StatesExact == TypeOK /\ RefsExact /\ StorageExact /\ NoLostWakeup

\* The outcome that made a state ready stays what it is until get takes it: a
\* late set_value, exception or abandon does not change it.
OutcomeStable ==
  [][\A s \in States : ready[s] /\ ready'[s] /\ alive'[s] =>
       /\ error'[s] = error[s]
       /\ exception'[s] = exception[s]
       /\ storage'[s] # storage[s] => \E t \in Threads : proc[t].pc \in {"take", "destroy"}]_vars

\* Every get and wait ends.
WaitEnds == \A t \in Threads : proc[t].pc = "wait" ~> proc[t].pc = "user"

=============================================================================
