-------------------------------- MODULE Thread --------------------------------
(***************************************************************************)
(* thread, jthread and detached launches (include/thread, src/thread.cpp). *)
(*                                                                         *)
(* One thread of the program has the thread objects; the threads it starts *)
(* run a function that may wait on an atomic (AtomicWait).  The function   *)
(* of a jthread registers a stop_callback which stores 1 and notifies, the *)
(* usual way to end such a wait; request_stop runs it, and the destructor  *)
(* of the callback waits for it (StopPromise).  For a plain thread the     *)
(* program stores 1 and notifies before it joins.                          *)
(***************************************************************************)
EXTENDS AtomicWait, Integers, FiniteSets

CONSTANTS
  Objects,   \* variables of type thread or jthread
  JThreads,  \* the jthreads
  NoThread

ASSUME ThreadAssumption ==
  /\ JThreads \subseteq Objects
  /\ NoThread \notin Workers

VARIABLES
  object,      \* [Objects -> Object]
  os,          \* [Workers -> "none" | "running" | "ended" (not joined yet) | "gone"]
  detached,    \* SUBSET Workers
  state,       \* [Workers -> "none" | "live" | "deleted"]  the __state of the thread
  callback,    \* [Workers -> "none" (a plain thread) | "due" (not constructed
               \*             yet) | "armed" | "running" | "done"]
  requested,   \* SUBSET Workers  whose jthread's stop_state has a stop request
  last,        \* SUBSET Workers  whose atomic has got its last value
  call,        \* what the thread with the objects does
  terminated   \* BOOLEAN  std::terminate was called, or a trap was hit

threadVars == <<object, os, detached, state, callback, requested, last, call, terminated>>
allVars == <<waitVars, threadVars>>

\* handle_, or NoThread if not joinable_ (nothing reads it then), and in a jthread
\* whose stop_state source_ refers to.
Object == [handle : Workers \cup {NoThread}, source : Workers \cup {NoThread}]
Fresh == [handle |-> NoThread, source |-> NoThread]
Joinable(o) == object[o].handle # NoThread

\* A call on object o that runs a stop callback ("store", "notify") or joins,
\* and what follows: nothing, its end, or an assignment from another object.
Call == [pc : {"idle", "store", "notify", "join"}, on : Objects \cup {NoThread},
         next : {"keep", "join", "end", "move"}, from : Objects \cup {NoThread}]
Idle == [pc |-> "idle", on |-> NoThread, next |-> "keep", from |-> NoThread]

ThreadTypeOK ==
  /\ WaitTypeOK
  /\ object \in [Objects -> Object]
  /\ os \in [Workers -> {"none", "running", "ended", "gone"}]
  /\ detached \subseteq Workers
  /\ state \in [Workers -> {"none", "live", "deleted"}]
  /\ callback \in [Workers -> {"none", "due", "armed", "running", "done"}]
  /\ requested \subseteq Workers /\ last \subseteq Workers
  /\ call \in Call
  /\ terminated \in BOOLEAN

NoWorker(x) == [w \in Workers |-> x]

ThreadInit ==
  /\ WaitInit
  /\ object = [o \in Objects |-> Fresh]
  /\ os = NoWorker("none")
  /\ detached = {}
  /\ state = NoWorker("none")
  /\ callback = NoWorker("none")
  /\ requested = {} /\ last = {}
  /\ call = Idle
  /\ terminated = FALSE

Ready == call = Idle /\ ~terminated

\* terminate() and __builtin_trap() end the program: nothing is left of it.
Terminate ==
  /\ terminated' = TRUE
  /\ value' = NoWorker(0) /\ waiting' = NoWorker("out") /\ owed' = {}
  /\ object' = [o \in Objects |-> Fresh]
  /\ os' = NoWorker("none") /\ state' = NoWorker("none") /\ callback' = NoWorker("none")
  /\ detached' = {} /\ requested' = {} /\ last' = {}
  /\ call' = Idle

-----------------------------------------------------------------------------
(* Starting a thread *)

\* The constructors.  The program gives the variable a new object.
Start(o, w) ==
  /\ Ready
  /\ object[o] = Fresh
  /\ os[w] = "none"
  /\ os' = [os EXCEPT ![w] = "running"]
  /\ state' = [state EXCEPT ![w] = "live"]
  /\ object' = [object EXCEPT ![o] =
       [handle |-> w, source |-> IF o \in JThreads THEN w ELSE NoThread]]
  /\ callback' = [callback EXCEPT ![w] = IF o \in JThreads THEN "due" ELSE "none"]
  /\ UNCHANGED <<waitVars, detached, requested, last, call, terminated>>

LaunchDetached(w) ==
  /\ Ready
  /\ os[w] = "none"
  /\ os' = [os EXCEPT ![w] = "running"]
  /\ state' = [state EXCEPT ![w] = "live"]
  /\ detached' = detached \cup {w}
  /\ UNCHANGED <<waitVars, object, callback, requested, last, call, terminated>>

-----------------------------------------------------------------------------
(* The started thread *)

Running(w) == os[w] = "running" /\ ~terminated

\* A callback that is constructed after the request runs at once.
Register(w) ==
  /\ Running(w)
  /\ callback[w] = "due"
  /\ IF w \in requested
     THEN /\ callback' = [callback EXCEPT ![w] = "done"]
          /\ Stored(w, 1)
          /\ last' = last \cup {w}
     ELSE /\ callback' = [callback EXCEPT ![w] = "armed"]
          /\ UNCHANGED <<value, last>>
  /\ UNCHANGED <<waiting, owed, object, os, detached, state, requested, call, terminated>>

\* The function waits on the atomic, with its callback registered.
EnterWait(w) ==
  Running(w) /\ callback[w] # "due" /\ CallWait(w) /\ UNCHANGED threadVars

ContinueWait(w) == ~terminated /\ (Load(w) \/ WaitPlatform(w)) /\ UNCHANGED threadVars

Spurious(w) == ~terminated /\ WakeEarly(w) /\ UNCHANGED threadVars

Over(w) ==
  /\ Running(w)
  /\ waiting[w] = "out"
  /\ callback[w] # "running"
  /\ os' = [os EXCEPT ![w] = IF w \in detached THEN "gone" ELSE "ended"]
  /\ callback' = [callback EXCEPT ![w] = "done"]
  /\ UNCHANGED <<waitVars, object, detached, requested, last, call, terminated>>

\* run() returns: pthread_cleanup_pop(1) calls the handler.
End(w) == Over(w) /\ state' = [state EXCEPT ![w] = "deleted"]

\* MUTANT: the state is deleted after run(), without a handler.
UnwindUncleaned(w) == Over(w) /\ UNCHANGED state

\* The thread is cancelled (thread::native_handle), or calls pthread_exit: it
\* unwinds out of run() and through the handler.
Unwind(w) == Over(w) /\ state' = [state EXCEPT ![w] = "deleted"]

-----------------------------------------------------------------------------
(* Other threads of the program: stores and notifications *)

StoreAny(w) ==
  /\ Running(w)
  /\ w \notin last
  /\ Store(w, 1 - value[w])
  /\ UNCHANGED threadVars

StoreLast(w) ==
  /\ Running(w)
  /\ w \notin last
  /\ Store(w, 1)
  /\ last' = last \cup {w}
  /\ UNCHANGED <<object, os, detached, state, callback, requested, call, terminated>>

NotifyLater(w) == ~terminated /\ Notify(w) /\ UNCHANGED threadVars

-----------------------------------------------------------------------------
(* Thread objects *)

\* MUTANT: the object that was moved from is still joinable.
MovedStillJoinable(o, g) == [object EXCEPT ![o] = object[g], ![g].source = NoThread]

Moved(o, g) == [object EXCEPT ![o] = object[g], ![g] = Fresh]

\* MUTANT: the source may have no stop_state, which request_stop does not check.
RequestStopUnchecked(o, next, from) ==
  LET s == object[o].source
      runs == s # NoThread /\ s \notin requested /\ callback[s] = "armed"
  IN
  /\ requested' = requested \cup {s}
  /\ callback' = IF runs THEN [callback EXCEPT ![s] = "running"] ELSE callback
  /\ call' = IF next = "keep" /\ ~runs THEN Idle
             ELSE [pc |-> IF runs THEN "store" ELSE "join", on |-> o, next |-> next, from |-> from]
  /\ UNCHANGED <<waitVars, object, os, detached, state, last, terminated>>

\* request_stop on the source of o, and what follows in the same call.
RequestStop(o, next, from) ==
  LET s == object[o].source
      runs == s # NoThread /\ s \notin requested /\ callback[s] = "armed"
  IN
  /\ requested' = requested \cup ({s} \ {NoThread})
  /\ callback' = IF runs THEN [callback EXCEPT ![s] = "running"] ELSE callback
  /\ call' = IF next = "keep" /\ ~runs THEN Idle
             ELSE [pc |-> IF runs THEN "store" ELSE "join", on |-> o, next |-> next, from |-> from]
  /\ UNCHANGED <<waitVars, object, os, detached, state, last, terminated>>

\* jthread::request_stop
Request(o) == Ready /\ o \in JThreads /\ RequestStop(o, "keep", NoThread)

\* The stop callback stores, and then notifies.
CallbackStores ==
  LET s == object[call.on].source IN
  /\ call.pc = "store" /\ ~terminated
  /\ Stored(s, 1)
  /\ last' = last \cup {s}
  /\ call' = [call EXCEPT !.pc = "notify"]
  /\ UNCHANGED <<waiting, owed, object, os, detached, state, callback, requested, terminated>>

CallbackNotifies ==
  LET s == object[call.on].source IN
  /\ call.pc = "notify" /\ ~terminated
  /\ waiting' = Woken(s)
  /\ callback' = [callback EXCEPT ![s] = "done"]
  /\ call' = IF call.next = "keep" THEN Idle ELSE [call EXCEPT !.pc = "join"]
  /\ UNCHANGED <<value, owed, object, os, detached, state, requested, last, terminated>>

\* The program joins a thread whose function will end.
Join(o) ==
  /\ Ready
  /\ Joinable(o)
  /\ os[object[o].handle] = "ended" \/ object[o].handle \in last \cup requested
  /\ call' = [pc |-> "join", on |-> o, next |-> "join", from |-> NoThread]
  /\ UNCHANGED <<waitVars, object, os, detached, state, callback, requested, last, terminated>>

\* pthread_join returns, and the call ends or goes on.
Joined ==
  LET o == call.on
      w == object[o].handle
  IN
  /\ call.pc = "join" /\ ~terminated
  /\ os[w] = "ended"
  /\ os' = [os EXCEPT ![w] = "gone"]
  /\ object' = CASE call.next = "join" -> [object EXCEPT ![o].handle = NoThread]
                 [] call.next = "end" -> [object EXCEPT ![o] = Fresh]
                 [] call.next = "move" -> Moved(o, call.from)
  /\ call' = Idle
  /\ UNCHANGED <<waitVars, detached, state, callback, requested, last, terminated>>

Detach(o) ==
  LET w == object[o].handle IN
  /\ Ready
  /\ Joinable(o)
  /\ detached' = detached \cup {w}
  /\ os' = [os EXCEPT ![w] = IF @ = "ended" THEN "gone" ELSE @]
  /\ object' = [object EXCEPT ![o].handle = NoThread]
  /\ UNCHANGED <<waitVars, state, callback, requested, last, call, terminated>>

\* Move construction and assignment, between objects of one type.
MoveAssign(o, g) ==
  /\ Ready
  /\ o # g /\ (o \in JThreads <=> g \in JThreads)
  /\ IF ~Joinable(o)
     THEN /\ object' = Moved(o, g)
          /\ UNCHANGED <<waitVars, os, detached, state, callback, requested, last, call, terminated>>
     ELSE IF o \in JThreads THEN RequestStop(o, "move", g) ELSE Terminate

\* The destructor, after which the variable can get a new object.
DestroyObject(o) ==
  /\ Ready
  /\ object[o] # Fresh
  /\ IF ~Joinable(o)
     THEN /\ object' = [object EXCEPT ![o] = Fresh]
          /\ UNCHANGED <<waitVars, os, detached, state, callback, requested, last, call, terminated>>
     ELSE IF o \in JThreads THEN RequestStop(o, "end", NoThread) ELSE Terminate

\* join and detach of an object that is not joinable.
JoinNothing(o) == Ready /\ ~Joinable(o) /\ Terminate

-----------------------------------------------------------------------------
OfWorker(w) ==
  \/ Register(w) \/ EnterWait(w) \/ ContinueWait(w) \/ Spurious(w) \/ End(w) \/ Unwind(w)
  \/ StoreAny(w) \/ StoreLast(w) \/ NotifyLater(w) \/ LaunchDetached(w)

OfObject(o) ==
  \/ Request(o) \/ Join(o) \/ Detach(o) \/ DestroyObject(o) \/ JoinNothing(o)
  \/ \E w \in Workers : Start(o, w)
  \/ \E g \in Objects : MoveAssign(o, g)

ThreadNext ==
  \/ \E w \in Workers : OfWorker(w)
  \/ \E o \in Objects : OfObject(o)
  \/ CallbackStores \/ CallbackNotifies \/ Joined

ThreadSpec == ThreadInit /\ [][ThreadNext]_allVars

\* Threads are scheduled; a notification that the program owes comes; a
\* function ends once its waits do (it may enter others before).
FairThreadSpec ==
  /\ ThreadSpec
  /\ WF_allVars(CallbackStores) /\ WF_allVars(CallbackNotifies) /\ WF_allVars(Joined)
  /\ \A w \in Workers :
       /\ WF_allVars(Register(w)) /\ WF_allVars(ContinueWait(w)) /\ WF_allVars(NotifyLater(w))
       /\ SF_allVars(End(w))

-----------------------------------------------------------------------------
(* The state that a thread runs on is there as long as it runs, and is     *)
(* deleted by then however it ends (returns or is cancelled) and whatever  *)
(* became of the object: __start with its cleanup handler.                 *)
StateExact ==
  \A w \in Workers : /\ state[w] = "live" <=> os[w] = "running"
                     /\ state[w] = "none" <=> os[w] = "none"

(* A thread that was not detached or joined has exactly one object to join *)
(* it with, every other thread none; and a jthread's source is the one     *)
(* whose tokens its thread has, so that its destructor stops the thread    *)
(* that it joins.                                                          *)
ObjectsExact ==
  /\ \A w \in Workers :
       Cardinality({o \in Objects : object[o].handle = w})
         = IF os[w] \in {"running", "ended"} /\ w \notin detached THEN 1 ELSE 0
  /\ \A o \in JThreads : Joinable(o) => object[o].source = object[o].handle

(* The state a thread runs on is there as long as it runs, and there is    *)
(* exactly one object to join it with until it is joined or detached       *)
(* (thread::__start, and the moves of thread and jthread).                 *)
ThreadsExact == ThreadTypeOK /\ StateExact /\ ObjectsExact

(* A join of a function that was told to end returns, and so do the        *)
(* destructor and the assignment of a jthread: no wait sleeps through the  *)
(* store and the notification that should end it.                          *)
JoinReturns == call.pc # "idle" ~> call.pc = "idle" \/ terminated
=============================================================================
