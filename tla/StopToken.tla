------------------------------ MODULE StopToken ------------------------------
(***************************************************************************)
(* stop_source / stop_token / stop_callback (include/stop_token and        *)
(* src/stop_token.cpp).                                                    *)
(*                                                                         *)
(* A stop_state holds the request flag, the list of registered callbacks   *)
(* and a reference count.  Threads construct and destroy stop_callback     *)
(* objects and request a stop; request_stop runs the registered callbacks  *)
(* outside the lock, and user code running inside a callback may in turn   *)
(* construct, destroy or request.                                          *)
(*                                                                         *)
(* The mutex of a stop_state is never held across anything that blocks     *)
(* (pthread_cond_wait gives it up), so each critical section is one        *)
(* action.  The steps between which other threads can interfere are the    *)
(* ones the code separates: taking a reference before taking the lock,     *)
(* running a callback, waiting for one that runs, dropping the reference   *)
(* after the lock.                                                         *)
(*                                                                         *)
(* A callback is identified by its address: an address can be used again   *)
(* by a later object, and "epoch" (a ghost, like the runs' bounds) tells   *)
(* the objects that lived at one address apart.                            *)
(***************************************************************************)
EXTENDS Integers, Sequences, FiniteSets

CONSTANTS
  Threads,     \* threads of the program
  States,      \* stop_state objects
  Callbacks,   \* addresses of stop_callback objects
  None,        \* the null pointer
  MaxDepth,    \* bound: callbacks running inside each other on one thread
  MaxEpoch,    \* bound: objects constructed at one address
  MaxHandles,  \* bound: stop_source plus stop_token objects of one state
  EagerReuse   \* may an address be used again while a callback that was
               \* destroyed from inside its own call is still on a stack?

ASSUME StopTokenAssumption ==
  /\ None \notin Threads \cup States \cup Callbacks
  /\ IsFiniteSet(Threads) /\ IsFiniteSet(Callbacks)
  /\ MaxDepth \in Nat \ {0}
  /\ MaxEpoch \in Nat \ {0}
  /\ MaxHandles \in Nat \ {0}
  /\ EagerReuse \in BOOLEAN

VARIABLES
  requested,   \* [States -> BOOLEAN]          stop_state::stop_requested_
  callbacks,   \* [States -> Seq(Callbacks)]   stop_state::callbacks_, linked by next_
  refs,        \* [States -> Nat]              stop_state::refs_; 0: the state is freed
  sources,     \* [States -> Nat]              stop_state::sources_ = stop_source objects
  tokens,      \* [States -> Nat]              stop_token objects of the user
  obj,         \* [Callbacks -> life cycle of the object at that address]
  state_,      \* [Callbacks -> States or None]  stop_callback_base::state_
  registered,  \* [Callbacks -> BOOLEAN]       stop_callback_base::registered_
  running,     \* [Callbacks -> BOOLEAN]       stop_callback_base::running_
  epoch,       \* [Callbacks -> Nat]           objects constructed so far
  pc,          \* [Threads -> where the thread is in the innermost call]
  arg,         \* [Threads -> the callback the innermost call is about]
  depth,       \* [Threads -> 0..MaxDepth]     running callbacks of the thread
  frame        \* [Threads -> [1..MaxDepth -> Frame]]  the thread's callback frames

cbvars    == <<obj, state_, registered, running, epoch>>
statevars == <<requested, callbacks, refs, sources, tokens>>
thrvars   == <<pc, arg, depth, frame>>
vars      == <<requested, callbacks, refs, sources, tokens, obj, state_,
               registered, running, epoch, pc, arg, depth, frame>>

(***************************************************************************)
(* "invoke" is a callback_frame of request_stop: only those are on the     *)
(* thread_local list current_callback.  "inline" is the constructor        *)
(* calling the callback itself because the stop was already requested.     *)
(***************************************************************************)
Frame == [kind : {"none", "invoke", "inline"}, state : States \cup {None},
          callback : Callbacks \cup {None}, epoch : 0 .. MaxEpoch,
          destroyed : BOOLEAN]

NoFrame == [kind |-> "none", state |-> None, callback |-> None, epoch |-> 0,
            destroyed |-> FALSE]

TypeOK ==
  /\ requested \in [States -> BOOLEAN]
  /\ callbacks \in [States -> Seq(Callbacks)]
  /\ refs \in [States -> Int]
  /\ sources \in [States -> Nat]
  /\ tokens \in [States -> Nat]
  /\ obj \in [Callbacks -> {"free", "constructing", "alive", "destroying"}]
  /\ state_ \in [Callbacks -> States \cup {None}]
  /\ registered \in [Callbacks -> BOOLEAN]
  /\ running \in [Callbacks -> BOOLEAN]
  /\ epoch \in [Callbacks -> 0 .. MaxEpoch]
  /\ pc \in [Threads -> {"user", "construct", "wait", "release"}]
  /\ arg \in [Threads -> Callbacks \cup {None}]
  /\ depth \in [Threads -> 0 .. MaxDepth]
  /\ frame \in [Threads -> [1 .. MaxDepth -> Frame]]

-----------------------------------------------------------------------------
(* The list of registered callbacks. *)

IsIn(c, list) == \E i \in 1 .. Len(list) : list[i] = c

\* remove_callback: unlinks the target if the list has it.
remove_callback(list, target) ==
  IF IsIn(target, list)
  THEN LET i == CHOOSE k \in 1 .. Len(list) : list[k] = target
       IN  [k \in 1 .. Len(list) - 1 |-> IF k < i THEN list[k] ELSE list[k + 1]]
  ELSE list

(* The callback frames of a thread. *)

\* MUTANT: current_callback is not thread_local.
InFramesShared(t, c) ==
  {i \in 1 .. MaxDepth : \E u \in Threads :
     i <= depth[u] /\ frame[u][i].kind = "invoke" /\ frame[u][i].callback = c}

InFrames(t, c) ==
  {i \in 1 .. depth[t] : frame[t][i].kind = "invoke" /\ frame[t][i].callback = c}

Top(t) == frame[t][depth[t]]

Marked(f) == [kind |-> f.kind, state |-> f.state, callback |-> f.callback,
              epoch |-> f.epoch, destroyed |-> TRUE]

\* mark_destroyed_if_current walks from the innermost frame outwards and
\* marks the first one that names the target.
mark_destroyed(t, c) ==
  LET i == CHOOSE k \in InFrames(t, c) : \A j \in InFrames(t, c) : j <= k
  IN  [frame EXCEPT ![t][i] = Marked(@)]

InUserCode(t) == pc[t] = "user"

-----------------------------------------------------------------------------
(* stop_source and stop_token objects, as counts per state. *)

\* A stop_source or a jthread is the thread that is in request_stop through it.
InRequest(s) ==
  \E t \in Threads : \E i \in 1 .. depth[t] :
    frame[t][i].kind = "invoke" /\ frame[t][i].state = s

\* MUTANT: the copy constructor counts the source and takes no reference.
CopySourceNoRef(s) ==
  /\ sources[s] > 0
  /\ sources[s] + tokens[s] < MaxHandles
  /\ sources' = [sources EXCEPT ![s] = @ + 1]
  /\ UNCHANGED <<requested, callbacks, refs, tokens, cbvars, thrvars>>

CopySource(s) ==
  /\ sources[s] > 0
  /\ sources[s] + tokens[s] < MaxHandles
  /\ refs' = [refs EXCEPT ![s] = @ + 1]
  /\ sources' = [sources EXCEPT ![s] = @ + 1]
  /\ UNCHANGED <<requested, callbacks, tokens, cbvars, thrvars>>

\* stop_source::get_token, and copying a stop_token.
GetToken(s) ==
  /\ sources[s] + tokens[s] > 0
  /\ sources[s] + tokens[s] < MaxHandles
  /\ refs' = [refs EXCEPT ![s] = @ + 1]
  /\ tokens' = [tokens EXCEPT ![s] = @ + 1]
  /\ UNCHANGED <<requested, callbacks, sources, cbvars, thrvars>>

\* The source through which request_stop was called outlives the call.
DropSource(s) ==
  /\ sources[s] > (IF InRequest(s) THEN 1 ELSE 0)
  /\ sources' = [sources EXCEPT ![s] = @ - 1]
  /\ refs' = [refs EXCEPT ![s] = @ - 1]
  /\ UNCHANGED <<requested, callbacks, tokens, cbvars, thrvars>>

\* MUTANT: a moved-from token still points to the state and releases it too.
DropTokenMoved(s) ==
  /\ tokens' = [tokens EXCEPT ![s] = @ - 1]
  /\ refs' = [refs EXCEPT ![s] = @ - 1]
  /\ UNCHANGED <<requested, callbacks, sources, cbvars, thrvars>>

DropToken(s) ==
  /\ tokens[s] > 0
  /\ tokens' = [tokens EXCEPT ![s] = @ - 1]
  /\ refs' = [refs EXCEPT ![s] = @ - 1]
  /\ UNCHANGED <<requested, callbacks, sources, cbvars, thrvars>>

-----------------------------------------------------------------------------
(* stop_source::request_stop *)

\* The loop goes on while there is a callback on the list.
\* MUTANT: an if instead of the loop.
MoreNever(s) == FALSE

More(s) == callbacks[s] # <<>>

\* Takes the head of the list and calls it outside the lock, in a new frame
\* at position d of the thread's stack.
TakeNext(t, s, d, running1) ==
  LET c == Head(callbacks[s]) IN
  /\ callbacks' = [callbacks EXCEPT ![s] = Tail(@)]
  /\ registered' = [registered EXCEPT ![c] = FALSE]
  /\ running' = [running1 EXCEPT ![c] = TRUE]
  /\ depth' = [depth EXCEPT ![t] = d]
  /\ frame' = [frame EXCEPT ![t][d] =
                 [kind |-> "invoke", state |-> s, callback |-> c,
                  epoch |-> epoch[c], destroyed |-> FALSE]]

\* The first request: sets the flag and takes the first callback, if any.
RequestStop(t, s) ==
  /\ InUserCode(t)
  /\ depth[t] < MaxDepth
  /\ sources[s] > 0
  /\ ~requested[s]
  /\ requested' = [requested EXCEPT ![s] = TRUE]
  /\ \/ /\ callbacks[s] # <<>>
        /\ TakeNext(t, s, depth[t] + 1, running)
     \/ /\ callbacks[s] = <<>>
        /\ UNCHANGED <<callbacks, registered, running, depth, frame>>
  /\ UNCHANGED <<refs, sources, tokens, obj, state_, epoch, pc, arg>>

\* The callback returned.  Unless it destroyed itself, its destructor is told
\* that it no longer runs.
\* MUTANT: running_ is not reset.
StopRunningForgets(t) == running

StopRunning(t) ==
  IF Top(t).destroyed THEN running
  ELSE [running EXCEPT ![Top(t).callback] = FALSE]

\* Then the next one is taken, or the call returns.
InvokeReturn(t) ==
  /\ InUserCode(t)
  /\ depth[t] > 0
  /\ Top(t).kind = "invoke"
  /\ LET s == Top(t).state
     IN  \/ /\ More(s)
            /\ TakeNext(t, s, depth[t], StopRunning(t))
         \/ /\ ~More(s)
            /\ running' = StopRunning(t)
            /\ depth' = [depth EXCEPT ![t] = @ - 1]
            /\ frame' = [frame EXCEPT ![t][depth[t]] = NoFrame]
            /\ UNCHANGED <<callbacks, registered>>
  /\ UNCHANGED <<requested, refs, sources, tokens, obj, state_, epoch, pc, arg>>

-----------------------------------------------------------------------------
(* The constructor of stop_callback *)

\* Takes a reference to the token's state before it takes the lock.  The user
\* constructs at an address that holds no object.
BeginConstruct(t, s, c) ==
  /\ InUserCode(t)
  /\ depth[t] < MaxDepth
  /\ sources[s] + tokens[s] > 0
  /\ obj[c] = "free"
  /\ epoch[c] < MaxEpoch
  /\ EagerReuse \/ \A u \in Threads : InFrames(u, c) = {}
  /\ obj' = [obj EXCEPT ![c] = "constructing"]
  /\ epoch' = [epoch EXCEPT ![c] = @ + 1]
  /\ state_' = [state_ EXCEPT ![c] = s]
  /\ registered' = [registered EXCEPT ![c] = FALSE]
  /\ running' = [running EXCEPT ![c] = FALSE]
  /\ refs' = [refs EXCEPT ![s] = @ + 1]
  /\ pc' = [pc EXCEPT ![t] = "construct"]
  /\ arg' = [arg EXCEPT ![t] = c]
  /\ UNCHANGED <<requested, callbacks, sources, tokens, depth, frame>>

Link(t) ==
  LET c == arg[t]
      s == state_[c]
  IN
  /\ obj' = [obj EXCEPT ![c] = "alive"]
  /\ registered' = [registered EXCEPT ![c] = TRUE]
  /\ callbacks' = [callbacks EXCEPT ![s] = <<c>> \o @]
  /\ pc' = [pc EXCEPT ![t] = "user"]
  /\ arg' = [arg EXCEPT ![t] = None]
  /\ UNCHANGED <<requested, refs, sources, tokens, state_, running, epoch,
                 depth, frame>>

\* No stop requested yet: the callback goes to the head of the list.
\* MUTANT: the flag was tested before the lock was taken.
RegisterUnchecked(t) == pc[t] = "construct" /\ Link(t)

Register(t) ==
  /\ pc[t] = "construct"
  /\ ~requested[state_[arg[t]]]
  /\ Link(t)

\* Stop already requested: the constructor calls the callback itself.  The
\* object's state_ stays null; the reference is held by the release guard.
CallInline(t) ==
  LET c == arg[t]
      s == state_[c]
  IN
  /\ pc[t] = "construct"
  /\ requested[s]
  /\ state_' = [state_ EXCEPT ![c] = None]
  /\ depth' = [depth EXCEPT ![t] = @ + 1]
  /\ frame' = [frame EXCEPT ![t][depth[t] + 1] =
                 [kind |-> "inline", state |-> s, callback |-> c,
                  epoch |-> epoch[c], destroyed |-> FALSE]]
  /\ pc' = [pc EXCEPT ![t] = "user"]
  /\ arg' = [arg EXCEPT ![t] = None]
  /\ UNCHANGED <<statevars, obj, registered, running, epoch>>

InlineReturn(t) ==
  /\ InUserCode(t)
  /\ depth[t] > 0
  /\ Top(t).kind = "inline"
  /\ refs' = [refs EXCEPT ![Top(t).state] = @ - 1]
  /\ obj' = [obj EXCEPT ![Top(t).callback] = "alive"]
  /\ depth' = [depth EXCEPT ![t] = @ - 1]
  /\ frame' = [frame EXCEPT ![t][depth[t]] = NoFrame]
  /\ UNCHANGED <<requested, callbacks, sources, tokens, state_, registered,
                 running, epoch, pc, arg>>

-----------------------------------------------------------------------------
(* The destructor of stop_callback *)

\* Never registered: there is nothing to undo.
DestroyDetached(t, c) ==
  /\ InUserCode(t)
  /\ obj[c] = "alive"
  /\ state_[c] = None
  /\ obj' = [obj EXCEPT ![c] = "free"]
  /\ UNCHANGED <<statevars, state_, registered, running, epoch, thrvars>>

\* Unlinks the callback; waits if it runs, unless it runs on this thread.
BeginDestroy(t, c) ==
  LET s == state_[c] IN
  /\ InUserCode(t)
  /\ obj[c] = "alive"
  /\ s # None
  /\ obj' = [obj EXCEPT ![c] = "destroying"]
  /\ callbacks' = IF registered[c]
                  THEN [callbacks EXCEPT ![s] = remove_callback(@, c)]
                  ELSE callbacks
  /\ registered' = [registered EXCEPT ![c] = FALSE]
  /\ arg' = [arg EXCEPT ![t] = c]
  /\ \/ /\ InFrames(t, c) # {}
        /\ frame' = mark_destroyed(t, c)
        /\ pc' = [pc EXCEPT ![t] = "release"]
     \/ /\ InFrames(t, c) = {}
        /\ pc' = [pc EXCEPT ![t] = IF running[c] THEN "wait" ELSE "release"]
        /\ UNCHANGED frame
  /\ UNCHANGED <<requested, refs, sources, tokens, state_, running, epoch, depth>>

\* The loop around pthread_cond_wait ends when running_ is false.
WaitDone(t) ==
  /\ pc[t] = "wait"
  /\ ~running[arg[t]]
  /\ pc' = [pc EXCEPT ![t] = "release"]
  /\ UNCHANGED <<statevars, cbvars, arg, depth, frame>>

\* The lock is given up, the reference dropped, the object gone.
EndDestroy(t) ==
  LET c == arg[t]
      s == state_[c]
  IN
  /\ pc[t] = "release"
  /\ refs' = [refs EXCEPT ![s] = @ - 1]
  /\ obj' = [obj EXCEPT ![c] = "free"]
  /\ state_' = [state_ EXCEPT ![c] = None]
  /\ pc' = [pc EXCEPT ![t] = "user"]
  /\ arg' = [arg EXCEPT ![t] = None]
  /\ UNCHANGED <<requested, callbacks, sources, tokens, registered, running,
                 epoch, depth, frame>>

-----------------------------------------------------------------------------
Init ==
  /\ requested = [s \in States |-> FALSE]
  /\ callbacks = [s \in States |-> <<>>]
  /\ refs = [s \in States |-> 1]
  /\ sources = [s \in States |-> 1]
  /\ tokens = [s \in States |-> 0]
  /\ obj = [c \in Callbacks |-> "free"]
  /\ state_ = [c \in Callbacks |-> None]
  /\ registered = [c \in Callbacks |-> FALSE]
  /\ running = [c \in Callbacks |-> FALSE]
  /\ epoch = [c \in Callbacks |-> 0]
  /\ pc = [t \in Threads |-> "user"]
  /\ arg = [t \in Threads |-> None]
  /\ depth = [t \in Threads |-> 0]
  /\ frame = [t \in Threads |-> [i \in 1 .. MaxDepth |-> NoFrame]]

\* What the library does on its own once the user called it; a callback's
\* return is among them.
Proceed(t) ==
  \/ InvokeReturn(t)
  \/ Register(t)
  \/ CallInline(t)
  \/ InlineReturn(t)
  \/ WaitDone(t)
  \/ EndDestroy(t)

\* What the user may call.
UserCall(t) ==
  \/ \E s \in States : RequestStop(t, s)
  \/ \E s \in States, c \in Callbacks : BeginConstruct(t, s, c)
  \/ \E c \in Callbacks : DestroyDetached(t, c)
  \/ \E c \in Callbacks : BeginDestroy(t, c)

Handles ==
  \E s \in States : CopySource(s) \/ GetToken(s) \/ DropSource(s) \/ DropToken(s)

\* Every call has returned: the program may stop here.
Quiet ==
  /\ \A t \in Threads : pc[t] = "user" /\ depth[t] = 0
  /\ UNCHANGED vars

Next ==
  \/ \E t \in Threads : Proceed(t) \/ UserCall(t)
  \/ Handles
  \/ Quiet

Spec == Init /\ [][Next]_vars

\* Threads are scheduled and callbacks return.
FairSpec == Spec /\ \A t \in Threads : WF_vars(Proceed(t))

-----------------------------------------------------------------------------
(* What makes it correct. *)

\* A frame in which the callback's own object must still exist.
IsLive(f) == f.epoch = epoch[f.callback] /\ ~f.destroyed

Callers(c) ==
  {t \in Threads : \E i \in 1 .. depth[t] :
     frame[t][i].callback = c /\ IsLive(frame[t][i])}

\* A callback object is not gone, and no other object has taken its place,
\* while a call of it is on a stack, unless the callback destroyed itself in
\* that call: the destructor (include/stop_token:135-151) waits for a call on
\* another thread, and request_stop does not touch a destroyed callback.
RunSafe ==
  \A t \in Threads : \A i \in 1 .. depth[t] :
    LET f == frame[t][i] IN
    ~f.destroyed => obj[f.callback] # "free" /\ f.epoch = epoch[f.callback]

\* A destructor blocks only while another thread is still inside the call, of
\* this very object, that will clear running_ and wake it.
WaitIsForACall ==
  \A t \in Threads : (pc[t] = "wait" /\ running[arg[t]]) =>
    \E u \in Threads \ {t} : \E i \in 1 .. depth[u] :
      /\ frame[u][i].kind = "invoke"
      /\ frame[u][i].callback = arg[t]
      /\ IsLive(frame[u][i])

\* After a request, a callback is left on the list only while the thread that
\* made the request is still in its loop: no registration slips in behind the
\* loop's last look at the list.
NoneLeftBehind ==
  \A s \in States : (requested[s] /\ callbacks[s] # <<>>) => InRequest(s)

\* The reference count of a stop_state is the number of its stop_source and
\* stop_token objects, callbacks that point to it and constructors inside an
\* inline call, so it is freed exactly when the last of them has let go, and
\* is never used after that.
RefsExact ==
  \A s \in States :
    refs[s] = sources[s] + tokens[s]
              + Cardinality({c \in Callbacks : state_[c] = s})
              + Cardinality({f \in Threads \X (1 .. MaxDepth) :
                               /\ f[2] <= depth[f[1]]
                               /\ frame[f[1]][f[2]].kind = "inline"
                               /\ frame[f[1]][f[2]].state = s})

\* Types, counts and lists together: each state is freed exactly when the last
\* object lets go, and no registration slips in behind a request's last look at
\* the list (request_stop, ~stop_callback, ~stop_source).
StatesExact == TypeOK /\ NoneLeftBehind /\ RefsExact

\* A destructor that waits for a call of its callback always gets to its end
\* (when each callback returns): the thread that runs the callback tells it.
DestroyEnds == \A t \in Threads : pc[t] = "wait" ~> pc[t] # "wait"

\* The promise of StopPromise, with "called" read off the stacks and
\* "destroying" counted as gone from the moment nothing is left to wait for.
phase == [c \in Callbacks |->
  IF Callers(c) # {} THEN "called"
  ELSE IF obj[c] = "alive" THEN IF registered[c] THEN "armed" ELSE "done"
  ELSE IF obj[c] = "destroying" /\ \E t \in Threads : pc[t] = "wait" /\ arg[t] = c THEN "done"
  ELSE "none"]

Promise == INSTANCE StopPromise WITH
  stop   <- requested,
  phase  <- phase,
  on     <- [c \in Callbacks |-> IF phase[c] = "none" THEN None ELSE state_[c]],
  caller <- [c \in Callbacks |-> IF Callers(c) = {} THEN None
                                 ELSE CHOOSE t \in Callers(c) : TRUE]

\* stop_source and stop_callback keep the promise of StopPromise: at most one
\* call, only after a request, never cut off by another thread's destructor.
PromiseKept == Promise!Spec

\* Every callback armed on a stopped state is called, or destroyed in time.
PromiseServed == Promise!Served

=============================================================================
