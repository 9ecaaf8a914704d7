----------------------------- MODULE StopPromise -----------------------------
(***************************************************************************)
(* What stop_source / stop_callback promise to the program, callback by    *)
(* callback, without locks, lists, flags or reference counts:              *)
(*   - a callback is called at most once, and only after a stop request;   *)
(*   - a call is never cut off by the destruction of the callback, unless  *)
(*     the call itself destroys it;                                        *)
(*   - a callback that is armed when the stop is requested is called, or   *)
(*     destroyed before its turn comes.                                    *)
(***************************************************************************)
CONSTANTS Threads, States, Callbacks, None

VARIABLES
  stop,    \* [States -> BOOLEAN]: has a stop been requested?
  phase,   \* [Callbacks -> "none" | "armed" | "called" | "done"]
  on,      \* [Callbacks -> the state the callback is armed on, or None]
  caller   \* [Callbacks -> the thread that runs the call, or None]

vars == <<stop, phase, on, caller>>

Init ==
  /\ stop = [s \in States |-> FALSE]
  /\ phase = [c \in Callbacks |-> "none"]
  /\ on = [c \in Callbacks |-> None]
  /\ caller = [c \in Callbacks |-> None]

Becomes(c, p, s, t) == phase'[c] = p /\ on'[c] = s /\ caller'[c] = t

Keep(c) == Becomes(c, phase[c], on[c], caller[c])

Arm(c) ==
  /\ phase[c] = "none"
  /\ \E s \in States : ~stop[s] /\ Becomes(c, "armed", s, None)

\* The constructor calls a callback that came after the request itself.
CallAtOnce(c, self) ==
  /\ phase[c] = "none"
  /\ \E s \in States : stop[s]
  /\ Becomes(c, "called", None, self)

Call(c, self) ==
  /\ phase[c] = "armed"
  /\ stop'[on[c]]
  /\ Becomes(c, "called", on[c], self)

Return(c, self) ==
  /\ phase[c] = "called"
  /\ caller[c] = self
  /\ Becomes(c, "done", on[c], None)

Destroy(c) == phase[c] \in {"armed", "done"} /\ Becomes(c, "none", None, None)

DestroyOwn(c, self) ==
  /\ phase[c] = "called"
  /\ caller[c] = self
  /\ Becomes(c, "none", None, None)

\* A step of thread "self" takes each callback through at most one of these.
Step(self) ==
  /\ stop' \in [States -> BOOLEAN]
  /\ phase' \in [Callbacks -> {"none", "armed", "called", "done"}]
  /\ on' \in [Callbacks -> States \cup {None}]
  /\ caller' \in [Callbacks -> Threads \cup {None}]
  /\ \A s \in States : stop[s] => stop'[s]
  /\ \A c \in Callbacks :
       \/ Keep(c)
       \/ Arm(c)
       \/ CallAtOnce(c, self)
       \/ Call(c, self)
       \/ Return(c, self)
       \/ Destroy(c)
       \/ DestroyOwn(c, self)

Next == \E self \in Threads : Step(self)

Spec == Init /\ [][Next]_vars

\* Every callback armed on a stopped state leaves that phase.
Served ==
  \A s \in States, c \in Callbacks :
    (stop[s] /\ phase[c] = "armed" /\ on[c] = s) ~> (phase[c] # "armed" \/ on[c] # s)

=============================================================================
