------------------------------- MODULE MCWaits -------------------------------
(***************************************************************************)
(* Small instances for TLC of the two components in which a thread sleeps  *)
(* until another one has done something, one of them per behaviour: stop   *)
(* states, whose callbacks are waited for by destructors (StopToken), and  *)
(* condition_variable_any (CondVar).                                       *)
(***************************************************************************)
EXTENDS CondVar

CONSTANTS States, Callbacks, MaxDepth, MaxEpoch, MaxHandles, EagerReuse

VARIABLES
  component,  \* "stop" or "condition"
  requested, callbacks, references, sources, tokens,
  obj, state_, registered, running, epoch, stop_pc, arg, depth, frame

stop_vars == <<requested, callbacks, references, sources, tokens,
               obj, state_, registered, running, epoch, stop_pc, arg, depth, frame>>

S == INSTANCE StopToken WITH refs <- references, pc <- stop_pc

MCInit == component \in {"stop", "condition"} /\ Init /\ S!Init

MCNext ==
  /\ UNCHANGED component
  /\ \/ component = "stop" /\ S!Next /\ UNCHANGED vars
     \/ component = "condition" /\ Next /\ UNCHANGED stop_vars

MCSpec ==
  /\ MCInit /\ [][MCNext]_<<component, vars, stop_vars>>
  /\ Fairness /\ \A t \in Threads : WF_stop_vars(S!Proceed(t))

\* Every callback armed on a stopped state is called, or destroyed in time (StopToken).
PromiseServed == S!PromiseServed

\* A destructor that waits for a call ends (StopToken).
DestroyEnds == S!DestroyEnds
=============================================================================
