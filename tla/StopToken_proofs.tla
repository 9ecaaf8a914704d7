--------------------------- MODULE StopToken_proofs ---------------------------
(***************************************************************************)
(* Theorems about StopToken for every number of threads, states,           *)
(* callbacks, nested calls and objects per address: types, RunSafe,        *)
(* WaitIsForACall, StatesExact, and that it implements StopPromise.        *)
(***************************************************************************)
EXTENDS StopToken, FiniteSetTheorems, TLAPS

(***************************************************************************)
(* The strengthening.  RunSafe follows from FrameInv; the rest is what     *)
(* keeps FrameInv true.                                                    *)
(***************************************************************************)

\* Every frame names an object of the right life cycle, and there is at most
\* one frame per callback.
FrameInv ==
  /\ \A t \in Threads : \A i \in 1 .. depth[t] :
       LET f == frame[t][i] IN
       /\ f.kind \in {"invoke", "inline"}
       /\ f.callback \in Callbacks
       /\ f.state \in States
       /\ f.epoch = epoch[f.callback]
       /\ ~registered[f.callback]
       /\ f.kind = "inline" =>
            ~f.destroyed /\ obj[f.callback] = "constructing" /\ ~running[f.callback]
       /\ f.kind = "invoke" /\ ~f.destroyed =>
            /\ obj[f.callback] \in {"alive", "destroying"}
            /\ running[f.callback]
            /\ state_[f.callback] = f.state
  /\ \A t, u \in Threads : \A i \in 1 .. depth[t], j \in 1 .. depth[u] :
       frame[t][i].callback = frame[u][j].callback => t = u /\ i = j

\* The list holds each registered callback once.
ListInv ==
  \A s \in States :
    /\ \A i \in 1 .. Len(callbacks[s]) :
         LET c == callbacks[s][i] IN
         registered[c] /\ obj[c] = "alive" /\ state_[c] = s
    /\ \A i, j \in 1 .. Len(callbacks[s]) :
         callbacks[s][i] = callbacks[s][j] => i = j

\* The call a thread is in concerns a callback of the right life cycle, and no
\* other thread's call concerns the same one.
PcInv ==
  /\ \A t \in Threads : pc[t] # "user" =>
       /\ arg[t] \in Callbacks
       /\ state_[arg[t]] \in States
       /\ ~registered[arg[t]]
       /\ pc[t] = "construct" =>
            /\ obj[arg[t]] = "constructing"
            /\ depth[t] < MaxDepth
            /\ ~running[arg[t]]
            /\ \A u \in Threads : \A i \in 1 .. depth[u] :
                 frame[u][i].callback # arg[t]
       /\ pc[t] \in {"wait", "release"} => obj[arg[t]] = "destroying"
       /\ pc[t] = "wait" =>
            \A i \in 1 .. depth[t] : frame[t][i].callback # arg[t]
       /\ pc[t] = "release" =>
            \A u \in Threads : \A i \in 1 .. depth[u] :
              frame[u][i].callback = arg[t] => frame[u][i].destroyed
  /\ \A t, u \in Threads :
       pc[t] # "user" /\ pc[u] # "user" /\ arg[t] = arg[u] => t = u

\* running_ is true only while a call is on a stack, until the object is gone.
RunInv ==
  \A c \in Callbacks :
    (running[c] /\ (obj[c] = "alive" \/ \E t \in Threads : pc[t] = "wait" /\ arg[t] = c)) =>
      \E u \in Threads : \E i \in 1 .. depth[u] :
        /\ frame[u][i].kind = "invoke"
        /\ frame[u][i].callback = c
        /\ ~frame[u][i].destroyed

IInv == TypeOK /\ FrameInv /\ ListInv /\ PcInv /\ RunInv

-----------------------------------------------------------------------------
(* Operators. *)

\* remove_callback keeps the list a list, in which every element and every
\* pair of elements is one of the old list, and removes the target.
LEMMA RemoveCallback ==
  ASSUME NEW list \in Seq(Callbacks), NEW c
  PROVE  LET new == remove_callback(list, c) IN
         /\ new \in Seq(Callbacks)
         /\ \A i \in 1 .. Len(new) : \E k \in 1 .. Len(list) : new[i] = list[k]
         /\ (\A i, j \in 1 .. Len(list) : list[i] = list[j] => i = j) =>
              /\ \A i, j \in 1 .. Len(new) : new[i] = new[j] => i = j
              /\ \A i \in 1 .. Len(new) : new[i] # c
<1>. DEFINE new == remove_callback(list, c)
<1>1. CASE ~IsIn(c, list)
  BY <1>1 DEF remove_callback, IsIn
<1>2. CASE IsIn(c, list)
  <2>. DEFINE i == CHOOSE k \in 1 .. Len(list) : list[k] = c
              f == [k \in 1 .. Len(list) - 1 |-> IF k < i THEN list[k] ELSE list[k + 1]]
  <2>1. i \in 1 .. Len(list) /\ list[i] = c
    BY <1>2 DEF IsIn
  <2>2. new = f
    BY <1>2 DEF remove_callback
  <2>. HIDE DEF i
  <2>3. Len(list) - 1 \in Nat
    BY <2>1
  <2>4. f \in [1 .. Len(list) - 1 -> Callbacks]
    BY <2>1
  <2>5. f \in Seq(Callbacks) /\ Len(f) = Len(list) - 1
    BY <2>3, <2>4
  <2>6. \A k \in 1 .. Len(list) - 1 :
          f[k] = list[IF k < i THEN k ELSE k + 1] /\ (IF k < i THEN k ELSE k + 1) \in 1 .. Len(list)
    BY <2>1
  <2>7. ASSUME \A k, j \in 1 .. Len(list) : list[k] = list[j] => k = j
        PROVE  /\ \A k, j \in 1 .. Len(f) : f[k] = f[j] => k = j
               /\ \A k \in 1 .. Len(f) : f[k] # c
    BY <2>1, <2>5, <2>6, <2>7
  <2>. HIDE DEF f
  <2>. QED
    BY <2>2, <2>5, <2>6, <2>7
<1>. QED
  BY <1>1, <1>2

\* The target's frame is marked, and nothing else in the frames changes.
LEMMA MarkDestroyed ==
  ASSUME TypeOK, FrameInv, NEW t \in Threads, NEW c \in Callbacks,
         InFrames(t, c) # {}
  PROVE  \E i \in 1 .. depth[t] :
           /\ frame[t][i].kind = "invoke"
           /\ frame[t][i].callback = c
           /\ mark_destroyed(t, c) = [frame EXCEPT ![t][i] = Marked(frame[t][i])]
<1>. DEFINE i == CHOOSE k \in InFrames(t, c) : \A j \in InFrames(t, c) : j <= k
<1>1. PICK k \in InFrames(t, c) : TRUE
  OBVIOUS
<1>2. \A j \in InFrames(t, c) : j = k
  BY <1>1 DEF InFrames, FrameInv
<1>3. i \in InFrames(t, c)
  <2>1. \A j \in InFrames(t, c) : j <= k
    BY <1>1, <1>2 DEF InFrames, TypeOK
  <2>. QED
    BY <1>1, <2>1
<1>. QED
  BY <1>3 DEF InFrames, mark_destroyed, TypeOK

-----------------------------------------------------------------------------
(* Types. *)

\* What one iteration of request_stop's loop needs to keep its types.
LEMMA TakeNextTypes ==
  ASSUME TypeOK, NEW t \in Threads, NEW s \in States, NEW d \in 1 .. MaxDepth,
         NEW running1 \in [Callbacks -> BOOLEAN],
         callbacks[s] # <<>>, TakeNext(t, s, d, running1)
  PROVE  /\ Head(callbacks[s]) \in Callbacks
         /\ callbacks' \in [States -> Seq(Callbacks)]
         /\ registered' \in [Callbacks -> BOOLEAN]
         /\ running' \in [Callbacks -> BOOLEAN]
         /\ depth' \in [Threads -> 0 .. MaxDepth]
         /\ frame' \in [Threads -> [1 .. MaxDepth -> Frame]]
<1>. USE DEF TypeOK
<1>1. Head(callbacks[s]) \in Callbacks /\ Tail(callbacks[s]) \in Seq(Callbacks)
  OBVIOUS
<1>2. [kind |-> "invoke", state |-> s, callback |-> Head(callbacks[s]),
       epoch |-> epoch[Head(callbacks[s])], destroyed |-> FALSE] \in Frame
  BY <1>1 DEF Frame
<1>. QED
  BY <1>1, <1>2, StopTokenAssumption DEF TakeNext

LEMMA TypeStep ==
  ASSUME IInv, [Next]_vars
  PROVE  TypeOK'
<1>. USE StopTokenAssumption DEF IInv, TypeOK
<1>0. NoFrame \in Frame
  BY DEF NoFrame, Frame
<1>1. CASE Handles
  <2>. SUFFICES ASSUME NEW s \in States,
                       CopySource(s) \/ GetToken(s) \/ DropSource(s) \/ DropToken(s)
                PROVE  TypeOK'
    BY <1>1 DEF Handles
  <2>1. /\ refs' \in [States -> Int]
        /\ sources' \in [States -> Nat]
        /\ tokens' \in [States -> Nat]
    <3>1. CASE CopySource(s)
      BY <3>1 DEF CopySource
    <3>2. CASE GetToken(s)
      BY <3>2 DEF GetToken
    <3>3. CASE DropSource(s)
      BY <3>3 DEF DropSource
    <3>4. CASE DropToken(s)
      BY <3>4 DEF DropToken
    <3>. QED
      BY <3>1, <3>2, <3>3, <3>4
  <2>2. UNCHANGED <<requested, callbacks, cbvars, thrvars>>
    BY DEF CopySource, GetToken, DropSource, DropToken
  <2>. QED
    BY <2>1, <2>2 DEF cbvars, thrvars
<1>2. ASSUME NEW t \in Threads, NEW s \in States, RequestStop(t, s)
      PROVE  TypeOK'
  <2>1. CASE callbacks[s] # <<>> /\ TakeNext(t, s, depth[t] + 1, running)
    <3>1. depth[t] + 1 \in 1 .. MaxDepth
      BY <1>2 DEF RequestStop
    <3>. QED
      BY <1>2, <2>1, <3>1, TakeNextTypes DEF RequestStop
  <2>2. CASE UNCHANGED <<callbacks, registered, running, depth, frame>>
    BY <1>2, <2>2 DEF RequestStop
  <2>. QED
    BY <1>2, <2>1, <2>2 DEF RequestStop
<1>3. ASSUME NEW t \in Threads, InvokeReturn(t)
      PROVE  TypeOK'
  <2>. DEFINE s == Top(t).state
  <2>1. depth[t] \in 1 .. MaxDepth /\ s \in States
    BY <1>3 DEF InvokeReturn, FrameInv, Top
  <2>2. StopRunning(t) \in [Callbacks -> BOOLEAN]
    BY <2>1 DEF StopRunning
  <2>3. CASE More(s) /\ TakeNext(t, s, depth[t], StopRunning(t))
    BY <1>3, <2>1, <2>2, <2>3, TakeNextTypes DEF InvokeReturn, More
  <2>4. CASE /\ running' = StopRunning(t)
             /\ depth' = [depth EXCEPT ![t] = @ - 1]
             /\ frame' = [frame EXCEPT ![t][depth[t]] = NoFrame]
             /\ UNCHANGED <<callbacks, registered>>
    BY SMTT(30), <1>0, <1>3, <2>1, <2>2, <2>4 DEF InvokeReturn
  <2>. QED
    BY <1>3, <2>3, <2>4 DEF InvokeReturn
<1>4. ASSUME NEW t \in Threads, NEW s \in States, NEW c \in Callbacks,
             BeginConstruct(t, s, c)
      PROVE  TypeOK'
  <2>1. refs' \in [States -> Int] /\ epoch' \in [Callbacks -> 0 .. MaxEpoch]
    BY <1>4 DEF BeginConstruct
  <2>2. /\ obj' \in [Callbacks -> {"free", "constructing", "alive", "destroying"}]
        /\ state_' \in [Callbacks -> States \cup {None}]
        /\ registered' \in [Callbacks -> BOOLEAN]
        /\ running' \in [Callbacks -> BOOLEAN]
    BY <1>4 DEF BeginConstruct
  <2>3. /\ pc' \in [Threads -> {"user", "construct", "wait", "release"}]
        /\ arg' \in [Threads -> Callbacks \cup {None}]
    BY <1>4 DEF BeginConstruct
  <2>. QED
    BY <1>4, <2>1, <2>2, <2>3 DEF BeginConstruct
<1>5. ASSUME NEW t \in Threads, Register(t)
      PROVE  TypeOK'
  <2>1. arg[t] \in Callbacks /\ state_[arg[t]] \in States
    BY <1>5 DEF Register, PcInv
  <2>2. <<arg[t]>> \o callbacks[state_[arg[t]]] \in Seq(Callbacks)
    BY <2>1
  <2>. QED
    BY <1>5, <2>1, <2>2 DEF Register, Link
<1>6. ASSUME NEW t \in Threads, CallInline(t)
      PROVE  TypeOK'
  <2>1. arg[t] \in Callbacks /\ state_[arg[t]] \in States /\ depth[t] < MaxDepth
    BY <1>6 DEF CallInline, PcInv
  <2>2. [kind |-> "inline", state |-> state_[arg[t]], callback |-> arg[t],
         epoch |-> epoch[arg[t]], destroyed |-> FALSE] \in Frame
    BY <2>1 DEF Frame
  <2>. QED
    BY <1>6, <2>1, <2>2 DEF CallInline, statevars
<1>7. ASSUME NEW t \in Threads, InlineReturn(t)
      PROVE  TypeOK'
  <2>1. depth[t] \in 1 .. MaxDepth /\ Top(t).state \in States /\ Top(t).callback \in Callbacks
    BY <1>7 DEF InlineReturn, FrameInv, Top
  <2>2. refs' \in [States -> Int]
    BY <1>7, <2>1 DEF InlineReturn
  <2>3. obj' \in [Callbacks -> {"free", "constructing", "alive", "destroying"}]
    BY <1>7, <2>1 DEF InlineReturn
  <2>4. depth' \in [Threads -> 0 .. MaxDepth]
    <3>1. depth' = [depth EXCEPT ![t] = depth[t] - 1]
      BY <1>7 DEF InlineReturn
    <3>2. depth[t] - 1 \in 0 .. MaxDepth
      BY <1>0, <2>1
    <3>. QED
      BY <1>0, <3>1, <3>2
  <2>5. frame' \in [Threads -> [1 .. MaxDepth -> Frame]]
    BY <1>0, <1>7, <2>1 DEF InlineReturn
  <2>. QED
    BY <1>7, <2>2, <2>3, <2>4, <2>5 DEF InlineReturn
<1>8. ASSUME NEW t \in Threads, NEW c \in Callbacks, DestroyDetached(t, c)
      PROVE  TypeOK'
  BY <1>8 DEF DestroyDetached, statevars, thrvars
<1>9. ASSUME NEW t \in Threads, NEW c \in Callbacks, BeginDestroy(t, c)
      PROVE  TypeOK'
  <2>1. state_[c] \in States
    BY <1>9 DEF BeginDestroy
  <2>2. callbacks' \in [States -> Seq(Callbacks)]
    <3>1. remove_callback(callbacks[state_[c]], c) \in Seq(Callbacks)
      BY <2>1, RemoveCallback
    <3>. QED
      BY <1>9, <2>1, <3>1 DEF BeginDestroy
  <2>3. frame' \in [Threads -> [1 .. MaxDepth -> Frame]]
    <3>1. CASE InFrames(t, c) # {}
      <4>1. PICK i \in 1 .. depth[t] :
              /\ frame[t][i].kind = "invoke"
              /\ frame[t][i].callback = c
              /\ mark_destroyed(t, c) = [frame EXCEPT ![t][i] = Marked(frame[t][i])]
        <5>. HIDE DEF IInv, TypeOK
        <5>. QED
          BY <3>1, MarkDestroyed DEF IInv
      <4>2. Marked(frame[t][i]) \in Frame /\ i \in 1 .. MaxDepth
        BY DEF Frame, Marked
      <4>3. frame' = [frame EXCEPT ![t][i] = Marked(frame[t][i])]
        BY <1>9, <3>1, <4>1 DEF BeginDestroy
      <4>. QED
        BY <4>2, <4>3
    <3>2. CASE InFrames(t, c) = {}
      BY <1>9, <3>2 DEF BeginDestroy
    <3>. QED
      BY <3>1, <3>2
  <2>. QED
    BY <1>9, <2>2, <2>3 DEF BeginDestroy
<1>10. ASSUME NEW t \in Threads, WaitDone(t)
       PROVE  TypeOK'
  BY <1>10 DEF WaitDone, statevars, cbvars
<1>11. ASSUME NEW t \in Threads, EndDestroy(t)
       PROVE  TypeOK'
  BY <1>11 DEF EndDestroy, PcInv
<1>12. CASE UNCHANGED vars
  BY <1>12 DEF vars
<1>. QED
  BY <1>1, <1>2, <1>3, <1>4, <1>5, <1>6, <1>7, <1>8, <1>9, <1>10, <1>11, <1>12
  DEF Next, Proceed, UserCall, Quiet

LEMMA ListElements ==
  ASSUME TypeOK, ListInv, NEW s \in States, NEW i \in 1 .. Len(callbacks[s])
  PROVE  /\ callbacks[s][i] \in Callbacks
         /\ obj[callbacks[s][i]] = "alive"
         /\ state_[callbacks[s][i]] = s
<1>1. callbacks[s] \in Seq(Callbacks)
  BY DEF TypeOK
<1>. QED
  BY <1>1 DEF ListInv

-----------------------------------------------------------------------------
(* The rest of the invariant, one lemma per group of actions. *)

\* Everything but the handle counts, which no invariant mentions.
LEMMA HandlesKeep ==
  ASSUME IInv, Handles \/ UNCHANGED vars
  PROVE  FrameInv' /\ ListInv' /\ PcInv' /\ RunInv'
<1>1. UNCHANGED <<callbacks, cbvars, thrvars>>
  BY DEF Handles, CopySource, GetToken, DropSource, DropToken, vars, cbvars, thrvars
<1>2. FrameInv' /\ ListInv'
  BY <1>1 DEF IInv, FrameInv, ListInv, cbvars, thrvars
<1>3. PcInv' /\ RunInv'
  BY <1>1 DEF IInv, PcInv, RunInv, cbvars, thrvars
<1>. QED
  BY <1>2, <1>3

\* One round of request_stop's loop: the thread's frame d is new, those below
\* it stay, and the frame that was at d, if any, is the one that returned.
LEMMA TakeNextKeeps ==
  ASSUME TypeOK, FrameInv, ListInv, PcInv, RunInv, NEW t \in Threads, NEW s \in States,
         callbacks[s] # <<>>,
         NEW d \in 1 .. MaxDepth, NEW running1 \in [Callbacks -> BOOLEAN],
         TakeNext(t, s, d, running1),
         \/ d = depth[t] + 1 /\ running1 = running
         \/ /\ d = depth[t]
            /\ frame[t][d].kind = "invoke"
            /\ running1 = StopRunning(t),
         pc[t] = "user",
         UNCHANGED <<obj, state_, epoch, pc, arg>>
  PROVE  FrameInv' /\ ListInv' /\ PcInv' /\ RunInv'
<1>. DEFINE c == Head(callbacks[s])
            new == [kind |-> "invoke", state |-> s, callback |-> c,
                    epoch |-> epoch[c], destroyed |-> FALSE]
<1>0. /\ depth \in [Threads -> 0 .. MaxDepth] /\ MaxDepth \in Nat
      /\ frame \in [Threads -> [1 .. MaxDepth -> Frame]]
      /\ running \in [Callbacks -> BOOLEAN] /\ registered \in [Callbacks -> BOOLEAN]
      /\ callbacks \in [States -> Seq(Callbacks)]
      /\ arg \in [Threads -> Callbacks \cup {None}]
  BY StopTokenAssumption DEF TypeOK
<1>d. d = depth[t] + 1 \/ d = depth[t]
  OBVIOUS
<1>1. /\ c \in Callbacks
      /\ c = callbacks[s][1] /\ 1 \in 1 .. Len(callbacks[s])
      /\ registered[c] /\ obj[c] = "alive" /\ state_[c] = s
  BY <1>0 DEF ListInv
<1>2. \A u \in Threads : \A i \in 1 .. depth[u] : frame[u][i].callback # c
  BY <1>1 DEF FrameInv
<1>3. /\ depth' = [depth EXCEPT ![t] = d]
      /\ frame' = [frame EXCEPT ![t][d] = new]
      /\ registered' = [registered EXCEPT ![c] = FALSE]
      /\ running' = [running1 EXCEPT ![c] = TRUE]
      /\ callbacks' = [callbacks EXCEPT ![s] = Tail(@)]
  BY DEF TakeNext
<1>4. \A u \in Threads : \A i \in 1 .. depth'[u] :
        \/ u = t /\ i = d /\ frame'[u][i] = new
        \/ /\ i \in 1 .. depth[u]
           /\ ~(u = t /\ i = d)
           /\ frame'[u][i] = frame[u][i]
  <2>. SUFFICES ASSUME NEW u \in Threads, NEW i \in 1 .. depth'[u], ~(u = t /\ i = d)
                PROVE  i \in 1 .. depth[u] /\ frame'[u][i] = frame[u][i]
    BY <1>0, <1>3
  <2>1. CASE u = t
    BY <1>0, <1>d, <1>3, <2>1
  <2>2. CASE u # t
    BY <1>0, <1>3, <2>2
  <2>. QED
    BY <2>1, <2>2
<1>5. \A b \in Callbacks : running1[b] = running[b]
        \/ /\ d = depth[t]
           /\ frame[t][d].callback = b
           /\ ~frame[t][d].destroyed
           /\ ~running1[b]
  BY <1>0 DEF StopRunning, Top
<1>r. d = depth[t] /\ ~frame[t][d].destroyed /\ frame[t][d].callback \in Callbacks =>
        ~running1[frame[t][d].callback]
  BY <1>0 DEF StopRunning, Top
<1>6. /\ new.callback = c /\ new.kind = "invoke" /\ new.state = s
      /\ new.epoch = epoch[c] /\ ~new.destroyed
  OBVIOUS
<1>. HIDE DEF c, new
<1>7. FrameInv'
  <2>1. ASSUME NEW u \in Threads, NEW i \in 1 .. depth'[u]
        PROVE  LET f == frame'[u][i] IN
               /\ f.kind \in {"invoke", "inline"}
               /\ f.callback \in Callbacks
               /\ f.state \in States
               /\ f.epoch = epoch[f.callback]
               /\ ~registered'[f.callback]
               /\ f.kind = "inline" =>
                    /\ ~f.destroyed
                    /\ obj[f.callback] = "constructing"
                    /\ ~running'[f.callback]
               /\ f.kind = "invoke" /\ ~f.destroyed =>
                    /\ obj[f.callback] \in {"alive", "destroying"}
                    /\ running'[f.callback]
                    /\ state_[f.callback] = f.state
    <3>1. CASE u = t /\ i = d /\ frame'[u][i] = new
      BY <1>0, <1>1, <1>3, <1>6, <3>1
    <3>2. CASE i \in 1 .. depth[u] /\ ~(u = t /\ i = d) /\ frame'[u][i] = frame[u][i]
      <4>. DEFINE b == frame[u][i].callback
      <4>1. b \in Callbacks /\ b # c
        BY <1>2, <3>2 DEF FrameInv
      <4>2. running1[b] = running[b]
        <5>1. ~(d = depth[t] /\ frame[t][d].callback = b)
          BY <3>2 DEF FrameInv
        <5>. QED
          BY <1>5, <4>1, <5>1
      <4>3. running'[b] = running[b] /\ registered'[b] = registered[b]
        BY <1>0, <1>1, <1>3, <4>1, <4>2
      <4>. QED
        BY <3>2, <4>3 DEF FrameInv
    <3>. QED
      BY <1>4, <3>1, <3>2
  <2>2. ASSUME NEW u \in Threads, NEW v \in Threads,
               NEW i \in 1 .. depth'[u], NEW j \in 1 .. depth'[v],
               frame'[u][i].callback = frame'[v][j].callback
        PROVE  u = v /\ i = j
    <3>1. CASE u = t /\ i = d /\ frame'[u][i] = new
      BY <1>2, <1>4, <1>6, <2>2, <3>1
    <3>2. CASE v = t /\ j = d /\ frame'[v][j] = new
      BY <1>2, <1>4, <1>6, <2>2, <3>2
    <3>3. CASE /\ i \in 1 .. depth[u] /\ frame'[u][i] = frame[u][i]
               /\ j \in 1 .. depth[v] /\ frame'[v][j] = frame[v][j]
      BY <2>2, <3>3 DEF FrameInv
    <3>. QED
      BY <1>4, <3>1, <3>2, <3>3
  <2>. QED
    BY <2>1, <2>2 DEF FrameInv
<1>8. ListInv'
  <2>1. \A i \in 1 .. Len(Tail(callbacks[s])) :
          i + 1 \in 2 .. Len(callbacks[s]) /\ Tail(callbacks[s])[i] = callbacks[s][i + 1]
    BY <1>0
  <2>2. ASSUME NEW r \in States
        PROVE  /\ \A i \in 1 .. Len(callbacks'[r]) : \E k \in 1 .. Len(callbacks[r]) :
                    /\ callbacks'[r][i] = callbacks[r][k]
                    /\ callbacks[r][k] # c
               /\ \A i, j \in 1 .. Len(callbacks'[r]) :
                    callbacks'[r][i] = callbacks'[r][j] => i = j
    <3>0. \A i, j \in 1 .. Len(callbacks[r]) : callbacks[r][i] = callbacks[r][j] => i = j
      BY DEF ListInv
    <3>1. CASE r = s
      <4>1. callbacks'[r] = Tail(callbacks[s])
        BY <1>0, <1>3, <3>1
      <4>2. \A i \in 1 .. Len(Tail(callbacks[s])) : callbacks[s][i + 1] # c
        BY <1>0, <1>1, <2>1, <3>0, <3>1
      <4>3. \A i, j \in 1 .. Len(Tail(callbacks[s])) :
              callbacks[s][i + 1] = callbacks[s][j + 1] => i = j
        BY <1>0, <2>1, <3>0, <3>1
      <4>. QED
        BY <1>0, <2>1, <3>1, <4>1, <4>2, <4>3
    <3>2. CASE r # s
      <4>1. callbacks'[r] = callbacks[r]
        BY <1>0, <1>3, <3>2
      <4>2. \A i \in 1 .. Len(callbacks[r]) : callbacks[r][i] # c
        BY <1>1, <3>2 DEF ListInv
      <4>. QED
        BY <3>0, <4>1, <4>2
    <3>. QED
      BY <3>1, <3>2
  <2>. QED
    BY SMTT(30), <1>0, <1>1, <1>3, <2>2 DEF ListInv
<1>9. PcInv'
  <2>1. \A u \in Threads : pc[u] # "user" => arg[u] \in Callbacks /\ arg[u] # c
    BY <1>1 DEF PcInv
  <2>2. \A u \in Threads : pc[u] # "user" => ~registered'[arg[u]]
    BY <1>0, <1>1, <1>3, <2>1 DEF PcInv
  <2>3. \A u \in Threads : pc[u] = "construct" =>
          /\ obj[arg[u]] = "constructing" /\ depth'[u] < MaxDepth /\ ~running'[arg[u]]
          /\ \A v \in Threads : \A i \in 1 .. depth'[v] :
               frame'[v][i].callback # arg[u]
    <3>. SUFFICES ASSUME NEW u \in Threads, pc[u] = "construct"
                  PROVE  /\ obj[arg[u]] = "constructing" /\ depth'[u] < MaxDepth
                         /\ ~running'[arg[u]]
                         /\ \A v \in Threads : \A i \in 1 .. depth'[v] :
                              frame'[v][i].callback # arg[u]
      OBVIOUS
    <3>1. obj[arg[u]] = "constructing" /\ depth'[u] < MaxDepth
      BY <1>0, <1>3 DEF PcInv
    <3>2. ~running'[arg[u]]
      BY <1>0, <1>1, <1>3, <1>5, <2>1 DEF PcInv
    <3>3. \A v \in Threads : \A i \in 1 .. depth'[v] : frame'[v][i].callback # arg[u]
      BY <1>4, <1>6, <2>1 DEF PcInv
    <3>. QED
      BY <3>1, <3>2, <3>3
  <2>4. \A u \in Threads : pc[u] = "wait" =>
          \A i \in 1 .. depth'[u] : frame'[u][i].callback # arg[u]
    BY <1>4, <1>6, <2>1 DEF PcInv
  <2>5. \A u \in Threads : pc[u] = "release" =>
          \A v \in Threads : \A i \in 1 .. depth'[v] :
            frame'[v][i].callback = arg[u] => frame'[v][i].destroyed
    BY <1>4, <1>6, <2>1 DEF PcInv
  <2>. QED
    BY <2>1, <2>2, <2>3, <2>4, <2>5 DEF PcInv
<1>10. RunInv'
  <2>. SUFFICES ASSUME NEW b \in Callbacks, running'[b],
                       obj[b] = "alive" \/ \E u \in Threads : pc[u] = "wait" /\ arg[u] = b
                PROVE  \E u \in Threads : \E i \in 1 .. depth'[u] :
                         /\ frame'[u][i].kind = "invoke"
                         /\ frame'[u][i].callback = b
                         /\ ~frame'[u][i].destroyed
    BY DEF RunInv
  <2>1. CASE b = c
    <3>1. d \in 1 .. depth'[t] /\ frame'[t][d] = new
      BY <1>0, <1>3
    <3>. QED
      BY <1>6, <2>1, <3>1
  <2>2. CASE b # c
    <3>1. running[b] /\ running1[b]
      BY <1>0, <1>1, <1>3, <1>5, <2>2
    <3>2. PICK u \in Threads : \E i \in 1 .. depth[u] :
            frame[u][i].kind = "invoke" /\ frame[u][i].callback = b /\ ~frame[u][i].destroyed
      BY <3>1 DEF RunInv
    <3>5. PICK i \in 1 .. depth[u] :
            frame[u][i].kind = "invoke" /\ frame[u][i].callback = b /\ ~frame[u][i].destroyed
      BY <3>2
    <3>3. ~(u = t /\ i = d)
      BY <1>0, <1>d, <1>r, <3>1, <3>5
    <3>4. i \in 1 .. depth'[u] /\ frame'[u][i] = frame[u][i]
      BY <1>0, <1>3, <3>5, <3>3
    <3>. QED
      BY <3>5, <3>4
  <2>. QED
    BY <2>1, <2>2
<1>. QED
  BY <1>7, <1>8, <1>9, <1>10

\* The callback returned and the list is empty: the frame is gone.
LEMMA ReturnKeeps ==
  ASSUME TypeOK, FrameInv, ListInv, PcInv, RunInv, NEW t \in Threads,
         InvokeReturn(t), ~More(Top(t).state)
  PROVE  FrameInv' /\ ListInv' /\ PcInv' /\ RunInv'
<1>. DEFINE d == depth[t]
            b == frame[t][d].callback
<1>0. /\ depth \in [Threads -> 0 .. MaxDepth] /\ MaxDepth \in Nat
      /\ frame \in [Threads -> [1 .. MaxDepth -> Frame]]
      /\ running \in [Callbacks -> BOOLEAN]
  BY StopTokenAssumption DEF TypeOK
<1>1. /\ d \in 1 .. MaxDepth /\ d > 0
      /\ pc[t] = "user" /\ frame[t][d].kind = "invoke" /\ b \in Callbacks
      /\ running' = StopRunning(t)
      /\ depth' = [depth EXCEPT ![t] = @ - 1]
      /\ frame' = [frame EXCEPT ![t][d] = NoFrame]
      /\ UNCHANGED <<callbacks, registered, obj, state_, epoch, pc, arg>>
  <2>1. d \in 1 .. MaxDepth /\ d \in 1 .. depth[t] /\ d > 0
    BY <1>0 DEF InvokeReturn
  <2>2. pc[t] = "user" /\ frame[t][d].kind = "invoke" /\ b \in Callbacks
    BY <2>1 DEF InvokeReturn, Top, InUserCode, FrameInv
  <2>3. /\ running' = StopRunning(t)
        /\ depth' = [depth EXCEPT ![t] = @ - 1]
        /\ frame' = [frame EXCEPT ![t][d] = NoFrame]
        /\ UNCHANGED <<callbacks, registered>>
    BY DEF InvokeReturn
  <2>. QED
    BY <2>1, <2>2, <2>3 DEF InvokeReturn
<1>2. \A u \in Threads : \A i \in 1 .. depth'[u] :
        /\ i \in 1 .. depth[u]
        /\ ~(u = t /\ i = d)
        /\ frame'[u][i] = frame[u][i]
  BY <1>0, <1>1
<1>3. \A u \in Threads : \A i \in 1 .. depth[u] :
        ~(u = t /\ i = d) => i \in 1 .. depth'[u] /\ frame'[u][i] = frame[u][i]
  BY <1>0, <1>1
<1>4. \A c \in Callbacks \ {b} : running'[c] = running[c]
  BY <1>0, <1>1 DEF StopRunning, Top
<1>5. /\ running'[b] => running[b]
      /\ ~frame[t][d].destroyed => ~running'[b]
  BY <1>0, <1>1 DEF StopRunning, Top
<1>6. \A u \in Threads : \A i \in 1 .. depth'[u] : frame[u][i].callback # b
  BY <1>1, <1>2 DEF FrameInv
<1>. HIDE DEF d, b
<1>7. FrameInv'
  <2>1. ASSUME NEW u \in Threads, NEW i \in 1 .. depth'[u]
        PROVE  /\ i \in 1 .. depth[u]
               /\ frame'[u][i] = frame[u][i]
               /\ frame[u][i].callback \in Callbacks
               /\ running'[frame[u][i].callback] = running[frame[u][i].callback]
    BY <1>2, <1>4, <1>6 DEF FrameInv
  <2>. QED
    BY SMTT(30), <1>1, <2>1 DEF FrameInv
<1>8. ListInv'
  BY <1>1 DEF ListInv
<1>9. PcInv'
  <2>1. \A u \in Threads : pc[u] # "user" => (running'[arg[u]] => running[arg[u]])
    BY <1>4, <1>5 DEF PcInv
  <2>2. \A u \in Threads : pc[u] = "construct" =>
          /\ depth'[u] < MaxDepth
          /\ \A v \in Threads : \A i \in 1 .. depth'[v] : frame'[v][i].callback # arg[u]
    BY <1>0, <1>1, <1>2 DEF PcInv
  <2>3. \A u \in Threads : pc[u] = "wait" =>
          \A i \in 1 .. depth'[u] : frame'[u][i].callback # arg[u]
    BY <1>2 DEF PcInv
  <2>4. \A u \in Threads : pc[u] = "release" =>
          \A v \in Threads : \A i \in 1 .. depth'[v] :
            frame'[v][i].callback = arg[u] => frame'[v][i].destroyed
    BY <1>2 DEF PcInv
  <2>. QED
    BY <1>1, <2>1, <2>2, <2>3, <2>4 DEF PcInv
<1>10. RunInv'
  <2>. SUFFICES ASSUME NEW c \in Callbacks, running'[c],
                       obj[c] = "alive" \/ \E u \in Threads : pc[u] = "wait" /\ arg[u] = c
                PROVE  \E u \in Threads : \E i \in 1 .. depth'[u] :
                         /\ frame'[u][i].kind = "invoke"
                         /\ frame'[u][i].callback = c
                         /\ ~frame'[u][i].destroyed
    BY <1>1 DEF RunInv
  <2>1. PICK u \in Threads : \E i \in 1 .. depth[u] :
          frame[u][i].kind = "invoke" /\ frame[u][i].callback = c /\ ~frame[u][i].destroyed
    BY <1>4, <1>5 DEF RunInv
  <2>2. PICK i \in 1 .. depth[u] :
          frame[u][i].kind = "invoke" /\ frame[u][i].callback = c /\ ~frame[u][i].destroyed
    BY <2>1
  <2>3. ~(u = t /\ i = d)
    BY <1>5, <2>2 DEF b
  <2>. QED
    BY <1>3, <2>2, <2>3
<1>. QED
  BY <1>7, <1>8, <1>9, <1>10

\* The constructor's own call of the callback returned.
LEMMA InlineReturnKeeps ==
  ASSUME TypeOK, FrameInv, ListInv, PcInv, RunInv, NEW t \in Threads,
         InlineReturn(t)
  PROVE  FrameInv' /\ ListInv' /\ PcInv' /\ RunInv'
<1>. DEFINE d == depth[t]
            b == frame[t][d].callback
<1>0. /\ depth \in [Threads -> 0 .. MaxDepth] /\ MaxDepth \in Nat
      /\ frame \in [Threads -> [1 .. MaxDepth -> Frame]]
      /\ obj \in [Callbacks -> {"free", "constructing", "alive", "destroying"}]
  BY StopTokenAssumption DEF TypeOK
<1>1. /\ d \in 1 .. MaxDepth /\ d > 0
      /\ pc[t] = "user" /\ b \in Callbacks
      /\ obj[b] = "constructing" /\ ~running[b]
      /\ obj' = [obj EXCEPT ![b] = "alive"]
      /\ depth' = [depth EXCEPT ![t] = @ - 1]
      /\ frame' = [frame EXCEPT ![t][d] = NoFrame]
      /\ UNCHANGED <<callbacks, registered, running, state_, epoch, pc, arg>>
  BY <1>0 DEF InlineReturn, Top, InUserCode, FrameInv
<1>2. \A u \in Threads : \A i \in 1 .. depth'[u] :
        /\ i \in 1 .. depth[u]
        /\ ~(u = t /\ i = d)
        /\ frame'[u][i] = frame[u][i]
  BY <1>0, <1>1
<1>3. \A u \in Threads : \A i \in 1 .. depth[u] :
        ~(u = t /\ i = d) => i \in 1 .. depth'[u] /\ frame'[u][i] = frame[u][i]
  BY <1>0, <1>1
<1>4. \A u \in Threads : \A i \in 1 .. depth'[u] : frame[u][i].callback # b
  BY <1>1, <1>2 DEF FrameInv
<1>5. \A c \in Callbacks \ {b} : obj'[c] = obj[c]
  BY <1>0, <1>1
<1>6. obj'[b] = "alive"
  BY <1>0, <1>1
<1>a. \A u \in Threads : pc[u] # "user" => arg[u] # b
  <2>. SUFFICES ASSUME NEW u \in Threads, pc[u] # "user", arg[u] = b
                PROVE  FALSE
    OBVIOUS
  <2>1. pc[u] = "construct"
    BY <1>1 DEF PcInv, TypeOK
  <2>. QED
    <3>1. d \in 1 .. depth[t] /\ frame[t][d].callback = arg[u]
      BY <1>0, <1>1
    <3>. QED
      BY <2>1, <3>1 DEF PcInv
<1>. HIDE DEF d, b
<1>7. FrameInv'
  <2>1. ASSUME NEW u \in Threads, NEW i \in 1 .. depth'[u]
        PROVE  /\ i \in 1 .. depth[u]
               /\ frame'[u][i] = frame[u][i]
               /\ frame[u][i].callback \in Callbacks
               /\ obj'[frame[u][i].callback] = obj[frame[u][i].callback]
    BY <1>2, <1>4, <1>5 DEF FrameInv
  <2>. QED
    BY SMTT(30), <1>1, <2>1 DEF FrameInv
<1>8. ListInv'
  BY <1>0, <1>1 DEF ListInv
<1>9. PcInv'
  <2>1. \A u \in Threads : pc[u] # "user" => arg[u] \in Callbacks /\ obj'[arg[u]] = obj[arg[u]]
    BY <1>a, <1>5 DEF PcInv
  <2>2. \A u \in Threads : pc[u] = "construct" =>
          /\ depth'[u] < MaxDepth
          /\ \A v \in Threads : \A i \in 1 .. depth'[v] : frame'[v][i].callback # arg[u]
    BY <1>0, <1>1, <1>2 DEF PcInv
  <2>3. \A u \in Threads : pc[u] = "wait" =>
          \A i \in 1 .. depth'[u] : frame'[u][i].callback # arg[u]
    BY <1>2 DEF PcInv
  <2>4. \A u \in Threads : pc[u] = "release" =>
          \A v \in Threads : \A i \in 1 .. depth'[v] :
            frame'[v][i].callback = arg[u] => frame'[v][i].destroyed
    BY <1>2 DEF PcInv
  <2>. QED
    BY <1>1, <2>1, <2>2, <2>3, <2>4 DEF PcInv
<1>10. RunInv'
  <2>. SUFFICES ASSUME NEW c \in Callbacks, running[c],
                       obj'[c] = "alive" \/ \E u \in Threads : pc[u] = "wait" /\ arg[u] = c
                PROVE  \E u \in Threads : \E i \in 1 .. depth'[u] :
                         /\ frame'[u][i].kind = "invoke"
                         /\ frame'[u][i].callback = c
                         /\ ~frame'[u][i].destroyed
    BY <1>1 DEF RunInv
  <2>0. c # b
    BY <1>1
  <2>1. PICK u \in Threads : \E i \in 1 .. depth[u] :
          frame[u][i].kind = "invoke" /\ frame[u][i].callback = c /\ ~frame[u][i].destroyed
    BY <1>5, <2>0 DEF RunInv
  <2>2. PICK i \in 1 .. depth[u] :
          frame[u][i].kind = "invoke" /\ frame[u][i].callback = c /\ ~frame[u][i].destroyed
    BY <2>1
  <2>3. ~(u = t /\ i = d)
    BY <2>0, <2>2 DEF b
  <2>. QED
    BY <1>3, <2>2, <2>3
<1>. QED
  BY <1>7, <1>8, <1>9, <1>10

\* An address without an object gets one.  No frame names it: the guard keeps
\* the addresses of callbacks that destroyed themselves until they returned.
LEMMA BeginConstructKeeps ==
  ASSUME TypeOK, FrameInv, ListInv, PcInv, RunInv, ~EagerReuse,
         NEW t \in Threads, NEW s \in States, NEW b \in Callbacks,
         BeginConstruct(t, s, b)
  PROVE  FrameInv' /\ ListInv' /\ PcInv' /\ RunInv'
<1>0. /\ obj \in [Callbacks -> {"free", "constructing", "alive", "destroying"}]
      /\ state_ \in [Callbacks -> States \cup {None}]
      /\ registered \in [Callbacks -> BOOLEAN] /\ running \in [Callbacks -> BOOLEAN]
      /\ epoch \in [Callbacks -> 0 .. MaxEpoch]
      /\ callbacks \in [States -> Seq(Callbacks)]
      /\ pc \in [Threads -> {"user", "construct", "wait", "release"}]
      /\ arg \in [Threads -> Callbacks \cup {None}]
  BY DEF TypeOK
<1>1. /\ pc[t] = "user" /\ depth[t] < MaxDepth /\ obj[b] = "free"
      /\ obj'[b] = "constructing" /\ state_'[b] = s /\ ~registered'[b] /\ ~running'[b]
      /\ pc'[t] = "construct" /\ arg'[t] = b
      /\ UNCHANGED <<callbacks, depth, frame>>
  BY <1>0 DEF BeginConstruct, InUserCode
<1>2. \A c \in Callbacks \ {b} :
        /\ obj'[c] = obj[c] /\ state_'[c] = state_[c] /\ epoch'[c] = epoch[c]
        /\ registered'[c] = registered[c] /\ running'[c] = running[c]
  BY <1>0 DEF BeginConstruct
<1>3. \A u \in Threads \ {t} : pc'[u] = pc[u] /\ arg'[u] = arg[u]
  BY <1>0 DEF BeginConstruct
<1>4. \A u \in Threads : \A i \in 1 .. depth[u] :
        frame[u][i].callback \in Callbacks \ {b}
  <2>. SUFFICES ASSUME NEW u \in Threads, NEW i \in 1 .. depth[u], frame[u][i].callback = b
                PROVE  FALSE
    BY DEF FrameInv
  <2>1. frame[u][i].kind = "invoke"
    BY <1>1 DEF FrameInv
  <2>2. i \in InFrames(u, b)
    BY <2>1 DEF InFrames
  <2>. QED
    BY <2>2 DEF BeginConstruct
<1>5. \A u \in Threads : pc[u] # "user" => arg[u] \in Callbacks \ {b}
  BY <1>0, <1>1 DEF PcInv
<1>6. FrameInv'
  BY <1>1, <1>2, <1>4 DEF FrameInv
<1>7. ListInv'
  <2>1. \A r \in States : \A i \in 1 .. Len(callbacks[r]) : callbacks[r][i] \in Callbacks \ {b}
    <3>. SUFFICES ASSUME NEW r \in States, NEW i \in 1 .. Len(callbacks[r])
                  PROVE  callbacks[r][i] \in Callbacks \ {b}
      OBVIOUS
    <3>1. callbacks[r][i] \in Callbacks
      BY <1>0
    <3>2. obj[callbacks[r][i]] = "alive"
      BY DEF ListInv
    <3>3. obj[b] = "free"
      BY <1>1
    <3>. QED
      BY <3>1, <3>2, <3>3
  <2>. QED
    BY <1>1, <1>2, <2>1 DEF ListInv
<1>8. PcInv'
  <2>1. ASSUME NEW u \in Threads, u # t, pc[u] # "user"
        PROVE  /\ arg'[u] = arg[u] /\ arg[u] \in Callbacks \ {b} /\ pc'[u] = pc[u]
               /\ state_'[arg[u]] = state_[arg[u]] /\ obj'[arg[u]] = obj[arg[u]]
               /\ registered'[arg[u]] = registered[arg[u]]
               /\ running'[arg[u]] = running[arg[u]]
    BY <1>2, <1>3, <1>5, <2>1
  <2>2. /\ arg'[t] \in Callbacks /\ state_'[arg'[t]] \in States /\ ~registered'[arg'[t]]
        /\ obj'[arg'[t]] = "constructing" /\ depth'[t] < MaxDepth /\ ~running'[arg'[t]]
        /\ pc'[t] = "construct"
        /\ \A u \in Threads : \A i \in 1 .. depth'[u] : frame'[u][i].callback # arg'[t]
    BY <1>1, <1>4
  <2>3. \A u \in Threads : pc'[u] # "user" /\ u # t => arg'[u] # arg'[t]
    BY <1>1, <1>3, <1>5
  <2>4. \A u \in Threads : u # t => pc'[u] = pc[u] /\ arg'[u] = arg[u]
    BY <1>3
  <2>. QED
    BY <1>1, <2>1, <2>2, <2>3, <2>4 DEF PcInv
<1>9. RunInv'
  <2>. SUFFICES ASSUME NEW c \in Callbacks, running'[c],
                       obj'[c] = "alive" \/ \E u \in Threads : pc'[u] = "wait" /\ arg'[u] = c
                PROVE  \E u \in Threads : \E i \in 1 .. depth[u] :
                         /\ frame[u][i].kind = "invoke"
                         /\ frame[u][i].callback = c
                         /\ ~frame[u][i].destroyed
    BY <1>1 DEF RunInv
  <2>1. c # b /\ running[c]
    BY <1>1, <1>2
  <2>2. obj[c] = "alive" \/ \E u \in Threads : pc[u] = "wait" /\ arg[u] = c
    BY <1>1, <1>2, <1>3, <2>1
  <2>. QED
    BY <2>1, <2>2 DEF RunInv
<1>. QED
  BY <1>6, <1>7, <1>8, <1>9

\* The new callback goes to the head of the list.
LEMMA RegisterKeeps ==
  ASSUME TypeOK, FrameInv, ListInv, PcInv, RunInv, NEW t \in Threads, Register(t)
  PROVE  FrameInv' /\ ListInv' /\ PcInv' /\ RunInv'
<1>. DEFINE b == arg[t]
            s == state_[b]
<1>0. /\ obj \in [Callbacks -> {"free", "constructing", "alive", "destroying"}]
      /\ registered \in [Callbacks -> BOOLEAN]
      /\ callbacks \in [States -> Seq(Callbacks)]
      /\ pc \in [Threads -> {"user", "construct", "wait", "release"}]
      /\ arg \in [Threads -> Callbacks \cup {None}]
  BY DEF TypeOK
<1>1. /\ pc[t] = "construct" /\ b \in Callbacks /\ s \in States
      /\ obj[b] = "constructing" /\ ~registered[b] /\ ~running[b]
      /\ UNCHANGED <<state_, running, epoch, depth, frame>>
      /\ \A u \in Threads : \A i \in 1 .. depth[u] : frame[u][i].callback # b
  BY DEF Register, Link, PcInv
<1>2. /\ obj' = [obj EXCEPT ![b] = "alive"]
      /\ registered' = [registered EXCEPT ![b] = TRUE]
      /\ callbacks' = [callbacks EXCEPT ![s] = <<b>> \o @]
      /\ pc' = [pc EXCEPT ![t] = "user"]
      /\ arg' = [arg EXCEPT ![t] = None]
  BY DEF Register, Link
<1>3. \A c \in Callbacks \ {b} : obj'[c] = obj[c] /\ registered'[c] = registered[c]
  BY <1>0, <1>2
<1>4. obj'[b] = "alive" /\ registered'[b] /\ pc'[t] = "user"
  BY <1>0, <1>1, <1>2
<1>5. \A u \in Threads \ {t} : pc'[u] = pc[u] /\ arg'[u] = arg[u]
  BY <1>0, <1>2
<1>6. FrameInv'
  <2>1. \A u \in Threads : \A i \in 1 .. depth[u] : frame[u][i].callback \in Callbacks \ {b}
    BY <1>1 DEF FrameInv
  <2>. QED
    BY <1>1, <1>3, <2>1 DEF FrameInv
<1>7. ListInv'
  <2>1. \A r \in States : \A i \in 1 .. Len(callbacks[r]) : callbacks[r][i] \in Callbacks \ {b}
    BY <1>0, <1>1 DEF ListInv
  <2>. SUFFICES ASSUME NEW r \in States
                PROVE  /\ \A i \in 1 .. Len(callbacks'[r]) :
                            /\ registered'[callbacks'[r][i]]
                            /\ obj'[callbacks'[r][i]] = "alive"
                            /\ state_[callbacks'[r][i]] = r
                       /\ \A i, j \in 1 .. Len(callbacks'[r]) :
                            callbacks'[r][i] = callbacks'[r][j] => i = j
    BY <1>1 DEF ListInv
  <2>2. CASE r = s
    <3>1. callbacks'[r] = <<b>> \o callbacks[r]
      BY <1>0, <1>1, <1>2, <2>2
    <3>2. /\ Len(callbacks'[r]) = Len(callbacks[r]) + 1
          /\ callbacks'[r][1] = b
          /\ \A i \in 2 .. Len(callbacks[r]) + 1 :
               i - 1 \in 1 .. Len(callbacks[r]) /\ callbacks'[r][i] = callbacks[r][i - 1]
      BY <1>0, <1>1, <3>1
    <3>3. \A i \in 1 .. Len(callbacks'[r]) : i = 1 \/ i \in 2 .. Len(callbacks[r]) + 1
      BY <1>0, <3>2
    <3>4. ASSUME NEW i \in 1 .. Len(callbacks'[r])
          PROVE  /\ registered'[callbacks'[r][i]]
                 /\ obj'[callbacks'[r][i]] = "alive"
                 /\ state_[callbacks'[r][i]] = r
      <4>1. CASE i = 1
        BY <1>4, <2>2, <3>2, <4>1
      <4>2. CASE i \in 2 .. Len(callbacks[r]) + 1
        <5>. DEFINE c == callbacks[r][i - 1]
        <5>1. callbacks'[r][i] = c /\ c \in Callbacks \ {b}
          BY <2>1, <3>2, <4>2
        <5>2. registered[c] /\ obj[c] = "alive" /\ state_[c] = r
          BY <3>2, <4>2 DEF ListInv
        <5>. QED
          BY <1>3, <5>1, <5>2
      <4>. QED
        BY <3>3, <4>1, <4>2
    <3>5. ASSUME NEW i \in 1 .. Len(callbacks'[r]), NEW j \in 1 .. Len(callbacks'[r]),
                 callbacks'[r][i] = callbacks'[r][j]
          PROVE  i = j
      <4>1. \A k, l \in 1 .. Len(callbacks[r]) : callbacks[r][k] = callbacks[r][l] => k = l
        BY DEF ListInv
      <4>. DEFINE Later == 2 .. Len(callbacks[r]) + 1
      <4>2. \A k \in Later : callbacks'[r][k] # b
        BY <2>1, <3>2
      <4>3. ASSUME i \in Later, j \in Later
            PROVE  i = j
        <5>1. callbacks[r][i - 1] = callbacks[r][j - 1]
          BY <3>2, <3>5, <4>3
        <5>2. i - 1 \in 1 .. Len(callbacks[r]) /\ j - 1 \in 1 .. Len(callbacks[r])
          BY <3>2, <4>3
        <5>3. i - 1 = j - 1
          BY <4>1, <5>1, <5>2
        <5>. QED
          BY <4>3, <5>3
      <4>4. (i = 1 \/ i \in Later) /\ (j = 1 \/ j \in Later)
        BY <3>3
      <4>. QED
        BY <3>2, <3>5, <4>2, <4>3, <4>4
    <3>. QED
      BY <3>4, <3>5
  <2>3. CASE r # s
    BY <1>0, <1>1, <1>2, <1>3, <2>1, <2>3 DEF ListInv
  <2>. QED
    BY <2>2, <2>3
<1>8. PcInv'
  <2>1. ASSUME NEW u \in Threads, pc'[u] # "user"
        PROVE  /\ pc'[u] = pc[u] /\ arg'[u] = arg[u] /\ pc[u] # "user"
               /\ arg[u] \in Callbacks \ {b}
               /\ obj'[arg[u]] = obj[arg[u]] /\ registered'[arg[u]] = registered[arg[u]]
    BY <1>1, <1>3, <1>4, <1>5, <2>1 DEF PcInv
  <2>. QED
    BY <1>1, <2>1 DEF PcInv
<1>9. RunInv'
  BY <1>1, <1>3, <1>4, <1>5 DEF RunInv
<1>. QED
  BY <1>6, <1>7, <1>8, <1>9

\* The constructor calls the callback: the frame is the first that names it.
LEMMA CallInlineKeeps ==
  ASSUME TypeOK, FrameInv, ListInv, PcInv, RunInv, NEW t \in Threads, CallInline(t)
  PROVE  FrameInv' /\ ListInv' /\ PcInv' /\ RunInv'
<1>. DEFINE b == arg[t]
            d == depth[t] + 1
            new == [kind |-> "inline", state |-> state_[b], callback |-> b,
                    epoch |-> epoch[b], destroyed |-> FALSE]
<1>0. /\ depth \in [Threads -> 0 .. MaxDepth] /\ MaxDepth \in Nat
      /\ frame \in [Threads -> [1 .. MaxDepth -> Frame]]
      /\ state_ \in [Callbacks -> States \cup {None}]
      /\ pc \in [Threads -> {"user", "construct", "wait", "release"}]
      /\ arg \in [Threads -> Callbacks \cup {None}]
      /\ callbacks \in [States -> Seq(Callbacks)]
  BY StopTokenAssumption DEF TypeOK
<1>1. /\ pc[t] = "construct" /\ b \in Callbacks /\ state_[b] \in States /\ d \in 1 .. MaxDepth
      /\ obj[b] = "constructing" /\ ~registered[b] /\ ~running[b]
      /\ \A u \in Threads : \A i \in 1 .. depth[u] : frame[u][i].callback # b
  BY <1>0 DEF CallInline, PcInv
<1>2. /\ state_' = [state_ EXCEPT ![b] = None]
      /\ depth' = [depth EXCEPT ![t] = d]
      /\ frame' = [frame EXCEPT ![t][d] = new]
      /\ pc' = [pc EXCEPT ![t] = "user"]
      /\ arg' = [arg EXCEPT ![t] = None]
      /\ UNCHANGED <<callbacks, obj, registered, running, epoch>>
  BY DEF CallInline, statevars
<1>3. \A u \in Threads : \A i \in 1 .. depth'[u] :
        \/ u = t /\ i = d /\ frame'[u][i] = new
        \/ i \in 1 .. depth[u] /\ frame'[u][i] = frame[u][i]
  <2>. SUFFICES ASSUME NEW u \in Threads, NEW i \in 1 .. depth'[u], ~(u = t /\ i = d)
                PROVE  i \in 1 .. depth[u] /\ frame'[u][i] = frame[u][i]
    BY <1>0, <1>1, <1>2
  <2>1. CASE u = t
    BY <1>0, <1>1, <1>2, <2>1
  <2>2. CASE u # t
    BY <1>0, <1>2, <2>2
  <2>. QED
    BY <2>1, <2>2
<1>4. \A u \in Threads : \A i \in 1 .. depth[u] :
        i \in 1 .. depth'[u] /\ frame'[u][i] = frame[u][i]
  <2>. SUFFICES ASSUME NEW u \in Threads, NEW i \in 1 .. depth[u]
                PROVE  i \in 1 .. depth'[u] /\ frame'[u][i] = frame[u][i]
    OBVIOUS
  <2>1. CASE u = t
    BY <1>0, <1>1, <1>2, <2>1
  <2>2. CASE u # t
    BY <1>0, <1>2, <2>2
  <2>. QED
    BY <2>1, <2>2
<1>5. /\ new.callback = b /\ new.kind = "inline" /\ new.state = state_[b]
      /\ new.epoch = epoch[b] /\ ~new.destroyed
  OBVIOUS
<1>6. /\ \A c \in Callbacks \ {b} : state_'[c] = state_[c]
      /\ pc'[t] = "user"
      /\ \A u \in Threads \ {t} : pc'[u] = pc[u] /\ arg'[u] = arg[u]
  BY <1>0, <1>2
<1>. HIDE DEF b, d, new
<1>7. FrameInv'
  <2>1. ASSUME NEW u \in Threads, NEW i \in 1 .. depth[u]
        PROVE  frame[u][i].callback \in Callbacks \ {b}
    BY <1>1 DEF FrameInv
  <2>2. ASSUME NEW u \in Threads, NEW i \in 1 .. depth'[u]
        PROVE  LET f == frame'[u][i] IN
               /\ f.kind \in {"invoke", "inline"}
               /\ f.callback \in Callbacks
               /\ f.state \in States
               /\ f.epoch = epoch[f.callback]
               /\ ~registered[f.callback]
               /\ f.kind = "inline" =>
                    ~f.destroyed /\ obj[f.callback] = "constructing" /\ ~running[f.callback]
               /\ f.kind = "invoke" /\ ~f.destroyed =>
                    /\ obj[f.callback] \in {"alive", "destroying"}
                    /\ running[f.callback]
                    /\ state_'[f.callback] = f.state
    <3>1. CASE frame'[u][i] = new
      BY <1>1, <1>5, <3>1
    <3>2. CASE i \in 1 .. depth[u] /\ frame'[u][i] = frame[u][i]
      BY <1>6, <2>1, <3>2 DEF FrameInv
    <3>. QED
      BY <1>3, <3>1, <3>2
  <2>3. ASSUME NEW u \in Threads, NEW v \in Threads,
               NEW i \in 1 .. depth'[u], NEW j \in 1 .. depth'[v],
               frame'[u][i].callback = frame'[v][j].callback
        PROVE  u = v /\ i = j
    <3>1. CASE u = t /\ i = d /\ frame'[u][i] = new
      BY <1>3, <1>5, <2>1, <2>3, <3>1
    <3>2. CASE v = t /\ j = d /\ frame'[v][j] = new
      BY <1>3, <1>5, <2>1, <2>3, <3>2
    <3>3. CASE /\ i \in 1 .. depth[u] /\ frame'[u][i] = frame[u][i]
               /\ j \in 1 .. depth[v] /\ frame'[v][j] = frame[v][j]
      BY <2>3, <3>3 DEF FrameInv
    <3>. QED
      BY <1>3, <3>1, <3>2, <3>3
  <2>4. epoch' = epoch /\ registered' = registered /\ obj' = obj /\ running' = running
    BY <1>2
  <2>. QED
    BY <2>2, <2>3, <2>4 DEF FrameInv
<1>8. ListInv'
  <2>1. \A r \in States : \A i \in 1 .. Len(callbacks[r]) : callbacks[r][i] \in Callbacks \ {b}
    BY <1>0, <1>1 DEF ListInv
  <2>. QED
    BY <1>2, <1>6, <2>1 DEF ListInv
<1>9. PcInv'
  <2>1. ASSUME NEW u \in Threads, pc'[u] # "user"
        PROVE  /\ pc'[u] = pc[u] /\ arg'[u] = arg[u] /\ pc[u] # "user" /\ u # t
               /\ arg[u] \in Callbacks \ {b} /\ state_'[arg[u]] = state_[arg[u]]
    BY <1>1, <1>6, <2>1 DEF PcInv, b
  <2>2. \A u \in Threads : u # t => depth'[u] = depth[u]
    BY <1>0, <1>2
  <2>3. \A u \in Threads : pc'[u] = "construct" =>
          \A v \in Threads : \A i \in 1 .. depth'[v] : frame'[v][i].callback # arg[u]
    BY <1>3, <1>5, <2>1 DEF PcInv
  <2>4. \A u \in Threads : pc'[u] = "wait" =>
          \A i \in 1 .. depth'[u] : frame'[u][i].callback # arg[u]
    BY <1>3, <1>5, <2>1 DEF PcInv
  <2>5. \A u \in Threads : pc'[u] = "release" =>
          \A v \in Threads : \A i \in 1 .. depth'[v] :
            frame'[v][i].callback = arg[u] => frame'[v][i].destroyed
    BY <1>3, <1>5, <2>1 DEF PcInv
  <2>. QED
    BY <1>2, <2>1, <2>2, <2>3, <2>4, <2>5 DEF PcInv
<1>10. RunInv'
  <2>. SUFFICES ASSUME NEW c \in Callbacks, running[c],
                       obj[c] = "alive" \/ \E u \in Threads : pc'[u] = "wait" /\ arg'[u] = c
                PROVE  \E u \in Threads : \E i \in 1 .. depth'[u] :
                         /\ frame'[u][i].kind = "invoke"
                         /\ frame'[u][i].callback = c
                         /\ ~frame'[u][i].destroyed
    BY <1>2 DEF RunInv
  <2>1. PICK u \in Threads : \E i \in 1 .. depth[u] :
          frame[u][i].kind = "invoke" /\ frame[u][i].callback = c /\ ~frame[u][i].destroyed
    BY <1>6 DEF RunInv
  <2>. QED
    BY <1>4, <2>1
<1>. QED
  BY <1>7, <1>8, <1>9, <1>10

\* The object is not on a list and no frame names it: it can go.
LEMMA DestroyDetachedKeeps ==
  ASSUME TypeOK, FrameInv, ListInv, PcInv, RunInv, NEW t \in Threads,
         NEW b \in Callbacks, DestroyDetached(t, b)
  PROVE  FrameInv' /\ ListInv' /\ PcInv' /\ RunInv'
<1>1. /\ obj[b] = "alive" /\ state_[b] = None
      /\ obj \in [Callbacks -> {"free", "constructing", "alive", "destroying"}]
      /\ callbacks \in [States -> Seq(Callbacks)]
      /\ pc \in [Threads -> {"user", "construct", "wait", "release"}]
      /\ obj' = [obj EXCEPT ![b] = "free"]
      /\ UNCHANGED <<callbacks, state_, registered, running, epoch, pc, arg, depth, frame>>
  BY DEF DestroyDetached, TypeOK, statevars, thrvars
<1>2. \A c \in Callbacks \ {b} : obj'[c] = obj[c]
  BY <1>1
<1>3. FrameInv'
  <2>1. \A u \in Threads : \A i \in 1 .. depth[u] :
          ~frame[u][i].destroyed => frame[u][i].callback \in Callbacks \ {b}
    <3>. SUFFICES ASSUME NEW u \in Threads, NEW i \in 1 .. depth[u],
                         ~frame[u][i].destroyed, frame[u][i].callback = b
                  PROVE  FALSE
      BY DEF FrameInv
    <3>1. frame[u][i].kind = "inline" => obj[b] = "constructing"
      BY DEF FrameInv
    <3>2. frame[u][i].kind = "invoke" => state_[b] \in States
      BY DEF FrameInv
    <3>. QED
      BY <1>1, <3>1, <3>2, StopTokenAssumption DEF FrameInv
  <2>. QED
    BY <1>1, <1>2, <2>1 DEF FrameInv
<1>4. ListInv'
  <2>1. \A r \in States : \A i \in 1 .. Len(callbacks[r]) : callbacks[r][i] \in Callbacks \ {b}
    BY <1>1, ListElements, StopTokenAssumption
  <2>. QED
    BY <1>1, <1>2, <2>1 DEF ListInv
<1>5. PcInv'
  <2>1. \A u \in Threads : pc[u] # "user" => arg[u] \in Callbacks \ {b}
    BY <1>1 DEF PcInv
  <2>2. \A u \in Threads : pc[u] # "user" => obj'[arg[u]] = obj[arg[u]]
    BY <1>2, <2>1
  <2>3. ASSUME NEW u \in Threads, pc'[u] # "user"
        PROVE  /\ arg'[u] \in Callbacks
               /\ state_'[arg'[u]] \in States
               /\ ~registered'[arg'[u]]
    BY <1>1, <2>1, <2>3 DEF PcInv
  <2>4. ASSUME NEW u \in Threads, pc'[u] = "construct"
        PROVE  /\ obj'[arg'[u]] = "constructing" /\ depth'[u] < MaxDepth /\ ~running'[arg'[u]]
               /\ \A v \in Threads : \A i \in 1 .. depth'[v] : frame'[v][i].callback # arg'[u]
    BY <1>1, <2>2, <2>4 DEF PcInv
  <2>5. ASSUME NEW u \in Threads, pc'[u] \in {"wait", "release"}
        PROVE  obj'[arg'[u]] = "destroying"
    BY <1>1, <2>2, <2>5 DEF PcInv
  <2>6. ASSUME NEW u \in Threads, pc'[u] = "wait"
        PROVE  \A i \in 1 .. depth'[u] : frame'[u][i].callback # arg'[u]
    BY <1>1, <2>6 DEF PcInv
  <2>7. ASSUME NEW u \in Threads, pc'[u] = "release"
        PROVE  \A v \in Threads : \A i \in 1 .. depth'[v] :
                 frame'[v][i].callback = arg'[u] => frame'[v][i].destroyed
    BY <1>1, <2>7 DEF PcInv
  <2>8. \A u, v \in Threads :
          pc'[u] # "user" /\ pc'[v] # "user" /\ arg'[u] = arg'[v] => u = v
    BY <1>1 DEF PcInv
  <2>. QED
    BY <2>3, <2>4, <2>5, <2>6, <2>7, <2>8 DEF PcInv
<1>6. RunInv'
  BY <1>1, <1>2 DEF RunInv
<1>. QED
  BY <1>3, <1>4, <1>5, <1>6

\* The wait is over: no frame of the callback is live, or running_ were true.
LEMMA WaitDoneKeeps ==
  ASSUME TypeOK, FrameInv, ListInv, PcInv, RunInv, NEW t \in Threads, WaitDone(t)
  PROVE  FrameInv' /\ ListInv' /\ PcInv' /\ RunInv'
<1>1. /\ pc[t] = "wait" /\ ~running[arg[t]]
      /\ pc \in [Threads -> {"user", "construct", "wait", "release"}]
      /\ pc' = [pc EXCEPT ![t] = "release"]
      /\ UNCHANGED <<callbacks, obj, state_, registered, running, epoch, arg, depth, frame>>
  BY DEF WaitDone, TypeOK, statevars, cbvars
<1>2. \A u \in Threads : \A i \in 1 .. depth[u] :
        frame[u][i].callback = arg[t] => frame[u][i].destroyed
  BY <1>1 DEF FrameInv, PcInv
<1>3. FrameInv' /\ ListInv'
  BY <1>1 DEF FrameInv, ListInv
<1>4. pc'[t] = "release" /\ \A u \in Threads \ {t} : pc'[u] = pc[u]
  BY <1>1
<1>5. PcInv'
  BY <1>1, <1>2, <1>4 DEF PcInv
<1>6. RunInv'
  BY <1>1, <1>4 DEF RunInv
<1>. QED
  BY <1>3, <1>5, <1>6

\* The object goes: the frames that still name it were marked.
LEMMA EndDestroyKeeps ==
  ASSUME TypeOK, FrameInv, ListInv, PcInv, RunInv, NEW t \in Threads, EndDestroy(t)
  PROVE  FrameInv' /\ ListInv' /\ PcInv' /\ RunInv'
<1>. DEFINE b == arg[t]
<1>1. /\ pc[t] = "release" /\ b \in Callbacks /\ obj[b] = "destroying"
      /\ obj \in [Callbacks -> {"free", "constructing", "alive", "destroying"}]
      /\ state_ \in [Callbacks -> States \cup {None}]
      /\ pc \in [Threads -> {"user", "construct", "wait", "release"}]
      /\ arg \in [Threads -> Callbacks \cup {None}]
      /\ callbacks \in [States -> Seq(Callbacks)]
      /\ UNCHANGED <<callbacks, registered, running, epoch, depth, frame>>
  BY DEF EndDestroy, TypeOK, PcInv
<1>2. /\ \A c \in Callbacks \ {b} : obj'[c] = obj[c] /\ state_'[c] = state_[c]
      /\ obj'[b] = "free"
      /\ pc'[t] = "user"
      /\ \A u \in Threads \ {t} : pc'[u] = pc[u] /\ arg'[u] = arg[u]
  BY <1>1 DEF EndDestroy
<1>3. \A u \in Threads : \A i \in 1 .. depth[u] :
        /\ frame[u][i].callback = b => frame[u][i].destroyed /\ frame[u][i].kind = "invoke"
        /\ frame[u][i].callback \in Callbacks
  BY <1>1 DEF PcInv, FrameInv
<1>4. FrameInv'
  BY <1>1, <1>2, <1>3 DEF FrameInv
<1>5. ListInv'
  <2>1. \A r \in States : \A i \in 1 .. Len(callbacks[r]) : callbacks[r][i] \in Callbacks \ {b}
    BY <1>1, ListElements
  <2>. QED
    <3>. SUFFICES ASSUME NEW r \in States, NEW i \in 1 .. Len(callbacks[r])
                  PROVE  /\ obj'[callbacks[r][i]] = obj[callbacks[r][i]]
                         /\ state_'[callbacks[r][i]] = state_[callbacks[r][i]]
      BY <1>1 DEF ListInv
    <3>. QED
      BY <1>2, <2>1
<1>6. PcInv'
  <2>1. ASSUME NEW u \in Threads, pc'[u] # "user"
        PROVE  /\ pc'[u] = pc[u] /\ arg'[u] = arg[u] /\ pc[u] # "user" /\ u # t
               /\ arg[u] \in Callbacks \ {b} /\ state_'[arg[u]] = state_[arg[u]]
               /\ obj'[arg[u]] = obj[arg[u]]
    BY <1>1, <1>2, <2>1 DEF PcInv
  <2>. QED
    BY <1>1, <2>1 DEF PcInv
<1>7. RunInv'
  <2>1. \A u \in Threads : pc'[u] = "wait" => pc[u] = "wait" /\ arg'[u] = arg[u] /\ arg[u] # b
    BY <1>1, <1>2 DEF PcInv
  <2>2. \A c \in Callbacks : obj'[c] = "alive" => obj[c] = "alive"
    BY <1>2
  <2>. QED
    BY <1>1, <2>1, <2>2 DEF RunInv
<1>. QED
  BY <1>4, <1>5, <1>6, <1>7

\* The destructor unlinks the callback, and marks its frame, waits, or goes on.
LEMMA BeginDestroyKeeps ==
  ASSUME TypeOK, FrameInv, ListInv, PcInv, RunInv, NEW t \in Threads,
         NEW b \in Callbacks, BeginDestroy(t, b)
  PROVE  FrameInv' /\ ListInv' /\ PcInv' /\ RunInv'
<1>. DEFINE s == state_[b]
<1>0. /\ obj \in [Callbacks -> {"free", "constructing", "alive", "destroying"}]
      /\ state_ \in [Callbacks -> States \cup {None}]
      /\ registered \in [Callbacks -> BOOLEAN]
      /\ callbacks \in [States -> Seq(Callbacks)]
      /\ pc \in [Threads -> {"user", "construct", "wait", "release"}]
      /\ arg \in [Threads -> Callbacks \cup {None}]
      /\ depth \in [Threads -> 0 .. MaxDepth] /\ MaxDepth \in Nat
      /\ frame \in [Threads -> [1 .. MaxDepth -> Frame]]
  BY StopTokenAssumption DEF TypeOK
<1>1. /\ pc[t] = "user" /\ obj[b] = "alive" /\ s \in States
      /\ obj' = [obj EXCEPT ![b] = "destroying"]
      /\ registered' = [registered EXCEPT ![b] = FALSE]
      /\ callbacks' = IF registered[b]
                      THEN [callbacks EXCEPT ![s] = remove_callback(@, b)]
                      ELSE callbacks
      /\ arg' = [arg EXCEPT ![t] = b]
      /\ UNCHANGED <<state_, running, epoch, depth>>
  BY <1>0 DEF BeginDestroy, InUserCode
<1>2. /\ \A c \in Callbacks \ {b} : obj'[c] = obj[c] /\ registered'[c] = registered[c]
      /\ obj'[b] = "destroying" /\ ~registered'[b]
      /\ arg'[t] = b /\ \A u \in Threads \ {t} : arg'[u] = arg[u]
  BY <1>0, <1>1
<1>3. /\ pc'[t] \in {"wait", "release"}
      /\ \A u \in Threads \ {t} : pc'[u] = pc[u]
  BY <1>0 DEF BeginDestroy
\* Frames: at most the one frame of b on this thread changes, to destroyed.
<1>4. \A u \in Threads : \A i \in 1 .. depth[u] :
        \/ frame'[u][i] = frame[u][i]
        \/ /\ u = t /\ frame[u][i].callback = b
           /\ frame[u][i].kind = "invoke"
           /\ frame'[u][i] = Marked(frame[u][i])
  <2>1. CASE InFrames(t, b) = {}
    BY <2>1 DEF BeginDestroy
  <2>2. CASE InFrames(t, b) # {}
    <3>1. PICK k \in 1 .. depth[t] :
            /\ frame[t][k].kind = "invoke"
            /\ frame[t][k].callback = b
            /\ mark_destroyed(t, b) = [frame EXCEPT ![t][k] = Marked(frame[t][k])]
      BY <2>2, MarkDestroyed
    <3>2. frame' = [frame EXCEPT ![t][k] = Marked(frame[t][k])]
      BY <2>2, <3>1 DEF BeginDestroy
    <3>. QED
      BY <1>0, <3>1, <3>2
  <2>. QED
    BY <2>1, <2>2
<1>5. \A u \in Threads : \A i \in 1 .. depth[u] :
        LET f == frame[u][i]  g == frame'[u][i] IN
        /\ g.kind = f.kind /\ g.state = f.state /\ g.callback = f.callback
        /\ g.epoch = f.epoch
        /\ g.destroyed # f.destroyed => g.destroyed /\ f.callback = b /\ f.kind = "invoke"
        /\ f.destroyed => g.destroyed
  <2>. SUFFICES ASSUME NEW u \in Threads, NEW i \in 1 .. depth[u],
                       frame'[u][i] = Marked(frame[u][i]),
                       frame[u][i].callback = b, frame[u][i].kind = "invoke"
                PROVE  LET f == frame[u][i]  g == frame'[u][i] IN
                       /\ g.kind = f.kind /\ g.state = f.state /\ g.callback = f.callback
                       /\ g.epoch = f.epoch /\ g.destroyed
    BY <1>4
  <2>. QED
    BY DEF Marked
\* On this thread the frame of b, if there is one, is marked.
<1>6. pc'[t] = "release" =>
        \A u \in Threads : \A i \in 1 .. depth[u] :
          frame'[u][i].callback = b => frame'[u][i].destroyed
  <2>. SUFFICES ASSUME pc'[t] = "release", NEW u \in Threads, NEW i \in 1 .. depth[u],
                       frame[u][i].callback = b
                PROVE  frame'[u][i].destroyed
    BY <1>5
  <2>0. frame[u][i].kind = "invoke"
    BY <1>1 DEF FrameInv
  <2>1. CASE InFrames(t, b) = {}
    <3>1. ~running[b]
      BY <1>0, <2>1 DEF BeginDestroy
    <3>2. frame[u][i].destroyed
      BY <2>0, <3>1 DEF FrameInv
    <3>. QED
      BY <1>5, <3>2
  <2>2. CASE InFrames(t, b) # {}
    <3>1. PICK k \in 1 .. depth[t] :
            /\ frame[t][k].kind = "invoke"
            /\ frame[t][k].callback = b
            /\ mark_destroyed(t, b) = [frame EXCEPT ![t][k] = Marked(frame[t][k])]
      BY <2>2, MarkDestroyed
    <3>2. u = t /\ i = k
      BY <3>1 DEF FrameInv
    <3>3. frame' = [frame EXCEPT ![t][k] = Marked(frame[t][k])]
      BY <2>2, <3>1 DEF BeginDestroy
    <3>4. frame'[t][k] = Marked(frame[t][k])
      BY <1>0, <3>3
    <3>. QED
      BY <3>2, <3>4 DEF Marked
  <2>. QED
    BY <2>1, <2>2
<1>7. pc'[t] = "wait" =>
        /\ frame' = frame
        /\ \A i \in 1 .. depth[t] : frame[t][i].callback # b
  <2>. SUFFICES ASSUME pc'[t] = "wait"
                PROVE  frame' = frame /\ \A i \in 1 .. depth[t] : frame[t][i].callback # b
    OBVIOUS
  <2>1. InFrames(t, b) = {} /\ frame' = frame
    BY <1>0 DEF BeginDestroy
  <2>2. ASSUME NEW i \in 1 .. depth[t], frame[t][i].callback = b
        PROVE  FALSE
    <3>1. frame[t][i].kind = "invoke"
      BY <1>1, <2>2 DEF FrameInv
    <3>. QED
      BY <2>1, <2>2, <3>1 DEF InFrames
  <2>. QED
    BY <2>1, <2>2
<1>. HIDE DEF s
<1>8. \A u \in Threads : pc[u] # "user" => u # t /\ arg[u] \in Callbacks \ {b}
  BY <1>0, <1>1 DEF PcInv
<1>9. FrameInv'
  <2>1. ASSUME NEW u \in Threads, NEW i \in 1 .. depth[u]
        PROVE  LET f == frame'[u][i] IN
               /\ f.kind \in {"invoke", "inline"}
               /\ f.callback \in Callbacks
               /\ f.state \in States
               /\ f.epoch = epoch[f.callback]
               /\ ~registered'[f.callback]
               /\ f.kind = "inline" =>
                    ~f.destroyed /\ obj'[f.callback] = "constructing" /\ ~running[f.callback]
               /\ f.kind = "invoke" /\ ~f.destroyed =>
                    /\ obj'[f.callback] \in {"alive", "destroying"}
                    /\ running[f.callback]
                    /\ state_[f.callback] = f.state
    <3>1. CASE frame[u][i].callback = b
      <4>1. frame[u][i].kind = "invoke"
        BY <1>1, <3>1 DEF FrameInv
      <4>. QED
        BY <1>2, <1>5, <3>1, <4>1 DEF FrameInv
    <3>2. CASE frame[u][i].callback # b
      <4>1. frame[u][i].callback \in Callbacks \ {b} /\ frame'[u][i] = frame[u][i]
        BY <1>4, <3>2 DEF FrameInv
      <4>. QED
        BY <1>2, <4>1 DEF FrameInv
    <3>. QED
      BY <3>1, <3>2
  <2>2. ASSUME NEW u \in Threads, NEW v \in Threads,
               NEW i \in 1 .. depth[u], NEW j \in 1 .. depth[v],
               frame'[u][i].callback = frame'[v][j].callback
        PROVE  u = v /\ i = j
    BY <1>5, <2>2 DEF FrameInv
  <2>. QED
    BY <1>1, <2>1, <2>2 DEF FrameInv
<1>10. ListInv'
  <2>. SUFFICES ASSUME NEW r \in States
                PROVE  /\ \A i \in 1 .. Len(callbacks'[r]) : \E k \in 1 .. Len(callbacks[r]) :
                            callbacks'[r][i] = callbacks[r][k] /\ callbacks[r][k] # b
                       /\ \A i, j \in 1 .. Len(callbacks'[r]) :
                            callbacks'[r][i] = callbacks'[r][j] => i = j
    <3>1. ASSUME NEW q \in States, NEW k \in 1 .. Len(callbacks[q]), callbacks[q][k] # b
          PROVE  /\ registered'[callbacks[q][k]]
                 /\ obj'[callbacks[q][k]] = "alive"
                 /\ state_[callbacks[q][k]] = q
      BY <1>2, <3>1, ListElements DEF ListInv
    <3>. QED
      BY <1>1, <3>1 DEF ListInv
  <2>0. \A i, j \in 1 .. Len(callbacks[r]) : callbacks[r][i] = callbacks[r][j] => i = j
    BY DEF ListInv
  <2>1. CASE r = s /\ registered[b]
    <3>1. callbacks'[r] = remove_callback(callbacks[r], b)
      BY <1>0, <1>1, <2>1
    <3>2. callbacks[r] \in Seq(Callbacks)
      BY <1>0
    <3>. DEFINE new == remove_callback(callbacks[r], b)
    <3>4. /\ \A i \in 1 .. Len(new) : \E k \in 1 .. Len(callbacks[r]) :
               new[i] = callbacks[r][k]
          /\ \A i, j \in 1 .. Len(new) : new[i] = new[j] => i = j
          /\ \A i \in 1 .. Len(new) : new[i] # b
      <4>. HIDE DEF new
      <4>1. LET n == new IN
            /\ \A i \in 1 .. Len(n) : \E k \in 1 .. Len(callbacks[r]) : n[i] = callbacks[r][k]
            /\ (\A i, j \in 1 .. Len(callbacks[r]) : callbacks[r][i] = callbacks[r][j] => i = j) =>
                 /\ \A i, j \in 1 .. Len(n) : n[i] = n[j] => i = j
                 /\ \A i \in 1 .. Len(n) : n[i] # b
        BY <3>2, RemoveCallback DEF new
      <4>. QED
        BY <2>0, <4>1
    <3>3. /\ \A i \in 1 .. Len(callbacks'[r]) : \E k \in 1 .. Len(callbacks[r]) :
               callbacks'[r][i] = callbacks[r][k]
          /\ \A i, j \in 1 .. Len(callbacks'[r]) : callbacks'[r][i] = callbacks'[r][j] => i = j
          /\ \A i \in 1 .. Len(callbacks'[r]) : callbacks'[r][i] # b
      BY <3>1, <3>4
    <3>. QED
      BY <3>3
  <2>2. CASE ~(r = s /\ registered[b])
    <3>1. callbacks'[r] = callbacks[r]
      BY <1>0, <1>1, <2>2
    <3>2. \A i \in 1 .. Len(callbacks[r]) : callbacks[r][i] # b
      BY <2>2 DEF ListInv, s
    <3>. QED
      BY <2>0, <3>1, <3>2
  <2>. QED
    BY <2>1, <2>2
<1>11. PcInv'
  <2>1. ASSUME NEW u \in Threads, u # t, pc'[u] # "user"
        PROVE  /\ pc'[u] = pc[u] /\ arg'[u] = arg[u] /\ arg[u] \in Callbacks \ {b}
               /\ obj'[arg[u]] = obj[arg[u]] /\ registered'[arg[u]] = registered[arg[u]]
    BY <1>2, <1>3, <1>8, <2>1
  <2>2. \A u, v \in Threads : \A i \in 1 .. depth[v] :
          u # t /\ pc'[u] # "user" =>
            (frame'[v][i].callback = arg'[u] => frame'[v][i] = frame[v][i])
    BY <1>4, <1>5, <2>1
  <2>3. \A v \in Threads : \A i \in 1 .. depth[v] : frame'[v][i].callback = frame[v][i].callback
    BY <1>5
  <2>4. ASSUME NEW u \in Threads, u # t, pc'[u] # "user"
        PROVE  /\ arg'[u] \in Callbacks
               /\ state_[arg'[u]] \in States
               /\ ~registered'[arg'[u]]
               /\ pc'[u] = "construct" =>
                    /\ obj'[arg'[u]] = "constructing"
                    /\ depth[u] < MaxDepth
                    /\ ~running[arg'[u]]
                    /\ \A v \in Threads : \A i \in 1 .. depth[v] :
                         frame'[v][i].callback # arg'[u]
               /\ pc'[u] \in {"wait", "release"} => obj'[arg'[u]] = "destroying"
               /\ pc'[u] = "wait" => \A i \in 1 .. depth[u] : frame'[u][i].callback # arg'[u]
               /\ pc'[u] = "release" =>
                    \A v \in Threads : \A i \in 1 .. depth[v] :
                      frame'[v][i].callback = arg'[u] => frame'[v][i].destroyed
    BY <2>1, <2>2, <2>3, <2>4 DEF PcInv
  <2>5. /\ arg'[t] \in Callbacks /\ state_[arg'[t]] \in States /\ ~registered'[arg'[t]]
        /\ pc'[t] # "construct" /\ obj'[arg'[t]] = "destroying"
        /\ pc'[t] = "wait" => \A i \in 1 .. depth[t] : frame'[t][i].callback # arg'[t]
        /\ pc'[t] = "release" =>
             \A v \in Threads : \A i \in 1 .. depth[v] :
               frame'[v][i].callback = arg'[t] => frame'[v][i].destroyed
    BY <1>1, <1>2, <1>3, <1>6, <1>7 DEF s
  <2>6. \A u, v \in Threads : pc'[u] # "user" /\ pc'[v] # "user" /\ arg'[u] = arg'[v] => u = v
    BY <1>2, <1>3, <1>8 DEF PcInv
  <2>. QED
    BY <1>1, <2>4, <2>5, <2>6 DEF PcInv
<1>12. RunInv'
  <2>. SUFFICES ASSUME NEW c \in Callbacks, running[c],
                       obj'[c] = "alive" \/ \E u \in Threads : pc'[u] = "wait" /\ arg'[u] = c
                PROVE  \E u \in Threads : \E i \in 1 .. depth[u] :
                         /\ frame'[u][i].kind = "invoke"
                         /\ frame'[u][i].callback = c
                         /\ ~frame'[u][i].destroyed
    BY <1>1 DEF RunInv
  <2>1. obj[c] = "alive" \/ \E u \in Threads : pc[u] = "wait" /\ arg[u] = c
    BY <1>1, <1>2, <1>3
  <2>2. PICK u \in Threads : \E i \in 1 .. depth[u] :
          frame[u][i].kind = "invoke" /\ frame[u][i].callback = c /\ ~frame[u][i].destroyed
    BY <2>1 DEF RunInv
  <2>3. PICK i \in 1 .. depth[u] :
          frame[u][i].kind = "invoke" /\ frame[u][i].callback = c /\ ~frame[u][i].destroyed
    BY <2>2
  <2>4. frame'[u][i] = frame[u][i]
    <3>1. CASE c # b
      BY <1>4, <2>3, <3>1
    <3>2. CASE c = b
      <4>1. pc'[t] = "wait"
        <5>1. PICK v \in Threads : pc'[v] = "wait" /\ arg'[v] = b
          BY <1>2, <3>2
        <5>2. v = t
          BY <1>2, <1>3, <1>8, <5>1
        <5>. QED
          BY <5>1, <5>2
      <4>. QED
        BY <1>7, <4>1
    <3>. QED
      BY <3>1, <3>2
  <2>. QED
    BY <2>3, <2>4
<1>. QED
  BY <1>9, <1>10, <1>11, <1>12

-----------------------------------------------------------------------------
(* The theorems. *)

LEMMA Initially ==
  ASSUME Init
  PROVE  IInv
<1>1. NoFrame \in Frame
  BY StopTokenAssumption DEF NoFrame, Frame
<1>2. TypeOK
  BY <1>1, StopTokenAssumption DEF Init, TypeOK
<1>3. FrameInv /\ PcInv /\ RunInv
  BY DEF Init, FrameInv, PcInv, RunInv
<1>4. ListInv
  <2>1. \A s \in States : Len(callbacks[s]) = 0
    BY DEF Init
  <2>. QED
    BY <2>1 DEF ListInv
<1>. QED
  BY <1>2, <1>3, <1>4 DEF IInv

LEMMA Inductive ==
  ASSUME ~EagerReuse, IInv, [Next]_vars
  PROVE  IInv'
<1>1. TypeOK'
  BY TypeStep
<1>2. TypeOK /\ FrameInv /\ ListInv /\ PcInv /\ RunInv
  BY DEF IInv
<1>. DEFINE Rest == FrameInv /\ ListInv /\ PcInv /\ RunInv
<1>3. CASE Handles \/ UNCHANGED vars
  BY <1>1, <1>3, HandlesKeep DEF IInv
<1>4. ASSUME NEW t \in Threads, NEW s \in States, RequestStop(t, s)
      PROVE  Rest'
  <2>1. pc[t] = "user" /\ UNCHANGED <<obj, state_, epoch, pc, arg>>
    BY <1>4 DEF RequestStop, InUserCode
  <2>2. CASE callbacks[s] # <<>> /\ TakeNext(t, s, depth[t] + 1, running)
    <3>1. depth[t] + 1 \in 1 .. MaxDepth /\ running \in [Callbacks -> BOOLEAN]
      BY <1>2, <1>4, StopTokenAssumption DEF RequestStop, TypeOK
    <3>. QED
      BY <1>2, <2>1, <2>2, <3>1, TakeNextKeeps
  <2>3. CASE UNCHANGED <<callbacks, registered, running, depth, frame>>
    BY <1>2, <2>1, <2>3 DEF FrameInv, ListInv, PcInv, RunInv
  <2>. QED
    BY <1>4, <2>2, <2>3 DEF RequestStop
<1>5. ASSUME NEW t \in Threads, InvokeReturn(t)
      PROVE  Rest'
  <2>1. CASE More(Top(t).state)
    <3>. DEFINE s == Top(t).state
    <3>1. /\ callbacks[s] # <<>> /\ TakeNext(t, s, depth[t], StopRunning(t))
          /\ pc[t] = "user" /\ UNCHANGED <<obj, state_, epoch, pc, arg>>
          /\ frame[t][depth[t]].kind = "invoke"
      BY <1>5, <2>1 DEF InvokeReturn, More, InUserCode, Top
    <3>2. depth[t] \in 1 .. MaxDepth /\ depth[t] \in 1 .. depth[t]
      BY <1>2, <1>5, StopTokenAssumption DEF InvokeReturn, TypeOK
    <3>3. s \in States /\ StopRunning(t) \in [Callbacks -> BOOLEAN]
      BY <1>2, <3>2 DEF FrameInv, StopRunning, Top, TypeOK
    <3>. QED
      BY <1>2, <3>1, <3>2, <3>3, TakeNextKeeps
  <2>2. CASE ~More(Top(t).state)
    BY <1>2, <1>5, <2>2, ReturnKeeps
  <2>. QED
    BY <2>1, <2>2
<1>6. ASSUME NEW t \in Threads, UserCall(t) \/ Proceed(t)
      PROVE  Rest'
  BY <1>2, <1>4, <1>5, <1>6, BeginConstructKeeps, RegisterKeeps, CallInlineKeeps,
     InlineReturnKeeps, DestroyDetachedKeeps, BeginDestroyKeeps, WaitDoneKeeps,
     EndDestroyKeeps
  DEF UserCall, Proceed
<1>. QED
  BY <1>1, <1>3, <1>6 DEF IInv, Next, Quiet

LEMMA Invariant ==
  ASSUME ~EagerReuse
  PROVE  Spec => []IInv
<1>1. Init => IInv
  BY Initially
<1>2. IInv /\ [Next]_vars => IInv'
  BY Inductive
<1>. QED
  BY <1>1, <1>2, PTL DEF Spec

\* Every variable keeps its type: in particular the counts of handles never
\* fall below zero and a thread's frames never run out of its stack.
THEOREM TypeCorrect ==
  ASSUME ~EagerReuse
  PROVE  Spec => []TypeOK
<1>1. IInv => TypeOK
  BY DEF IInv
<1>. QED
  BY <1>1, Invariant, PTL

\* While a call of a callback is on a stack and has not destroyed it, its
\* object is there, and is the one that was registered: for any number of
\* threads, stop states and callbacks, and calls nested to any depth.
THEOREM RunIsSafe ==
  ASSUME ~EagerReuse
  PROVE  Spec => []RunSafe
<1>1. IInv => RunSafe
  BY DEF IInv, FrameInv, RunSafe
<1>. QED
  BY <1>1, Invariant, PTL

\* A destructor waits only for a call on another thread that will wake it.
THEOREM WaitIsForSomeone ==
  ASSUME ~EagerReuse
  PROVE  Spec => []WaitIsForACall
<1>1. ASSUME IInv
      PROVE  WaitIsForACall
  <2>. SUFFICES ASSUME NEW t \in Threads, pc[t] = "wait", running[arg[t]]
                PROVE  \E u \in Threads \ {t} : \E i \in 1 .. depth[u] :
                         /\ frame[u][i].kind = "invoke"
                         /\ frame[u][i].callback = arg[t]
                         /\ IsLive(frame[u][i])
    BY DEF WaitIsForACall
  <2>1. arg[t] \in Callbacks /\ \A i \in 1 .. depth[t] : frame[t][i].callback # arg[t]
    BY <1>1 DEF IInv, PcInv
  <2>2. PICK u \in Threads : \E i \in 1 .. depth[u] :
          frame[u][i].kind = "invoke" /\ frame[u][i].callback = arg[t] /\ ~frame[u][i].destroyed
    BY <1>1, <2>1 DEF IInv, RunInv
  <2>. QED
    BY <1>1, <2>1, <2>2 DEF IInv, FrameInv, IsLive
<1>. QED
  BY <1>1, Invariant, PTL

\* How many places of H hold the reference c.
Refs(f, H, c) == Cardinality({x \in H : f[x] = c})

Is(x, c) == IF x = c THEN 1 ELSE 0

\* A reference is counted once or not at all.
LEMMA IsOneOrZero == \A x, c : /\ Is(x, c) \in {0, 1}
                               /\ x = c => Is(x, c) = 1
                               /\ x # c => Is(x, c) = 0
  BY DEF Is

\* Finitely many places hold finitely many pointers.
LEMMA RefsNat ==
  ASSUME NEW H, IsFiniteSet(H), NEW f, NEW c
  PROVE  Refs(f, H, c) \in Nat
<1>1. IsFiniteSet({x \in H : f[x] = c})
  BY FS_Subset
<1> QED
  BY <1>1, FS_CardinalityType DEF Refs

\* A place that holds the pointer is counted.
LEMMA RefsFound ==
  ASSUME NEW H, IsFiniteSet(H), NEW f, NEW c, NEW h \in H, f[h] = c
  PROVE  Refs(f, H, c) > 0
<1> DEFINE S == {x \in H : f[x] = c}
<1>1. IsFiniteSet(S) /\ S # {}
  BY FS_Subset
<1>2. Cardinality(S) # 0 /\ Cardinality(S) \in Nat
  BY <1>1, FS_EmptySet, FS_CardinalityType
<1> QED
  BY <1>2 DEF Refs

\* The count depends on which places hold the pointer, and on nothing else.
LEMMA RefsSame ==
  ASSUME NEW H, NEW f, NEW g, NEW c, \A x \in H : (g[x] = c) <=> (f[x] = c)
  PROVE  Refs(g, H, c) = Refs(f, H, c)
<1>1. {x \in H : g[x] = c} = {x \in H : f[x] = c}
  OBVIOUS
<1> QED
  BY <1>1 DEF Refs

\* One place changes: it is counted after the step if it holds the pointer then,
\* and before it if it held the pointer then.
LEMMA RefsMove ==
  ASSUME NEW H, IsFiniteSet(H), NEW f, NEW g, NEW c, NEW h \in H,
         \A x \in H : x # h => g[x] = f[x]
  PROVE  Refs(g, H, c) = Refs(f, H, c) + Is(g[h], c) - Is(f[h], c)
<1> DEFINE F == {x \in H : f[x] = c}
           G == {x \in H : g[x] = c}
<1>1. IsFiniteSet(F) /\ IsFiniteSet(G) /\ Cardinality(F) \in Nat /\ Cardinality(G) \in Nat
  BY FS_Subset, FS_CardinalityType
<1>2. CASE (f[h] = c) <=> (g[h] = c)
  <2>1. F = G
    BY <1>2
  <2>2. Is(g[h], c) = Is(f[h], c) /\ Is(f[h], c) \in {0, 1}
    BY <1>2, IsOneOrZero
  <2>3. Refs(g, H, c) = Refs(f, H, c) /\ Refs(f, H, c) \in Nat
    BY <2>1, RefsNat DEF Refs
  <2> QED
    BY <2>2, <2>3
<1>3. CASE f[h] = c /\ g[h] # c
  <2>1. F = G \cup {h} /\ h \notin G
    BY <1>3
  <2> HIDE DEF F, G
  <2>2. Cardinality(F) = Cardinality(G) + 1
    BY <1>1, <2>1, FS_AddElement
  <2>3. Is(g[h], c) = 0 /\ Is(f[h], c) = 1
    BY <1>3, IsOneOrZero
  <2> QED
    BY <1>1, <2>2, <2>3 DEF Refs, F, G
<1>4. CASE f[h] # c /\ g[h] = c
  <2>1. G = F \cup {h} /\ h \notin F
    BY <1>4
  <2> HIDE DEF F, G
  <2>2. Cardinality(G) = Cardinality(F) + 1
    BY <1>1, <2>1, FS_AddElement
  <2>3. Is(g[h], c) = 1 /\ Is(f[h], c) = 0
    BY <1>4, IsOneOrZero
  <2> QED
    BY <1>1, <2>2, <2>3 DEF Refs, F, G
<1> QED
  BY <1>2, <1>3, <1>4

-----------------------------------------------------------------------------
(* The reference counts. *)

\* The states that the inline frames refer to.
Inlined == [x \in Threads \X (1 .. MaxDepth) |->
              IF x[2] <= depth[x[1]] /\ frame[x[1]][x[2]].kind = "inline"
              THEN frame[x[1]][x[2]].state ELSE None]

\* The places where a reference to a stop state can be are finitely many.
LEMMA FinitePlaces ==
  IsFiniteSet(Callbacks) /\ IsFiniteSet(Threads \X (1 .. MaxDepth))
<1>1. IsFiniteSet(1 .. MaxDepth)
  BY StopTokenAssumption, FS_Interval
<1> QED
  BY <1>1, StopTokenAssumption, FS_Product

\* An object that is gone refers to no state.
FreeInv == \A c \in Callbacks : obj[c] = "free" => state_[c] = None

\* RefsExact, with the references place by place.
RefsInv == \A s \in States :
  refs[s] = sources[s] + tokens[s] + Refs(state_, Callbacks, s)
              + Refs(Inlined, Threads \X (1 .. MaxDepth), s)

\* RefsExact, place by place.
LEMMA RefsAre == RefsExact <=> RefsInv
<1>1. ASSUME NEW s \in States
      PROVE  {f \in Threads \X (1 .. MaxDepth) :
                /\ f[2] <= depth[f[1]]
                /\ frame[f[1]][f[2]].kind = "inline"
                /\ frame[f[1]][f[2]].state = s}
             = {x \in Threads \X (1 .. MaxDepth) : Inlined[x] = s}
  BY StopTokenAssumption DEF Inlined
<1> QED
  BY <1>1 DEF RefsExact, RefsInv, Refs

\* RefsInv after the step.
LEMMA RefsInvNext ==
  RefsInv' <=> \A s \in States :
    refs'[s] = sources'[s] + tokens'[s] + Refs(state_', Callbacks, s)
                 + Refs(Inlined', Threads \X (1 .. MaxDepth), s)
  BY DEF RefsInv, Refs

\* The parts of a reference count are numbers.
LEMMA PartsNat ==
  \A s : /\ Refs(state_, Callbacks, s) \in Nat
         /\ Refs(Inlined, Threads \X (1 .. MaxDepth), s) \in Nat
  BY FinitePlaces, RefsNat

\* A step that leaves the inline frames alone.
LEMMA InlinedSame ==
  ASSUME \A x \in Threads \X (1 .. MaxDepth) : Inlined'[x] = Inlined[x], NEW s
  PROVE  Refs(Inlined', Threads \X (1 .. MaxDepth), s) = Refs(Inlined, Threads \X (1 .. MaxDepth), s)
<1> DEFINE H == Threads \X (1 .. MaxDepth)
           f == Inlined
           g == Inlined'
<1>1. \A x \in H : (g[x] = s) <=> (f[x] = s)
  OBVIOUS
<1> HIDE DEF H, f, g
<1>2. Refs(g, H, s) = Refs(f, H, s)
  BY <1>1, RefsSame
<1> QED
  BY <1>2 DEF H, f, g

\* A step that changes one place of the inline frames.
LEMMA InlinedMove ==
  ASSUME NEW t \in Threads, NEW d \in 1 .. MaxDepth,
         \A x \in Threads \X (1 .. MaxDepth) : x # <<t, d>> => Inlined'[x] = Inlined[x],
         NEW s
  PROVE  Refs(Inlined', Threads \X (1 .. MaxDepth), s)
           = Refs(Inlined, Threads \X (1 .. MaxDepth), s)
               + Is(Inlined'[<<t, d>>], s) - Is(Inlined[<<t, d>>], s)
<1> DEFINE H == Threads \X (1 .. MaxDepth)
           f == Inlined
           g == Inlined'
           h == <<t, d>>
<1>1. /\ IsFiniteSet(H) /\ h \in H
      /\ \A x \in H : x # h => g[x] = f[x]
  BY FinitePlaces
<1> HIDE DEF H, f, g, h
<1>2. Refs(g, H, s) = Refs(f, H, s) + Is(g[h], s) - Is(f[h], s)
  BY ONLY <1>1, RefsMove
<1> QED
  BY <1>2 DEF H, f, g, h

\* A step that changes what one callback refers to.
LEMMA StateMove ==
  ASSUME NEW c \in Callbacks, \A b \in Callbacks : b # c => state_'[b] = state_[b], NEW s
  PROVE  Refs(state_', Callbacks, s)
           = Refs(state_, Callbacks, s) + Is(state_'[c], s) - Is(state_[c], s)
<1> DEFINE f == state_
           g == state_'
<1>1. /\ IsFiniteSet(Callbacks) /\ \A x \in Callbacks : x # c => g[x] = f[x]
  BY FinitePlaces
<1> HIDE DEF f, g
<1>2. Refs(g, Callbacks, s) = Refs(f, Callbacks, s) + Is(g[c], s) - Is(f[c], s)
  BY ONLY <1>1, RefsMove
<1> QED
  BY <1>2 DEF f, g

\* The null pointer is no reference.
LEMMA NoReference == \A s \in States : Is(None, s) = 0
  BY StopTokenAssumption, IsOneOrZero

\* A step that changes the counts alike.
LEMMA RefsKept ==
  ASSUME TypeOK, RefsInv,
         \A x \in Threads \X (1 .. MaxDepth) : Inlined'[x] = Inlined[x],
         UNCHANGED state_,
         \A s \in States : refs'[s] - sources'[s] - tokens'[s] = refs[s] - sources[s] - tokens[s],
         \A s \in States : refs'[s] \in Int /\ sources'[s] \in Int /\ tokens'[s] \in Int
  PROVE  RefsInv'
<1> SUFFICES ASSUME NEW s \in States
             PROVE  refs'[s] = sources'[s] + tokens'[s] + Refs(state_', Callbacks, s)
                                 + Refs(Inlined', Threads \X (1 .. MaxDepth), s)
  BY RefsInvNext
<1>1. Refs(Inlined', Threads \X (1 .. MaxDepth), s) = Refs(Inlined, Threads \X (1 .. MaxDepth), s)
  BY InlinedSame
<1>2. /\ refs[s] \in Int /\ sources[s] \in Nat /\ tokens[s] \in Nat
      /\ refs[s] = sources[s] + tokens[s] + Refs(state_, Callbacks, s)
                 + Refs(Inlined, Threads \X (1 .. MaxDepth), s)
      /\ Refs(state_', Callbacks, s) = Refs(state_, Callbacks, s)
  BY DEF TypeOK, RefsInv
<1>3. /\ refs'[s] - sources'[s] - tokens'[s] = refs[s] - sources[s] - tokens[s]
      /\ refs'[s] \in Int /\ sources'[s] \in Int /\ tokens'[s] \in Int
      /\ Refs(state_, Callbacks, s) \in Nat
      /\ Refs(Inlined, Threads \X (1 .. MaxDepth), s) \in Nat
  BY PartsNat
<1>4. \A r, r2, a, a2, b, b2 \in Int : \A m, n \in Nat :
        r = a + b + m + n /\ r2 - a2 - b2 = r - a - b => r2 = a2 + b2 + m + n
  OBVIOUS
<1> DEFINE m == Refs(state_, Callbacks, s)
           n == Refs(Inlined, Threads \X (1 .. MaxDepth), s)
<1>5. /\ refs[s] \in Int /\ sources[s] \in Int /\ tokens[s] \in Int
      /\ refs'[s] \in Int /\ sources'[s] \in Int /\ tokens'[s] \in Int
      /\ m \in Nat /\ n \in Nat
      /\ refs[s] = sources[s] + tokens[s] + m + n
      /\ refs'[s] - sources'[s] - tokens'[s] = refs[s] - sources[s] - tokens[s]
  BY <1>2, <1>3
<1>6. m = Refs(state_', Callbacks, s) /\ n = Refs(Inlined', Threads \X (1 .. MaxDepth), s)
  BY <1>1, <1>2
<1> HIDE DEF m, n
<1>7. refs'[s] = sources'[s] + tokens'[s] + m + n
  BY ONLY <1>4, <1>5
<1> QED
  BY <1>6, <1>7

\* stop_source and stop_token objects take and drop one reference each.
LEMMA HandlesRefs ==
  ASSUME TypeOK, RefsInv, Handles
  PROVE  RefsInv'
<1>1. PICK s \in States : CopySource(s) \/ GetToken(s) \/ DropSource(s) \/ DropToken(s)
  BY DEF Handles
<1>2. UNCHANGED <<state_, depth, frame>>
  BY <1>1 DEF CopySource, GetToken, DropSource, DropToken, cbvars, thrvars
<1>3. \A x \in Threads \X (1 .. MaxDepth) : Inlined'[x] = Inlined[x]
  BY <1>2 DEF Inlined
<1>4. \A x \in States : refs'[x] - sources'[x] - tokens'[x] = refs[x] - sources[x] - tokens[x]
                        /\ refs'[x] \in Int /\ sources'[x] \in Int /\ tokens'[x] \in Int
  <2>1. /\ refs \in [States -> Int] /\ sources \in [States -> Nat] /\ tokens \in [States -> Nat]
    BY DEF TypeOK
  <2>2. CASE CopySource(s)
    BY <2>1, <2>2 DEF CopySource
  <2>3. CASE GetToken(s)
    BY <2>1, <2>3 DEF GetToken
  <2>4. CASE DropSource(s)
    BY <2>1, <2>4 DEF DropSource
  <2>5. CASE DropToken(s)
    BY <2>1, <2>5 DEF DropToken
  <2> QED
    BY <1>1, <2>2, <2>3, <2>4, <2>5
<1> QED
  BY <1>2, <1>3, <1>4, RefsKept

\* A constructor's reference is that of the object from then on.
LEMMA BeginConstructRefs ==
  ASSUME TypeOK, RefsInv, FreeInv, NEW t \in Threads, NEW s \in States, NEW c \in Callbacks,
         BeginConstruct(t, s, c)
  PROVE  RefsInv'
<1> SUFFICES ASSUME NEW x \in States
             PROVE  refs'[x] = sources'[x] + tokens'[x] + Refs(state_', Callbacks, x)
                                 + Refs(Inlined', Threads \X (1 .. MaxDepth), x)
  BY RefsInvNext
<1>1. /\ state_[c] = None /\ state_'[c] = s /\ \A b \in Callbacks : b # c => state_'[b] = state_[b]
      /\ refs'[x] = refs[x] + Is(s, x)
      /\ UNCHANGED <<sources, tokens, depth, frame>>
  BY IsOneOrZero DEF BeginConstruct, FreeInv, TypeOK
<1>2. Refs(state_', Callbacks, x) = Refs(state_, Callbacks, x) + Is(s, x) - Is(None, x)
  BY ONLY <1>1, StateMove, c \in Callbacks
<1>3. Refs(Inlined', Threads \X (1 .. MaxDepth), x) = Refs(Inlined, Threads \X (1 .. MaxDepth), x)
  <2>1. \A y \in Threads \X (1 .. MaxDepth) : Inlined'[y] = Inlined[y]
    BY <1>1 DEF Inlined
  <2> QED
    BY <2>1, InlinedSame
<1>4. refs[x] \in Int /\ sources[x] \in Nat /\ tokens[x] \in Nat
      /\ refs[x] = sources[x] + tokens[x] + Refs(state_, Callbacks, x)
                 + Refs(Inlined, Threads \X (1 .. MaxDepth), x)
  BY DEF TypeOK, RefsInv
<1>5. Is(s, x) \in {0, 1} /\ Is(None, x) = 0
  BY NoReference, IsOneOrZero
<1>6. Refs(state_, Callbacks, x) \in Nat /\ Refs(Inlined, Threads \X (1 .. MaxDepth), x) \in Nat
  BY PartsNat
<1>7. refs'[x] = refs[x] + Is(s, x) /\ sources' = sources /\ tokens' = tokens
  BY <1>1
<1> QED
  BY ONLY <1>2, <1>3, <1>4, <1>5, <1>6, <1>7

\* A destructor drops the object's reference when the object is gone.
LEMMA EndDestroyRefs ==
  ASSUME TypeOK, RefsInv, PcInv, NEW t \in Threads, EndDestroy(t)
  PROVE  RefsInv'
<1> DEFINE c == arg[t]
           s == state_[c]
<1> SUFFICES ASSUME NEW x \in States
             PROVE  refs'[x] = sources'[x] + tokens'[x] + Refs(state_', Callbacks, x)
                                 + Refs(Inlined', Threads \X (1 .. MaxDepth), x)
  BY RefsInvNext
<1>0. c \in Callbacks /\ s \in States
  BY DEF EndDestroy, PcInv
<1>1. /\ state_'[c] = None /\ \A b \in Callbacks : b # c => state_'[b] = state_[b]
      /\ refs'[x] = refs[x] - Is(s, x)
      /\ UNCHANGED <<sources, tokens, depth, frame>>
  BY <1>0, IsOneOrZero DEF EndDestroy, TypeOK
<1>2. Refs(state_', Callbacks, x) = Refs(state_, Callbacks, x) + Is(None, x) - Is(s, x)
  BY ONLY <1>0, <1>1, StateMove
<1>3. Refs(Inlined', Threads \X (1 .. MaxDepth), x) = Refs(Inlined, Threads \X (1 .. MaxDepth), x)
  <2>1. \A y \in Threads \X (1 .. MaxDepth) : Inlined'[y] = Inlined[y]
    BY <1>1 DEF Inlined
  <2> QED
    BY <2>1, InlinedSame
<1>4. refs[x] \in Int /\ sources[x] \in Nat /\ tokens[x] \in Nat
      /\ refs[x] = sources[x] + tokens[x] + Refs(state_, Callbacks, x)
                 + Refs(Inlined, Threads \X (1 .. MaxDepth), x)
  BY DEF TypeOK, RefsInv
<1> HIDE DEF s, c
<1>5. Is(s, x) \in {0, 1} /\ Is(None, x) = 0
  BY NoReference, IsOneOrZero
<1>6. Refs(state_, Callbacks, x) \in Nat /\ Refs(Inlined, Threads \X (1 .. MaxDepth), x) \in Nat
  BY PartsNat
<1>7. refs'[x] = refs[x] - Is(s, x) /\ sources' = sources /\ tokens' = tokens
  BY <1>1
<1> QED
  BY ONLY <1>2, <1>3, <1>4, <1>5, <1>6, <1>7

\* An inline call takes over the constructor's reference.
LEMMA CallInlineRefs ==
  ASSUME TypeOK, RefsInv, PcInv, NEW t \in Threads, CallInline(t)
  PROVE  RefsInv'
<1> DEFINE c == arg[t]
           s == state_[c]
           d == depth[t] + 1
<1> SUFFICES ASSUME NEW x \in States
             PROVE  refs'[x] = sources'[x] + tokens'[x] + Refs(state_', Callbacks, x)
                                 + Refs(Inlined', Threads \X (1 .. MaxDepth), x)
  BY RefsInvNext
<1>0. /\ c \in Callbacks /\ s \in States /\ d \in 1 .. MaxDepth
      /\ depth \in [Threads -> Nat] /\ depth' = [depth EXCEPT ![t] = d]
      /\ frame \in [Threads -> [1 .. MaxDepth -> Frame]]
      /\ frame' = [frame EXCEPT ![t][d] =
                 [kind |-> "inline", state |-> s, callback |-> c,
                  epoch |-> epoch[c], destroyed |-> FALSE]]
  <2>1. /\ c \in Callbacks /\ s \in States /\ pc[t] = "construct" /\ depth[t] < MaxDepth
    BY DEF CallInline, PcInv
  <2>2. depth \in [Threads -> Nat] /\ frame \in [Threads -> [1 .. MaxDepth -> Frame]]
    BY DEF TypeOK
  <2>3. d \in 1 .. MaxDepth
    BY <2>1, <2>2, StopTokenAssumption
  <2>. QED
    BY <2>1, <2>2, <2>3 DEF CallInline
<1>1. /\ state_'[c] = None /\ \A b \in Callbacks : b # c => state_'[b] = state_[b]
      /\ UNCHANGED <<refs, sources, tokens>>
  BY <1>0 DEF CallInline, TypeOK, statevars
<1>2. Refs(state_', Callbacks, x) = Refs(state_, Callbacks, x) + Is(None, x) - Is(s, x)
  BY ONLY <1>0, <1>1, StateMove
<1>3. Refs(Inlined', Threads \X (1 .. MaxDepth), x)
        = Refs(Inlined, Threads \X (1 .. MaxDepth), x) + Is(s, x) - Is(None, x)
  <2> HIDE DEF c, s
  <2>1. depth'[t] = d /\ \A u \in Threads : u # t => depth'[u] = depth[u] /\ frame'[u] = frame[u]
    BY <1>0
  <2>2. /\ \A i \in 1 .. MaxDepth : i # d => frame'[t][i] = frame[t][i]
        /\ frame'[t][d].kind = "inline" /\ frame'[t][d].state = s
    BY <1>0
  <2>3. \A y \in Threads \X (1 .. MaxDepth) : y # <<t, d>> => Inlined'[y] = Inlined[y]
    <3> SUFFICES ASSUME NEW u \in Threads, NEW i \in 1 .. MaxDepth, u # t \/ i # d
                 PROVE  Inlined'[<<u, i>>] = Inlined[<<u, i>>]
      OBVIOUS
    <3>1. /\ frame'[u][i] = frame[u][i]
          /\ i <= depth'[u] <=> i <= depth[u]
      BY <1>0, <2>1, <2>2
    <3> QED
      BY <3>1 DEF Inlined
  <2>4. Inlined'[<<t, d>>] = s /\ Inlined[<<t, d>>] = None
    BY <1>0, <2>1, <2>2 DEF Inlined
  <2> HIDE DEF d
  <2> QED
    BY ONLY <1>0, <2>3, <2>4, InlinedMove
<1>4. refs[x] \in Int /\ sources[x] \in Nat /\ tokens[x] \in Nat
      /\ refs[x] = sources[x] + tokens[x] + Refs(state_, Callbacks, x)
                 + Refs(Inlined, Threads \X (1 .. MaxDepth), x)
  BY DEF TypeOK, RefsInv
<1> HIDE DEF s, c
<1>5. Is(s, x) \in {0, 1} /\ Is(None, x) = 0
  BY NoReference, IsOneOrZero
<1>6. Refs(state_, Callbacks, x) \in Nat /\ Refs(Inlined, Threads \X (1 .. MaxDepth), x) \in Nat
  BY PartsNat
<1>7. refs'[x] = refs[x] /\ sources' = sources /\ tokens' = tokens
  BY <1>1
<1> QED
  BY ONLY <1>2, <1>3, <1>4, <1>5, <1>6, <1>7

\* The release guard of the constructor drops it when the call returns.
LEMMA InlineReturnRefs ==
  ASSUME TypeOK, RefsInv, FrameInv, NEW t \in Threads, InlineReturn(t)
  PROVE  RefsInv'
<1> DEFINE d == depth[t]
           s == frame[t][d].state
<1> SUFFICES ASSUME NEW x \in States
             PROVE  refs'[x] = sources'[x] + tokens'[x] + Refs(state_', Callbacks, x)
                                 + Refs(Inlined', Threads \X (1 .. MaxDepth), x)
  BY RefsInvNext
<1>0. /\ d \in 1 .. MaxDepth
      /\ depth \in [Threads -> Nat] /\ depth' = [depth EXCEPT ![t] = d - 1]
      /\ frame \in [Threads -> [1 .. MaxDepth -> Frame]]
      /\ frame' = [frame EXCEPT ![t][d] = NoFrame]
      /\ frame[t][d].kind = "inline" /\ d \in 1 .. depth[t]
  BY StopTokenAssumption DEF InlineReturn, TypeOK, Top
<1>1. s \in States
  BY <1>0 DEF FrameInv
<1>2. /\ refs' = [refs EXCEPT ![s] = @ - 1]
      /\ UNCHANGED <<state_, sources, tokens>>
  BY DEF InlineReturn, Top
<1>3. Refs(Inlined', Threads \X (1 .. MaxDepth), x)
        = Refs(Inlined, Threads \X (1 .. MaxDepth), x) + Is(None, x) - Is(s, x)
  <2>1. depth'[t] = d - 1 /\ \A u \in Threads : u # t => depth'[u] = depth[u] /\ frame'[u] = frame[u]
    BY <1>0
  <2>2. \A i \in 1 .. MaxDepth : i # d => frame'[t][i] = frame[t][i]
    BY <1>0
  <2>3. \A y \in Threads \X (1 .. MaxDepth) : y # <<t, d>> => Inlined'[y] = Inlined[y]
    <3> SUFFICES ASSUME NEW u \in Threads, NEW i \in 1 .. MaxDepth, u # t \/ i # d
                 PROVE  Inlined'[<<u, i>>] = Inlined[<<u, i>>]
      OBVIOUS
    <3>1. /\ frame'[u][i] = frame[u][i]
          /\ i <= depth'[u] <=> i <= depth[u]
      BY <1>0, <2>1, <2>2
    <3> QED
      BY <3>1 DEF Inlined
  <2>4. Inlined'[<<t, d>>] = None /\ Inlined[<<t, d>>] = s
    BY <1>0, <2>1 DEF Inlined
  <2> HIDE DEF d, s
  <2> QED
    BY ONLY <1>0, <2>3, <2>4, InlinedMove
<1>4. refs[x] \in Int /\ sources[x] \in Nat /\ tokens[x] \in Nat
      /\ refs[x] = sources[x] + tokens[x] + Refs(state_, Callbacks, x)
                 + Refs(Inlined, Threads \X (1 .. MaxDepth), x)
  BY DEF TypeOK, RefsInv
<1> HIDE DEF s, d
<1>5. Is(s, x) \in {0, 1} /\ Is(None, x) = 0
  BY NoReference, IsOneOrZero
<1>6. Refs(state_, Callbacks, x) \in Nat /\ Refs(Inlined, Threads \X (1 .. MaxDepth), x) \in Nat
  BY PartsNat
<1>7. refs'[x] = refs[x] - Is(s, x) /\ sources' = sources /\ tokens' = tokens /\ state_' = state_
  BY <1>1, <1>2, IsOneOrZero DEF TypeOK
<1> QED
  BY <1>3, <1>4, <1>5, <1>6, <1>7

\* The frame of request_stop at position d is put there, or replaced: no
\* reference of an inline call is affected.
LEMMA TakeNextInlined ==
  ASSUME TypeOK, NEW t \in Threads, NEW s \in States, NEW d \in 1 .. MaxDepth, NEW running1,
         TakeNext(t, s, d, running1),
         d = depth[t] + 1 \/ (d = depth[t] /\ frame[t][d].kind = "invoke")
  PROVE  \A y \in Threads \X (1 .. MaxDepth) : Inlined'[y] = Inlined[y]
<1> SUFFICES ASSUME NEW u \in Threads, NEW i \in 1 .. MaxDepth
             PROVE  Inlined'[<<u, i>>] = Inlined[<<u, i>>]
  OBVIOUS
<1>0. /\ depth \in [Threads -> Nat] /\ depth' = [depth EXCEPT ![t] = d]
      /\ frame \in [Threads -> [1 .. MaxDepth -> Frame]] /\ d \in Nat
  BY StopTokenAssumption DEF TakeNext, TypeOK
<1>1. CASE u # t \/ i # d
  <2>1. frame'[u][i] = frame[u][i]
    BY <1>0, <1>1 DEF TakeNext
  <2>2. i <= depth'[u] <=> i <= depth[u]
    BY <1>0, <1>1
  <2> QED
    BY <2>1, <2>2 DEF Inlined
<1>2. CASE u = t /\ i = d
  <2>1. frame'[t][d].kind = "invoke"
    BY <1>0 DEF TakeNext
  <2>2. d <= depth[t] => frame[t][d].kind = "invoke"
    BY <1>0
  <2> QED
    BY <1>2, <2>1, <2>2 DEF Inlined
<1> QED
  BY <1>1, <1>2

\* Neither does the end of request_stop.
LEMMA ReturnInlined ==
  ASSUME TypeOK, NEW t \in Threads, depth[t] > 0, Top(t).kind = "invoke",
         depth' = [depth EXCEPT ![t] = @ - 1],
         frame' = [frame EXCEPT ![t][depth[t]] = NoFrame]
  PROVE  \A y \in Threads \X (1 .. MaxDepth) : Inlined'[y] = Inlined[y]
<1> SUFFICES ASSUME NEW u \in Threads, NEW i \in 1 .. MaxDepth
             PROVE  Inlined'[<<u, i>>] = Inlined[<<u, i>>]
  OBVIOUS
<1> DEFINE d == depth[t]
<1>0. /\ depth \in [Threads -> Nat] /\ depth' = [depth EXCEPT ![t] = d - 1] /\ d > 0
      /\ frame \in [Threads -> [1 .. MaxDepth -> Frame]] /\ d \in 1 .. MaxDepth
      /\ frame' = [frame EXCEPT ![t][d] = NoFrame] /\ frame[t][d].kind = "invoke"
  BY StopTokenAssumption DEF TypeOK, Top
<1>1. CASE u # t \/ i # d
  <2>1. frame'[u][i] = frame[u][i]
    BY <1>0, <1>1
  <2>2. i <= depth'[u] <=> i <= depth[u]
    BY <1>0, <1>1
  <2> QED
    BY <2>1, <2>2 DEF Inlined
<1>2. CASE u = t /\ i = d
  <2>1. Inlined[<<t, d>>] = None /\ Inlined'[<<t, d>>] = None
    BY <1>0 DEF Inlined
  <2> QED
    BY <1>2, <2>1
<1> QED
  BY <1>1, <1>2

\* A destructor inside its own callback marks the frame of request_stop.
LEMMA MarkInlined ==
  ASSUME TypeOK, FrameInv, NEW t \in Threads, NEW c \in Callbacks, InFrames(t, c) # {},
         frame' = mark_destroyed(t, c), UNCHANGED depth
  PROVE  \A y \in Threads \X (1 .. MaxDepth) : Inlined'[y] = Inlined[y]
<1> SUFFICES ASSUME NEW u \in Threads, NEW i \in 1 .. MaxDepth
             PROVE  Inlined'[<<u, i>>] = Inlined[<<u, i>>]
  OBVIOUS
<1>1. PICK k \in 1 .. depth[t] : frame' = [frame EXCEPT ![t][k] = Marked(frame[t][k])]
  BY MarkDestroyed
<1>2. frame'[u][i].kind = frame[u][i].kind /\ frame'[u][i].state = frame[u][i].state
  BY <1>1 DEF TypeOK, Marked
<1> QED
  BY <1>2 DEF Inlined

\* A thread in request_stop, after the step.
LEMMA InRequestNext ==
  \A s : InRequest(s)' <=> \E t \in Threads : \E i \in 1 .. depth'[t] :
                              frame'[t][i].kind = "invoke" /\ frame'[t][i].state = s
  BY DEF InRequest

\* The lists after the step.
LEMMA LeftNext ==
  NoneLeftBehind' <=> \A s \in States : (requested'[s] /\ callbacks'[s] # <<>>) => InRequest(s)'
  BY DEF NoneLeftBehind

\* A step that leaves the requests and the frames alone and makes no list longer.
LEMMA LeftKept ==
  ASSUME NoneLeftBehind, UNCHANGED <<requested, depth, frame>>,
         \A s \in States : requested[s] /\ callbacks'[s] # <<>> => callbacks[s] # <<>>
  PROVE  NoneLeftBehind'
  BY DEF NoneLeftBehind, InRequest

\* A callback is taken off the list by a thread that is in request_stop then, and
\* other requests are not affected.
LEMMA TakeNextLeft ==
  ASSUME TypeOK, NoneLeftBehind, NEW t \in Threads, NEW s \in States, NEW d \in 1 .. MaxDepth,
         NEW running1, TakeNext(t, s, d, running1),
         \/ d = depth[t] + 1
         \/ d = depth[t] /\ frame[t][d].state = s,
         requested' = requested \/ requested' = [requested EXCEPT ![s] = TRUE]
  PROVE  NoneLeftBehind'
<1> SUFFICES ASSUME NEW x \in States, requested'[x], callbacks'[x] # <<>>
             PROVE  InRequest(x)'
  BY LeftNext
<1>0. /\ depth \in [Threads -> Nat] /\ depth' = [depth EXCEPT ![t] = d]
      /\ frame \in [Threads -> [1 .. MaxDepth -> Frame]] /\ d \in Nat
      /\ frame'[t][d].kind = "invoke" /\ frame'[t][d].state = s
      /\ \A u \in Threads : \A i \in 1 .. MaxDepth : u # t \/ i # d => frame'[u][i] = frame[u][i]
  <2> DEFINE e == [kind |-> "invoke", state |-> s, callback |-> Head(callbacks[s]),
                   epoch |-> epoch[Head(callbacks[s])], destroyed |-> FALSE]
  <2>1. frame' = [frame EXCEPT ![t][d] = e] /\ e.kind = "invoke" /\ e.state = s
    BY DEF TakeNext
  <2> HIDE DEF e
  <2>2. /\ depth \in [Threads -> Nat] /\ depth' = [depth EXCEPT ![t] = d]
        /\ frame \in [Threads -> [1 .. MaxDepth -> Frame]] /\ d \in Nat
    BY StopTokenAssumption DEF TakeNext, TypeOK
  <2> QED
    BY <2>1, <2>2
<1>1. CASE x = s
  <2>1. d \in 1 .. depth'[t]
    BY <1>0
  <2> QED
    BY <1>0, <1>1, <2>1, InRequestNext
<1>2. CASE x # s
  <2>1. requested[x] /\ callbacks[x] # <<>>
    BY <1>2 DEF TakeNext, TypeOK
  <2>2a. PICK u \in Threads : \E i \in 1 .. depth[u] : frame[u][i].kind = "invoke" /\ frame[u][i].state = x
    BY <2>1 DEF NoneLeftBehind, InRequest
  <2>2. PICK i \in 1 .. depth[u] : frame[u][i].kind = "invoke" /\ frame[u][i].state = x
    BY <2>2a
  <2>3. i \in 1 .. MaxDepth /\ (u # t \/ i # d)
    BY <1>2, <2>2, <1>0, StopTokenAssumption DEF TypeOK
  <2>4. i \in 1 .. depth'[u] /\ frame'[u][i] = frame[u][i]
    BY <1>0, <2>2, <2>3
  <2> QED
    BY <2>2, <2>4, InRequestNext
<1> QED
  BY <1>1, <1>2

\* A frame is left only when its list is empty, if it is a frame of request_stop.
LEMMA PopLeft ==
  ASSUME TypeOK, NoneLeftBehind, NEW t \in Threads, depth[t] > 0,
         depth' = [depth EXCEPT ![t] = @ - 1],
         frame' = [frame EXCEPT ![t][depth[t]] = NoFrame],
         Top(t).kind = "invoke" => callbacks[Top(t).state] = <<>>,
         UNCHANGED <<requested, callbacks>>
  PROVE  NoneLeftBehind'
<1> SUFFICES ASSUME NEW x \in States, requested[x], callbacks[x] # <<>>
             PROVE  InRequest(x)'
  BY LeftNext
<1> DEFINE d == depth[t]
<1>0. /\ depth \in [Threads -> Nat] /\ depth' = [depth EXCEPT ![t] = d - 1] /\ d > 0
      /\ frame \in [Threads -> [1 .. MaxDepth -> Frame]] /\ d \in 1 .. MaxDepth
      /\ frame' = [frame EXCEPT ![t][d] = NoFrame]
  BY StopTokenAssumption DEF TypeOK
<1>1a. PICK u \in Threads : \E i \in 1 .. depth[u] : frame[u][i].kind = "invoke" /\ frame[u][i].state = x
  BY DEF NoneLeftBehind, InRequest
<1>1. PICK i \in 1 .. depth[u] : frame[u][i].kind = "invoke" /\ frame[u][i].state = x
  BY <1>1a
<1>2. i \in 1 .. MaxDepth /\ (u # t \/ i # d)
  BY <1>1, StopTokenAssumption DEF TypeOK, Top
<1>3. i \in 1 .. depth'[u] /\ frame'[u][i] = frame[u][i]
  BY <1>0, <1>1, <1>2
<1> QED
  BY <1>1, <1>3, InRequestNext

\* A constructor's inline call is one more frame.
LEMMA CallInlineLeft ==
  ASSUME TypeOK, PcInv, NoneLeftBehind, NEW t \in Threads, CallInline(t)
  PROVE  NoneLeftBehind'
<1> SUFFICES ASSUME NEW x \in States, requested[x], callbacks[x] # <<>>
             PROVE  InRequest(x)'
  BY LeftNext DEF CallInline, statevars
<1>1a. PICK u \in Threads : \E i \in 1 .. depth[u] : frame[u][i].kind = "invoke" /\ frame[u][i].state = x
  BY DEF NoneLeftBehind, InRequest
<1>1. PICK i \in 1 .. depth[u] : frame[u][i].kind = "invoke" /\ frame[u][i].state = x
  BY <1>1a
<1>2. /\ depth \in [Threads -> Nat] /\ depth' = [depth EXCEPT ![t] = @ + 1]
      /\ frame \in [Threads -> [1 .. MaxDepth -> Frame]] /\ depth[u] <= MaxDepth /\ MaxDepth \in Nat
  BY StopTokenAssumption DEF CallInline, TypeOK
<1>3. i \in 1 .. depth'[u] /\ frame'[u][i] = frame[u][i]
  <2> DEFINE c == arg[t]
             e == [kind |-> "inline", state |-> state_[c], callback |-> c,
                   epoch |-> epoch[c], destroyed |-> FALSE]
  <2>1. frame' = [frame EXCEPT ![t][depth[t] + 1] = e]
    BY DEF CallInline
  <2> HIDE DEF e
  <2>2. i \in 1 .. MaxDepth /\ i \in Nat /\ (u = t => i # depth[t] + 1)
    BY <1>2
  <2> QED
    BY <1>2, <2>1, <2>2
<1> QED
  BY <1>1, <1>3, InRequestNext

\* ~stop_callback only takes callbacks off the lists.
LEMMA BeginDestroyLeft ==
  ASSUME TypeOK, FrameInv, NoneLeftBehind, NEW t \in Threads, NEW c \in Callbacks,
         BeginDestroy(t, c)
  PROVE  NoneLeftBehind'
<1> SUFFICES ASSUME NEW x \in States, requested[x], callbacks'[x] # <<>>
             PROVE  InRequest(x)'
  BY LeftNext DEF BeginDestroy
<1>1. callbacks[x] # <<>>
  <2>1. callbacks[x] \in Seq(Callbacks)
    BY DEF TypeOK
  <2>2. callbacks'[x] = callbacks[x] \/ callbacks'[x] = remove_callback(callbacks[x], c)
    BY DEF BeginDestroy, TypeOK
  <2>3. CASE callbacks'[x] = remove_callback(callbacks[x], c)
    <3>1. /\ callbacks'[x] \in Seq(Callbacks)
          /\ \A i \in 1 .. Len(callbacks'[x]) : \E k \in 1 .. Len(callbacks[x]) :
               callbacks'[x][i] = callbacks[x][k]
      BY <2>1, <2>3, RemoveCallback
    <3>2. 1 \in 1 .. Len(callbacks'[x])
      BY <3>1
    <3> QED
      BY <2>1, <3>1, <3>2
  <2> QED
    BY <2>2, <2>3
<1>2a. PICK u \in Threads : \E i \in 1 .. depth[u] : frame[u][i].kind = "invoke" /\ frame[u][i].state = x
  BY <1>1 DEF NoneLeftBehind, InRequest
<1>2. PICK i \in 1 .. depth[u] : frame[u][i].kind = "invoke" /\ frame[u][i].state = x
  BY <1>2a
<1>3. depth' = depth /\ frame'[u][i].kind = frame[u][i].kind /\ frame'[u][i].state = frame[u][i].state
  <2>1. CASE frame' = frame
    BY <2>1 DEF BeginDestroy
  <2>2. CASE InFrames(t, c) # {} /\ frame' = mark_destroyed(t, c)
    <3>1. PICK k \in 1 .. depth[t] : frame' = [frame EXCEPT ![t][k] = Marked(frame[t][k])]
      BY <2>2, MarkDestroyed
    <3>2. i \in 1 .. MaxDepth /\ k \in 1 .. MaxDepth
      BY StopTokenAssumption DEF TypeOK
    <3> QED
      BY <3>1, <3>2 DEF TypeOK, Marked, BeginDestroy
  <2> QED
    BY <2>1, <2>2 DEF BeginDestroy
<1> QED
  BY <1>2, <1>3, InRequestNext

\* The strengthening that StatesExact needs.
StatesInv == IInv /\ FreeInv /\ RefsInv /\ NoneLeftBehind

\* An object gives up its state before it is gone.
LEMMA FreeStep ==
  ASSUME TypeOK, FreeInv, [Next]_vars
  PROVE  FreeInv'
<1> USE DEF FreeInv, TypeOK
<1>1. CASE Handles \/ UNCHANGED vars
  BY <1>1 DEF Handles, CopySource, GetToken, DropSource, DropToken, vars, cbvars
<1>2. CASE Quiet
  BY <1>2 DEF Quiet, vars
<1>3. ASSUME NEW t \in Threads, Proceed(t) PROVE FreeInv'
  <2>1. CASE InvokeReturn(t) \/ WaitDone(t)
    BY <2>1 DEF InvokeReturn, WaitDone, cbvars
  <2>2. CASE Register(t)
    BY <2>2 DEF Register, Link
  <2>3. CASE CallInline(t)
    BY <2>3 DEF CallInline
  <2>4. CASE InlineReturn(t)
    BY <2>4 DEF InlineReturn
  <2>5. CASE EndDestroy(t)
    BY <2>5 DEF EndDestroy
  <2> QED
    BY <1>3, <2>1, <2>2, <2>3, <2>4, <2>5 DEF Proceed
<1>4. ASSUME NEW t \in Threads, UserCall(t) PROVE FreeInv'
  <2>1. ASSUME NEW s \in States, RequestStop(t, s) PROVE FreeInv'
    BY <2>1 DEF RequestStop
  <2>2. ASSUME NEW s \in States, NEW c \in Callbacks, BeginConstruct(t, s, c) PROVE FreeInv'
    BY <2>2 DEF BeginConstruct
  <2>3. ASSUME NEW c \in Callbacks, DestroyDetached(t, c) PROVE FreeInv'
    BY <2>3 DEF DestroyDetached
  <2>4. ASSUME NEW c \in Callbacks, BeginDestroy(t, c) PROVE FreeInv'
    BY <2>4 DEF BeginDestroy
  <2> QED
    BY <1>4, <2>1, <2>2, <2>3, <2>4 DEF UserCall
<1> QED
  BY <1>1, <1>2, <1>3, <1>4 DEF Next

\* A step that touches no count, no reference and no frame.
LEMMA RefsUntouched ==
  ASSUME TypeOK, RefsInv, UNCHANGED <<refs, sources, tokens, state_, depth, frame>>
  PROVE  RefsInv'
  BY DEF RefsInv, Inlined, Refs

\* A step that touches no count and no reference, and no frame of an inline call.
LEMMA RefsFrames ==
  ASSUME TypeOK, RefsInv, UNCHANGED <<refs, sources, tokens, state_>>,
         \A x \in Threads \X (1 .. MaxDepth) : Inlined'[x] = Inlined[x]
  PROVE  RefsInv'
<1>1. \A s \in States : /\ refs'[s] - sources'[s] - tokens'[s] = refs[s] - sources[s] - tokens[s]
                        /\ refs'[s] \in Int /\ sources'[s] \in Int /\ tokens'[s] \in Int
  BY DEF TypeOK
<1> QED
  BY <1>1, RefsKept

\* A thread in request_stop takes a callback off the list, or is done.
LEMMA InvokeReturnStates ==
  ASSUME TypeOK, RefsInv, NoneLeftBehind, FrameInv, NEW t \in Threads, InvokeReturn(t)
  PROVE  RefsInv' /\ NoneLeftBehind'
<1> DEFINE d == depth[t]
           s == Top(t).state
<1>0. /\ d \in 1 .. MaxDepth /\ s \in States
      /\ frame[t][d].kind = "invoke" /\ frame[t][d].state = s
      /\ depth[t] > 0 /\ Top(t).kind = "invoke"
      /\ UNCHANGED <<requested, refs, sources, tokens, state_>>
  BY StopTokenAssumption DEF InvokeReturn, Top, TypeOK, FrameInv
<1>1. CASE TakeNext(t, s, d, StopRunning(t))
  <2> HIDE DEF s, d
  <2>1. \A x \in Threads \X (1 .. MaxDepth) : Inlined'[x] = Inlined[x]
    BY <1>0, <1>1, TakeNextInlined DEF d
  <2>2. NoneLeftBehind'
    BY <1>0, <1>1, TakeNextLeft DEF d
  <2> QED
    BY <1>0, <2>1, <2>2, RefsFrames
<1>2. CASE /\ ~More(s)
           /\ depth' = [depth EXCEPT ![t] = @ - 1]
           /\ frame' = [frame EXCEPT ![t][depth[t]] = NoFrame]
           /\ UNCHANGED callbacks
  <2>1. \A x \in Threads \X (1 .. MaxDepth) : Inlined'[x] = Inlined[x]
    BY <1>0, <1>2, ReturnInlined
  <2>2. NoneLeftBehind'
    BY <1>0, <1>2, PopLeft DEF More
  <2> QED
    BY <1>0, <2>1, <2>2, RefsFrames
<1> QED
  BY <1>1, <1>2 DEF InvokeReturn

\* The first request takes the first callback, if there is one.
LEMMA RequestStopStates ==
  ASSUME TypeOK, RefsInv, NoneLeftBehind, NEW t \in Threads, NEW s \in States, RequestStop(t, s)
  PROVE  RefsInv' /\ NoneLeftBehind'
<1>0. /\ depth[t] + 1 \in 1 .. MaxDepth /\ requested' = [requested EXCEPT ![s] = TRUE]
      /\ UNCHANGED <<refs, sources, tokens, state_>>
  BY StopTokenAssumption DEF RequestStop, TypeOK
<1>1. CASE TakeNext(t, s, depth[t] + 1, running)
  <2>1. \A x \in Threads \X (1 .. MaxDepth) : Inlined'[x] = Inlined[x]
    BY <1>0, <1>1, TakeNextInlined
  <2>2. NoneLeftBehind'
    BY <1>0, <1>1, TakeNextLeft
  <2> QED
    BY <1>0, <2>1, <2>2, RefsFrames
<1>2. CASE callbacks[s] = <<>> /\ UNCHANGED <<callbacks, depth, frame>>
  <2>1. RefsInv'
    BY <1>0, <1>2, RefsUntouched
  <2>2. NoneLeftBehind'
    BY <1>0, <1>2 DEF NoneLeftBehind, InRequest, TypeOK
  <2> QED
    BY <2>1, <2>2
<1> QED
  BY <1>1, <1>2 DEF RequestStop

\* The constructor puts a callback on a list, or calls it.
LEMMA ConstructStates ==
  ASSUME IInv, RefsInv, NoneLeftBehind, NEW t \in Threads,
         Register(t) \/ CallInline(t) \/ InlineReturn(t)
  PROVE  RefsInv' /\ NoneLeftBehind'
<1>1. CASE Register(t)
  <2>1. RefsInv'
    BY <1>1, RefsUntouched DEF Register, Link, IInv
  <2>2. UNCHANGED <<requested, depth, frame>>
    BY <1>1 DEF Register, Link
  <2>3. \A s \in States : requested[s] /\ callbacks'[s] # <<>> => callbacks[s] # <<>>
    BY <1>1 DEF Register, Link, IInv, TypeOK
  <2> QED
    BY <2>1, <2>2, <2>3, LeftKept
<1>2. CASE CallInline(t)
  BY <1>2, CallInlineRefs, CallInlineLeft DEF IInv
<1>3. CASE InlineReturn(t)
  <2>1. RefsInv'
    BY <1>3, InlineReturnRefs DEF IInv
  <2>2. NoneLeftBehind'
    BY <1>3, PopLeft DEF InlineReturn, IInv
  <2> QED
    BY <2>1, <2>2
<1> QED
  BY <1>1, <1>2, <1>3

\* The destructor takes the callback off its list, marks its frame and waits.
LEMMA DestroyStates ==
  ASSUME IInv, RefsInv, NoneLeftBehind, NEW t \in Threads,
         \/ \E c \in Callbacks : DestroyDetached(t, c) \/ BeginDestroy(t, c)
         \/ WaitDone(t) \/ EndDestroy(t)
  PROVE  RefsInv' /\ NoneLeftBehind'
<1>1. ASSUME NEW c \in Callbacks, DestroyDetached(t, c) PROVE RefsInv' /\ NoneLeftBehind'
  <2>1. UNCHANGED <<refs, sources, tokens, state_, depth, frame, requested, callbacks>>
    BY <1>1 DEF DestroyDetached, statevars, thrvars
  <2> QED
    BY <2>1, RefsUntouched, LeftKept DEF IInv
<1>2. ASSUME NEW c \in Callbacks, BeginDestroy(t, c) PROVE RefsInv' /\ NoneLeftBehind'
  <2>1. \A x \in Threads \X (1 .. MaxDepth) : Inlined'[x] = Inlined[x]
    <3>1. CASE frame' = frame
      BY <1>2, <3>1 DEF BeginDestroy, Inlined
    <3>2. CASE InFrames(t, c) # {} /\ frame' = mark_destroyed(t, c)
      BY <1>2, <3>2, MarkInlined DEF BeginDestroy, IInv
    <3> QED
      BY <1>2, <3>1, <3>2 DEF BeginDestroy
  <2>2. UNCHANGED <<refs, sources, tokens, state_>>
    BY <1>2 DEF BeginDestroy
  <2>3. RefsInv'
    BY <2>1, <2>2, RefsFrames DEF IInv
  <2>4. NoneLeftBehind'
    BY <1>2, BeginDestroyLeft DEF IInv
  <2> QED
    BY <2>3, <2>4
<1>3. CASE WaitDone(t)
  <2>1. UNCHANGED <<refs, sources, tokens, state_, depth, frame, requested, callbacks>>
    BY <1>3 DEF WaitDone, statevars, cbvars
  <2> QED
    BY <2>1, RefsUntouched, LeftKept DEF IInv
<1>4. CASE EndDestroy(t)
  <2>1. RefsInv'
    BY <1>4, EndDestroyRefs DEF IInv
  <2>2. NoneLeftBehind'
    BY <1>4, LeftKept DEF EndDestroy
  <2> QED
    BY <2>1, <2>2
<1> QED
  BY <1>1, <1>2, <1>3, <1>4

\* Every step keeps the counts exact and leaves no callback behind.
LEMMA StatesStep ==
  ASSUME IInv, FreeInv, RefsInv, NoneLeftBehind, [Next]_vars
  PROVE  RefsInv' /\ NoneLeftBehind'
<1>1. CASE Quiet \/ UNCHANGED vars
  <2>1. UNCHANGED <<refs, sources, tokens, state_, depth, frame, requested, callbacks>>
    BY <1>1 DEF Quiet, vars
  <2> QED
    BY <2>1, RefsUntouched, LeftKept DEF IInv
<1>2. CASE Handles
  <2>1. RefsInv'
    BY <1>2, HandlesRefs DEF IInv
  <2>2. UNCHANGED <<requested, callbacks, depth, frame>>
    BY <1>2 DEF Handles, CopySource, GetToken, DropSource, DropToken, cbvars, thrvars
  <2>3. NoneLeftBehind'
    BY <2>2, LeftKept
  <2> QED
    BY <2>1, <2>3
<1>3. ASSUME NEW t \in Threads, Proceed(t) PROVE RefsInv' /\ NoneLeftBehind'
  BY <1>3, InvokeReturnStates, ConstructStates, DestroyStates DEF Proceed, IInv
<1>4. ASSUME NEW t \in Threads, UserCall(t) PROVE RefsInv' /\ NoneLeftBehind'
  <2>1. ASSUME NEW s \in States, RequestStop(t, s) PROVE RefsInv' /\ NoneLeftBehind'
    BY <2>1, RequestStopStates DEF IInv
  <2>2. ASSUME NEW s \in States, NEW c \in Callbacks, BeginConstruct(t, s, c)
        PROVE  RefsInv' /\ NoneLeftBehind'
    <3>1. RefsInv'
      BY <2>2, BeginConstructRefs DEF IInv
    <3>2. UNCHANGED <<requested, callbacks, depth, frame>>
      BY <2>2 DEF BeginConstruct
    <3>3. NoneLeftBehind'
      BY <3>2, LeftKept
    <3> QED
      BY <3>1, <3>3
  <2> QED
    BY <1>4, <2>1, <2>2, DestroyStates DEF UserCall
<1> QED
  BY <1>1, <1>2, <1>3, <1>4 DEF Next

\* At the start a state has one source and one reference.
LEMMA StatesInitially ==
  ASSUME Init
  PROVE  FreeInv /\ RefsInv /\ NoneLeftBehind
<1>1. FreeInv /\ NoneLeftBehind
  BY DEF Init, FreeInv, NoneLeftBehind
<1>2. ASSUME NEW s \in States
      PROVE  refs[s] = sources[s] + tokens[s] + Refs(state_, Callbacks, s)
                         + Refs(Inlined, Threads \X (1 .. MaxDepth), s)
  <2>1. {c \in Callbacks : state_[c] = s} = {}
    BY StopTokenAssumption DEF Init
  <2>2. {x \in Threads \X (1 .. MaxDepth) : Inlined[x] = s} = {}
    BY StopTokenAssumption DEF Init, Inlined
  <2>3. Refs(state_, Callbacks, s) = 0 /\ Refs(Inlined, Threads \X (1 .. MaxDepth), s) = 0
    BY <2>1, <2>2, FS_EmptySet DEF Refs
  <2>4. refs[s] = 1 /\ sources[s] = 1 /\ tokens[s] = 0
    BY DEF Init
  <2> QED
    BY <2>3, <2>4
<1> QED
  BY <1>1, <1>2 DEF RefsInv

\* StatesExact, for any number of threads, stop states and callbacks: a state is
\* referred to by its stop_source and stop_token objects, by the callbacks that
\* point to it and by the constructors that call a callback, and by nothing else;
\* and after a request a callback is left on its list only while the thread that
\* made the request is still in its loop (request_stop, ~stop_callback).
THEOREM StatesAreExact ==
  ASSUME ~EagerReuse
  PROVE  Spec => []StatesExact
<1>1. Init => StatesInv
  BY Initially, StatesInitially DEF StatesInv
<1>2. StatesInv /\ [Next]_vars => StatesInv'
  BY Inductive, FreeStep, StatesStep DEF StatesInv, IInv
<1>3. StatesInv => StatesExact
  BY RefsAre DEF StatesInv, StatesExact, IInv
<1> QED
  BY <1>1, <1>2, <1>3, PTL DEF Spec

-----------------------------------------------------------------------------
(* The promise of StopPromise. *)

\* A destructor is in the hands of a thread.
DestroyerInv == \A c \in Callbacks : obj[c] = "destroying" =>
  \E u \in Threads : pc[u] \in {"wait", "release"} /\ arg[u] = c

\* request_stop is in its loop after it has set the flag.
RequestedInv == \A t \in Threads : \A i \in 1 .. depth[t] :
  frame[t][i].kind = "invoke" => requested[frame[t][i].state]

\* What "on" and "caller" are in the state of StopToken.
On == [c \in Callbacks |-> IF phase[c] = "none" THEN None ELSE state_[c]]
Caller == [c \in Callbacks |-> IF Callers(c) = {} THEN None
                               ELSE CHOOSE t \in Callers(c) : TRUE]

\* What the promise says of a callback before a step ...
At(c, p, s, w) == phase[c] = p /\ On[c] = s /\ Caller[c] = w

\* A thread is in a call of the callback that has not destroyed it.
Live(t, c) == \E i \in 1 .. depth[t] : frame[t][i].callback = c /\ ~frame[t][i].destroyed

\* A destructor waits for a call of the callback.
Waiting(c) == \E t \in Threads : pc[t] = "wait" /\ arg[t] = c

\* There is one such thread at most.
LEMMA CallersAre ==
  ASSUME FrameInv, NEW c \in Callbacks
  PROVE  /\ Callers(c) = {t \in Threads : Live(t, c)}
         /\ \A t \in Callers(c) : Callers(c) = {t}
<1>1. Callers(c) = {t \in Threads : Live(t, c)}
  BY DEF Callers, Live, IsLive, FrameInv
<1>2. \A t, u \in Threads : Live(t, c) /\ Live(u, c) => t = u
  BY DEF Live, FrameInv
<1> QED
  BY <1>1, <1>2

\* A callback that is running on thread t.
LEMMA AtCalled ==
  ASSUME FrameInv, NEW c \in Callbacks, NEW t \in Threads, Live(t, c)
  PROVE  At(c, "called", state_[c], t)
<1>1. Callers(c) = {t}
  BY CallersAre
<1>2. phase[c] = "called"
  BY <1>1 DEF phase
<1>3. On[c] = state_[c]
  BY <1>2 DEF On
<1>4. Caller[c] = t
  BY <1>1 DEF Caller
<1> QED
  BY <1>2, <1>3, <1>4 DEF At

\* One that is on no stack.
LEMMA AtRest ==
  ASSUME FrameInv, NEW c \in Callbacks, \A t \in Threads : ~Live(t, c)
  PROVE  /\ obj[c] = "alive" /\ registered[c] => At(c, "armed", state_[c], None)
         /\ obj[c] = "alive" /\ ~registered[c] => At(c, "done", state_[c], None)
         /\ obj[c] = "destroying" /\ Waiting(c) => At(c, "done", state_[c], None)
         /\ obj[c] # "alive" /\ ~(obj[c] = "destroying" /\ Waiting(c)) => At(c, "none", None, None)
<1>1. Callers(c) = {}
  BY CallersAre
<1>2. Caller[c] = None
  BY <1>1 DEF Caller
<1>3. phase[c] = IF obj[c] = "alive" THEN IF registered[c] THEN "armed" ELSE "done"
                 ELSE IF obj[c] = "destroying" /\ Waiting(c) THEN "done" ELSE "none"
  BY <1>1 DEF phase, Waiting
<1>4. On[c] = IF phase[c] = "none" THEN None ELSE state_[c]
  BY DEF On
<1> QED
  BY <1>2, <1>3, <1>4 DEF At

\* AtCalled and AtRest as formulas, to be used of the next state.
LEMMA AtCalledFormula ==
  FrameInv => \A c \in Callbacks, t \in Threads : Live(t, c) => At(c, "called", state_[c], t)
  BY AtCalled

\* The same of AtRest.
LEMMA AtRestFormula ==
  FrameInv => \A c \in Callbacks : (\A t \in Threads : ~Live(t, c)) =>
    /\ obj[c] = "alive" /\ registered[c] => At(c, "armed", state_[c], None)
    /\ obj[c] = "alive" /\ ~registered[c] => At(c, "done", state_[c], None)
    /\ obj[c] = "destroying" /\ Waiting(c) => At(c, "done", state_[c], None)
    /\ obj[c] # "alive" /\ ~(obj[c] = "destroying" /\ Waiting(c)) => At(c, "none", None, None)
  BY AtRest

\* AtCalled in the next state.
LEMMA AtCalledPrimed ==
  (FrameInv => \A c \in Callbacks, t \in Threads : Live(t, c) => At(c, "called", state_[c], t))'
  BY AtCalledFormula, PTL

\* AtRest in the next state.
LEMMA AtRestPrimed ==
  (FrameInv => \A c \in Callbacks : (\A t \in Threads : ~Live(t, c)) =>
    /\ obj[c] = "alive" /\ registered[c] => At(c, "armed", state_[c], None)
    /\ obj[c] = "alive" /\ ~registered[c] => At(c, "done", state_[c], None)
    /\ obj[c] = "destroying" /\ Waiting(c) => At(c, "done", state_[c], None)
    /\ obj[c] # "alive" /\ ~(obj[c] = "destroying" /\ Waiting(c)) => At(c, "none", None, None))'
  BY AtRestFormula, PTL

\* ... and after it.
Then(c, p, s, w) == phase'[c] = p /\ On'[c] = s /\ Caller'[c] = w

\* A callback that is running on thread t after the step.
LEMMA AtCalledNext ==
  ASSUME FrameInv', NEW c \in Callbacks, NEW t \in Threads, Live(t, c)'
  PROVE  Then(c, "called", state_'[c], t)
  BY AtCalledPrimed DEF At, Then

\* One that is on no stack after the step.
LEMMA AtRestNext ==
  ASSUME FrameInv', NEW c \in Callbacks, \A t \in Threads : ~Live(t, c)'
  PROVE  /\ obj'[c] = "alive" /\ registered'[c] => Then(c, "armed", state_'[c], None)
         /\ obj'[c] = "alive" /\ ~registered'[c] => Then(c, "done", state_'[c], None)
         /\ obj'[c] = "destroying" /\ Waiting(c)' => Then(c, "done", state_'[c], None)
         /\ obj'[c] # "alive" /\ ~(obj'[c] = "destroying" /\ Waiting(c)') => Then(c, "none", None, None)
  BY AtRestPrimed DEF At, Then

\* What a step of thread t may do to one callback.
Moves(c, t) ==
  \/ Promise!Keep(c)
  \/ Promise!Arm(c)
  \/ Promise!CallAtOnce(c, t)
  \/ Promise!Call(c, t)
  \/ Promise!Return(c, t)
  \/ Promise!Destroy(c)
  \/ Promise!DestroyOwn(c, t)

\* The actions of StopPromise in terms of At and Then.
LEMMA MovesAre ==
  ASSUME NEW c \in Callbacks, NEW t
  PROVE  /\ \A p, s, w : At(c, p, s, w) /\ Then(c, p, s, w) => Moves(c, t)
         /\ \A s \in States : At(c, "none", None, None) /\ ~requested[s] /\ Then(c, "armed", s, None)
              => Moves(c, t)
         /\ \A s \in States : At(c, "none", None, None) /\ requested[s] /\ Then(c, "called", None, t)
              => Moves(c, t)
         /\ \A s \in States : At(c, "armed", s, None) /\ requested'[s] /\ Then(c, "called", s, t)
              => Moves(c, t)
         /\ \A s : At(c, "called", s, t) /\ Then(c, "done", s, None) => Moves(c, t)
         /\ \A s : At(c, "armed", s, None) /\ Then(c, "none", None, None) => Moves(c, t)
         /\ \A s : At(c, "done", s, None) /\ Then(c, "none", None, None) => Moves(c, t)
         /\ \A s : At(c, "called", s, t) /\ Then(c, "none", None, None) => Moves(c, t)
<1>1. \A p, s, w : At(c, p, s, w) /\ Then(c, p, s, w) => Promise!Keep(c)
  BY DEF At, Then, On, Caller, Promise!Keep, Promise!Becomes
<1>2. \A s \in States : At(c, "none", None, None) /\ ~requested[s] /\ Then(c, "armed", s, None)
        => Promise!Arm(c)
  BY DEF At, Then, On, Caller, Promise!Arm, Promise!Becomes
<1>3. \A s \in States : At(c, "none", None, None) /\ requested[s] /\ Then(c, "called", None, t)
        => Promise!CallAtOnce(c, t)
  BY DEF At, Then, On, Caller, Promise!CallAtOnce, Promise!Becomes
<1>4. \A s \in States : At(c, "armed", s, None) /\ requested'[s] /\ Then(c, "called", s, t)
        => Promise!Call(c, t)
  BY DEF At, Then, On, Caller, Promise!Call, Promise!Becomes
<1>5. \A s : At(c, "called", s, t) /\ Then(c, "done", s, None) => Promise!Return(c, t)
  BY DEF At, Then, On, Caller, Promise!Return, Promise!Becomes
<1>6. /\ \A s : At(c, "armed", s, None) /\ Then(c, "none", None, None) => Promise!Destroy(c)
      /\ \A s : At(c, "done", s, None) /\ Then(c, "none", None, None) => Promise!Destroy(c)
  BY DEF At, Then, On, Caller, Promise!Destroy, Promise!Becomes
<1>7. \A s : At(c, "called", s, t) /\ Then(c, "none", None, None) => Promise!DestroyOwn(c, t)
  BY DEF At, Then, On, Caller, Promise!DestroyOwn, Promise!Becomes
<1> QED
  BY <1>1, <1>2, <1>3, <1>4, <1>5, <1>6, <1>7 DEF Moves

\* A step that takes every callback through such a move is a step of StopPromise.
LEMMA StepIs ==
  ASSUME TypeOK', NEW t \in Threads, \A s \in States : requested[s] => requested'[s],
         \A c \in Callbacks : Moves(c, t)
  PROVE  Promise!Next
<1>1. On' \in [Callbacks -> States \cup {None}]
  BY DEF On, TypeOK
<1>2. phase' \in [Callbacks -> {"none", "armed", "called", "done"}]
  BY DEF phase
<1>3. Caller' \in [Callbacks -> Threads \cup {None}]
  <2>1. \A c \in Callbacks : Callers(c)' # {} => (CHOOSE u \in Callers(c)' : TRUE) \in Threads
    <3> SUFFICES ASSUME NEW c \in Callbacks, Callers(c)' # {}
                 PROVE  (CHOOSE u \in Callers(c)' : TRUE) \in Threads
      OBVIOUS
    <3>1. Callers(c)' \subseteq Threads
      BY DEF Callers
    <3>2. (CHOOSE u \in Callers(c)' : TRUE) \in Callers(c)'
      OBVIOUS
    <3> QED
      BY <3>1, <3>2
  <2> QED
    BY <2>1 DEF Caller
<1>4. requested' \in [States -> BOOLEAN]
  BY DEF TypeOK
<1>5. Promise!Step(t)
  BY <1>1, <1>2, <1>3, <1>4 DEF Promise!Step, Moves, On, Caller
<1> QED
  BY <1>5 DEF Promise!Next

\* A callback that the step does not touch.
LEMMA Stays ==
  ASSUME FrameInv, FrameInv', NEW c \in Callbacks, NEW t \in Threads,
         obj'[c] = obj[c], registered'[c] = registered[c], state_'[c] = state_[c],
         \A u \in Threads : Live(u, c)' <=> Live(u, c),
         Waiting(c)' <=> Waiting(c)
  PROVE  Moves(c, t)
<1>1. CASE \E u \in Threads : Live(u, c)
  <2>1. PICK u \in Threads : Live(u, c)
    BY <1>1
  <2>2. At(c, "called", state_[c], u)
    BY <2>1, AtCalled
  <2>3. Then(c, "called", state_[c], u)
    BY <2>1, AtCalledNext
  <2> QED
    BY <2>2, <2>3, MovesAre
<1>2. CASE \A u \in Threads : ~Live(u, c)
  <2>1. \A u \in Threads : ~Live(u, c)'
    BY <1>2
  <2>2. CASE obj[c] = "alive" /\ registered[c]
    BY <1>2, <2>1, <2>2, AtRest, AtRestNext, MovesAre
  <2>3. CASE obj[c] = "alive" /\ ~registered[c]
    BY <1>2, <2>1, <2>3, AtRest, AtRestNext, MovesAre
  <2>4. CASE obj[c] = "destroying" /\ Waiting(c)
    BY <1>2, <2>1, <2>4, AtRest, AtRestNext, MovesAre
  <2>5. CASE obj[c] # "alive" /\ ~(obj[c] = "destroying" /\ Waiting(c))
    BY <1>2, <2>1, <2>5, AtRest, AtRestNext, MovesAre
  <2> QED
    BY <2>2, <2>3, <2>4, <2>5
<1> QED
  BY <1>1, <1>2

\* An object that is not there for the program, before the step and after it.
LEMMA StaysNone ==
  ASSUME FrameInv, FrameInv', NEW c \in Callbacks, NEW t \in Threads,
         obj[c] # "alive", ~(obj[c] = "destroying" /\ Waiting(c)),
         obj'[c] # "alive", ~(obj'[c] = "destroying" /\ Waiting(c)'),
         \A u \in Threads : ~Live(u, c) /\ ~Live(u, c)'
  PROVE  Moves(c, t)
  BY AtRest, AtRestNext, MovesAre

\* One frame more.
LEMMA LivePush ==
  ASSUME TypeOK, NEW t \in Threads, NEW e, ~e.destroyed, depth[t] < MaxDepth,
         depth' = [depth EXCEPT ![t] = @ + 1],
         frame' = [frame EXCEPT ![t][depth[t] + 1] = e]
  PROVE  \A u \in Threads : \A c \in Callbacks :
           Live(u, c)' <=> Live(u, c) \/ (u = t /\ c = e.callback)
<1> SUFFICES ASSUME NEW u \in Threads, NEW c \in Callbacks
             PROVE  Live(u, c)' <=> Live(u, c) \/ (u = t /\ c = e.callback)
  OBVIOUS
<1>0. /\ depth \in [Threads -> Nat] /\ \A x \in Threads : depth[x] <= MaxDepth
      /\ frame \in [Threads -> [1 .. MaxDepth -> Frame]] /\ MaxDepth \in Nat
  BY StopTokenAssumption DEF TypeOK
<1>1. /\ depth'[t] = depth[t] + 1 /\ (u # t => depth'[u] = depth[u])
      /\ frame'[t][depth[t] + 1] = e
      /\ \A i \in 1 .. depth[u] : frame'[u][i] = frame[u][i]
  BY <1>0
<1>2. CASE u # t
  BY <1>1, <1>2 DEF Live
<1>3. CASE u = t
  <2>1. \A i \in 1 .. depth[t] + 1 : i \in 1 .. depth[t] \/ i = depth[t] + 1
    BY <1>0
  <2>2. depth[t] + 1 \in 1 .. depth'[t] /\ \A i \in 1 .. depth[t] : i \in 1 .. depth'[t]
    BY <1>0, <1>1
  <2> QED
    BY <1>1, <1>3, <2>1, <2>2 DEF Live
<1> QED
  BY <1>2, <1>3

\* Another frame in the place of the innermost one.
LEMMA LiveReplace ==
  ASSUME TypeOK, FrameInv, NEW t \in Threads, NEW e, ~e.destroyed, depth[t] > 0,
         depth' = [depth EXCEPT ![t] = depth[t]],
         frame' = [frame EXCEPT ![t][depth[t]] = e]
  PROVE  \A u \in Threads : \A c \in Callbacks :
           Live(u, c)' <=> \/ u = t /\ c = e.callback
                           \/ Live(u, c) /\ ~(u = t /\ c = Top(t).callback)
<1> SUFFICES ASSUME NEW u \in Threads, NEW c \in Callbacks
             PROVE  Live(u, c)' <=> \/ u = t /\ c = e.callback
                                    \/ Live(u, c) /\ ~(u = t /\ c = Top(t).callback)
  OBVIOUS
<1> DEFINE d == depth[t]
<1>0. /\ depth \in [Threads -> Nat] /\ \A x \in Threads : depth[x] <= MaxDepth
      /\ frame \in [Threads -> [1 .. MaxDepth -> Frame]] /\ MaxDepth \in Nat
      /\ d \in 1 .. depth[t] /\ d \in 1 .. MaxDepth
  BY StopTokenAssumption DEF TypeOK
<1>1. /\ depth' = depth /\ frame'[t][d] = e
      /\ u # t => frame'[u] = frame[u]
      /\ \A i \in 1 .. depth[t] : i # d => frame'[t][i] = frame[t][i]
  BY <1>0
<1>2. CASE u # t
  BY <1>1, <1>2 DEF Live
<1>3. CASE u = t
  <2>1. \A i \in 1 .. depth[t] : frame[t][i].callback = frame[t][d].callback => i = d
    BY <1>0 DEF FrameInv
  <2> HIDE DEF d
  <2>2. Top(t) = frame[t][d]
    BY DEF d, Top
  <2> QED
    BY <1>0, <1>1, <1>3, <2>1, <2>2 DEF Live
<1> QED
  BY <1>2, <1>3

\* The innermost frame is gone.
LEMMA LivePop ==
  ASSUME TypeOK, FrameInv, NEW t \in Threads, depth[t] > 0,
         depth' = [depth EXCEPT ![t] = @ - 1],
         frame' = [frame EXCEPT ![t][depth[t]] = NoFrame]
  PROVE  \A u \in Threads : \A c \in Callbacks :
           Live(u, c)' <=> Live(u, c) /\ ~(u = t /\ c = Top(t).callback)
<1> SUFFICES ASSUME NEW u \in Threads, NEW c \in Callbacks
             PROVE  Live(u, c)' <=> Live(u, c) /\ ~(u = t /\ c = Top(t).callback)
  OBVIOUS
<1> DEFINE d == depth[t]
<1>0. /\ depth \in [Threads -> Nat] /\ \A x \in Threads : depth[x] <= MaxDepth
      /\ frame \in [Threads -> [1 .. MaxDepth -> Frame]] /\ MaxDepth \in Nat
      /\ d \in 1 .. depth[t] /\ d \in 1 .. MaxDepth
  BY StopTokenAssumption DEF TypeOK
<1>1. /\ depth'[t] = d - 1
      /\ u # t => frame'[u] = frame[u] /\ depth'[u] = depth[u]
      /\ \A i \in 1 .. d - 1 : frame'[t][i] = frame[t][i]
  BY <1>0
<1>2. CASE u # t
  BY <1>1, <1>2 DEF Live
<1>3. CASE u = t
  <2>1. \A i \in 1 .. depth[t] : frame[t][i].callback = frame[t][d].callback => i = d
    BY <1>0 DEF FrameInv
  <2>2. \A i \in 1 .. d : i \in 1 .. d - 1 \/ i = d
    BY <1>0
  <2>3. \A i \in 1 .. d - 1 : i \in 1 .. d /\ i # d
    BY <1>0
  <2>4. depth[t] = d
    OBVIOUS
  <2> HIDE DEF d
  <2>5. Top(t) = frame[t][d]
    BY DEF d, Top
  <2> QED
    BY <1>1, <1>3, <2>1, <2>2, <2>3, <2>4, <2>5 DEF Live
<1> QED
  BY <1>2, <1>3

\* A frame is marked: the callback destroyed itself.
LEMMA LiveMark ==
  ASSUME TypeOK, FrameInv, NEW t \in Threads, NEW b \in Callbacks, InFrames(t, b) # {},
         frame' = mark_destroyed(t, b), UNCHANGED depth
  PROVE  \A u \in Threads : \A c \in Callbacks :
           Live(u, c)' <=> Live(u, c) /\ ~(u = t /\ c = b)
<1> SUFFICES ASSUME NEW u \in Threads, NEW c \in Callbacks
             PROVE  Live(u, c)' <=> Live(u, c) /\ ~(u = t /\ c = b)
  OBVIOUS
<1>1. PICK k \in 1 .. depth[t] : /\ frame[t][k].callback = b
                                 /\ frame' = [frame EXCEPT ![t][k] = Marked(frame[t][k])]
  BY MarkDestroyed
<1>2. /\ \A x \in Threads : \A i \in 1 .. depth[x] : i \in 1 .. MaxDepth
      /\ frame \in [Threads -> [1 .. MaxDepth -> Frame]]
  BY StopTokenAssumption DEF TypeOK
<1>3. /\ frame'[t][k].callback = b /\ frame'[t][k].destroyed
      /\ \A i \in 1 .. depth[u] : u # t \/ i # k => frame'[u][i] = frame[u][i]
  <2>1. Marked(frame[t][k]).callback = b /\ Marked(frame[t][k]).destroyed
    BY <1>1 DEF Marked
  <2> DEFINE e == Marked(frame[t][k])
  <2>2. k \in 1 .. MaxDepth /\ \A i \in 1 .. depth[u] : i \in 1 .. MaxDepth
    BY <1>2
  <2>3. frame' = [frame EXCEPT ![t][k] = e]
    BY <1>1
  <2> HIDE DEF e
  <2>4. frame'[t][k] = e /\ \A i \in 1 .. depth[u] : u # t \/ i # k => frame'[u][i] = frame[u][i]
    BY <1>2, <2>2, <2>3
  <2> QED
    BY <2>1, <2>4 DEF e
<1>4. \A i \in 1 .. depth[t] : frame[t][i].callback = b => i = k
  BY <1>1 DEF FrameInv
<1>5. depth' = depth
  OBVIOUS
<1>6. CASE u # t
  BY <1>3, <1>5, <1>6 DEF Live
<1>7. CASE u = t
  <2>1. ASSUME Live(t, c), c # b PROVE Live(t, c)'
    BY <1>1, <1>3, <1>5, <1>7, <2>1 DEF Live
  <2>2. ASSUME Live(t, c)' PROVE Live(t, c) /\ c # b
    <3>1. PICK i \in 1 .. depth[t] : frame'[t][i].callback = c /\ ~frame'[t][i].destroyed
      BY <1>5, <2>2 DEF Live
    <3>2. i # k
      BY <1>3, <3>1
    <3> QED
      BY <1>3, <1>4, <1>7, <3>1, <3>2 DEF Live
  <2> QED
    BY <1>7, <2>1, <2>2
<1> QED
  BY <1>6, <1>7

\* A callback that is on a list is on no stack, and is armed.
LEMMA ListedIsArmed ==
  ASSUME IInv, NEW s \in States, callbacks[s] # <<>>
  PROVE  LET c == Head(callbacks[s]) IN
         /\ c \in Callbacks /\ obj[c] = "alive" /\ registered[c] /\ state_[c] = s
         /\ \A u \in Threads : ~Live(u, c)
         /\ At(c, "armed", s, None)
<1> DEFINE c == Head(callbacks[s])
<1>1. callbacks[s] \in Seq(Callbacks) /\ 1 \in 1 .. Len(callbacks[s]) /\ c = callbacks[s][1]
  BY DEF IInv, TypeOK
<1>2. c \in Callbacks /\ obj[c] = "alive" /\ registered[c] /\ state_[c] = s
  BY <1>1 DEF IInv, ListInv
<1>3. \A u \in Threads : ~Live(u, c)
  BY <1>2 DEF IInv, FrameInv, Live
<1> QED
  BY <1>2, <1>3, AtRest DEF IInv

\* Its turn comes.
LEMMA TakenMoves ==
  ASSUME IInv, IInv', NEW t \in Threads, NEW s \in States, callbacks[s] # <<>>,
         NEW c \in Callbacks, c = Head(callbacks[s]),
         requested'[s], UNCHANGED state_, Live(t, c)'
  PROVE  Moves(c, t)
<1>1. state_[c] = s /\ At(c, "armed", s, None)
  BY ListedIsArmed
<1>2. FrameInv'
  BY DEF IInv
<1>3. Then(c, "called", state_'[c], t)
  BY <1>2, AtCalledNext
<1>4. state_'[c] = s
  BY <1>1
<1> QED
  BY <1>1, <1>3, <1>4, MovesAre

\* The first request.
LEMMA RequestStopMoves ==
  ASSUME IInv, IInv', NEW t \in Threads, NEW s \in States, RequestStop(t, s), NEW c \in Callbacks
  PROVE  Moves(c, t)
<1>0. UNCHANGED <<obj, state_, pc, arg>> /\ requested'[s] /\ depth[t] < MaxDepth
  <2>1. requested \in [States -> BOOLEAN] /\ requested' = [requested EXCEPT ![s] = TRUE]
    BY DEF RequestStop, IInv, TypeOK
  <2>2. requested'[s]
    BY <2>1
  <2> QED
    BY <2>2 DEF RequestStop
<1>1. CASE callbacks[s] # <<>> /\ TakeNext(t, s, depth[t] + 1, running)
  <2> DEFINE e == [kind |-> "invoke", state |-> s, callback |-> Head(callbacks[s]),
                   epoch |-> epoch[Head(callbacks[s])], destroyed |-> FALSE]
  <2>1. /\ depth' = [depth EXCEPT ![t] = @ + 1]
        /\ frame' = [frame EXCEPT ![t][depth[t] + 1] = e]
        /\ registered' = [registered EXCEPT ![Head(callbacks[s])] = FALSE]
    BY <1>1 DEF TakeNext
  <2>2. ~e.destroyed /\ e.callback = Head(callbacks[s])
    OBVIOUS
  <2> HIDE DEF e
  <2>3. \A u \in Threads : \A x \in Callbacks :
          Live(u, x)' <=> Live(u, x) \/ (u = t /\ x = Head(callbacks[s]))
    BY <1>0, <2>1, <2>2, LivePush DEF IInv
  <2>4. CASE c = Head(callbacks[s])
    BY <1>0, <1>1, <2>3, <2>4, TakenMoves
  <2>5. CASE c # Head(callbacks[s])
    <3>1. registered'[c] = registered[c]
      BY <2>1, <2>5 DEF IInv, TypeOK
    <3>2. \A u \in Threads : Live(u, c)' <=> Live(u, c)
      BY <2>3, <2>5
    <3>3. Waiting(c)' <=> Waiting(c)
      BY <1>0 DEF Waiting
    <3> QED
      BY <1>0, <3>1, <3>2, <3>3, Stays DEF IInv
  <2> QED
    BY <2>4, <2>5
<1>2. CASE UNCHANGED <<callbacks, registered, running, depth, frame>>
  <2>1. (\A u \in Threads : Live(u, c)' <=> Live(u, c)) /\ (Waiting(c)' <=> Waiting(c))
    BY <1>0, <1>2 DEF Live, Waiting
  <2> QED
    BY <1>0, <1>2, <2>1, Stays DEF IInv
<1> QED
  BY <1>1, <1>2 DEF RequestStop

\* A call returns.
LEMMA ReturnMoves ==
  ASSUME IInv, IInv', DestroyerInv, NEW t \in Threads, depth[t] > 0, Top(t).kind = "invoke",
         ~Top(t).destroyed, NEW c \in Callbacks, c = Top(t).callback,
         UNCHANGED <<obj, state_, pc, arg>>, registered'[c] = registered[c],
         \A u \in Threads : Live(u, c)' <=> Live(u, c) /\ u # t
  PROVE  Moves(c, t)
<1>1. depth[t] \in 1 .. depth[t] /\ frame[t][depth[t]] = Top(t)
  BY DEF IInv, TypeOK, Top
<1>2. Live(t, c)
  BY <1>1 DEF Live
<1>3. At(c, "called", state_[c], t) /\ \A u \in Threads : Live(u, c) => u = t
  <2>1. \A u \in Threads : u \in Callers(c) <=> Live(u, c)
    BY CallersAre DEF IInv
  <2>2. Callers(c) = {t}
    BY <1>2, <2>1, CallersAre DEF IInv
  <2> QED
    BY <1>2, <2>1, <2>2, AtCalled DEF IInv
<1>4. ~registered[c] /\ obj[c] \in {"alive", "destroying"}
  BY <1>1 DEF IInv, FrameInv
<1>5. \A u \in Threads : ~Live(u, c)'
  BY <1>3
<1>6. obj[c] = "destroying" => Waiting(c)'
  <2> SUFFICES ASSUME obj[c] = "destroying" PROVE Waiting(c)'
    OBVIOUS
  <2>1. PICK u \in Threads : pc[u] \in {"wait", "release"} /\ arg[u] = c
    BY DEF DestroyerInv
  <2>2. pc[u] # "release"
    BY <1>1, <2>1 DEF IInv, PcInv
  <2> QED
    BY <2>1, <2>2 DEF Waiting
<1>7. Then(c, "done", state_[c], None)
  BY <1>4, <1>5, <1>6, AtRestNext DEF IInv
<1> QED
  BY <1>3, <1>7, MovesAre

\* request_stop takes the next callback, or is done.
LEMMA InvokeReturnMoves ==
  ASSUME IInv, IInv', DestroyerInv, RequestedInv, NEW t \in Threads, InvokeReturn(t),
         NEW c \in Callbacks
  PROVE  Moves(c, t)
<1> DEFINE s == Top(t).state
           b == Top(t).callback
<1>0. /\ depth[t] > 0 /\ Top(t).kind = "invoke" /\ depth[t] \in 1 .. depth[t]
      /\ s \in States /\ b \in Callbacks /\ ~registered[b] /\ requested[s]
      /\ UNCHANGED <<requested, obj, state_, pc, arg>>
  BY DEF InvokeReturn, Top, IInv, TypeOK, FrameInv, RequestedInv
<1>1. (Waiting(c)' <=> Waiting(c)) /\ FrameInv /\ FrameInv' /\ TypeOK
  BY <1>0 DEF Waiting, IInv
<1>2. ASSUME c = b \/ registered'[c] = registered[c],
             c = b => registered'[c] = registered[c],
             \A u \in Threads : Live(u, c)' <=> Live(u, c) /\ ~(u = t /\ c = b)
      PROVE  Moves(c, t)
  <2>1. CASE c = b /\ ~Top(t).destroyed
    <3>1. \A u \in Threads : Live(u, c)' <=> Live(u, c) /\ u # t
      BY <1>2, <2>1
    <3> QED
      BY <1>0, <1>2, <2>1, <3>1, ReturnMoves
  <2>2. CASE c = b /\ Top(t).destroyed
    <3>1. ~Live(t, c)
      BY <1>0, <1>1, <2>2 DEF Live, Top, FrameInv
    <3>2. \A u \in Threads : Live(u, c)' <=> Live(u, c)
      BY <1>2, <3>1
    <3> QED
      BY <1>0, <1>1, <1>2, <2>2, <3>2, Stays
  <2>3. CASE c # b
    BY <1>0, <1>1, <1>2, <2>3, Stays
  <2> QED
    BY <2>1, <2>2, <2>3
<1>3. CASE callbacks[s] # <<>> /\ TakeNext(t, s, depth[t], StopRunning(t))
  <2> DEFINE h == Head(callbacks[s])
             e == [kind |-> "invoke", state |-> s, callback |-> h,
                   epoch |-> epoch[h], destroyed |-> FALSE]
  <2>1. /\ depth' = [depth EXCEPT ![t] = depth[t]]
        /\ frame' = [frame EXCEPT ![t][depth[t]] = e]
        /\ registered' = [registered EXCEPT ![h] = FALSE]
    BY <1>3 DEF TakeNext
  <2>2. ~e.destroyed /\ e.callback = h
    OBVIOUS
  <2> HIDE DEF e
  <2>3. \A u \in Threads : \A x \in Callbacks :
          Live(u, x)' <=> \/ u = t /\ x = h
                          \/ Live(u, x) /\ ~(u = t /\ x = b)
    BY <1>0, <1>1, <2>1, <2>2, LiveReplace
  <2>4. h # b
    BY <1>0, <1>3, ListedIsArmed
  <2>5. CASE c = h
    <3>1. requested'[s]
      BY <1>0
    <3>2. Live(t, c)'
      BY <2>3, <2>5
    <3> QED
      BY <1>0, <1>3, <2>5, <3>1, <3>2, TakenMoves
  <2>6. CASE c # h
    <3>1. registered'[c] = registered[c]
      BY <2>1, <2>6, <1>1 DEF TypeOK
    <3>2. \A u \in Threads : Live(u, c)' <=> Live(u, c) /\ ~(u = t /\ c = b)
      BY <2>3, <2>6
    <3> QED
      BY <3>1, <3>2, <1>2
  <2> QED
    BY <2>5, <2>6
<1>4. CASE /\ depth' = [depth EXCEPT ![t] = @ - 1]
           /\ frame' = [frame EXCEPT ![t][depth[t]] = NoFrame]
           /\ UNCHANGED <<callbacks, registered>>
  <2>1. \A u \in Threads : Live(u, c)' <=> Live(u, c) /\ ~(u = t /\ c = b)
    BY <1>0, <1>1, <1>4, LivePop
  <2> QED
    BY <1>2, <1>4, <2>1
<1> QED
  BY <1>3, <1>4 DEF InvokeReturn, More

\* A call of the constructor's own returns.
LEMMA InlineReturnMoves ==
  ASSUME IInv, IInv', NEW t \in Threads, InlineReturn(t), NEW c \in Callbacks
  PROVE  Moves(c, t)
<1> DEFINE b == Top(t).callback
<1>0. /\ depth[t] > 0 /\ Top(t).kind = "inline" /\ depth[t] \in 1 .. depth[t]
      /\ b \in Callbacks /\ ~registered[b] /\ ~Top(t).destroyed /\ obj[b] = "constructing"
      /\ obj' = [obj EXCEPT ![b] = "alive"]
      /\ UNCHANGED <<registered, state_, pc, arg>>
      /\ depth' = [depth EXCEPT ![t] = @ - 1]
      /\ frame' = [frame EXCEPT ![t][depth[t]] = NoFrame]
      /\ obj \in [Callbacks -> {"free", "constructing", "alive", "destroying"}]
  <2>1. /\ depth[t] > 0 /\ Top(t).kind = "inline" /\ depth[t] \in 1 .. depth[t]
        /\ Top(t) = frame[t][depth[t]]
        /\ obj \in [Callbacks -> {"free", "constructing", "alive", "destroying"}]
    BY DEF InlineReturn, Top, IInv, TypeOK
  <2>2. b \in Callbacks /\ ~registered[b] /\ ~Top(t).destroyed /\ obj[b] = "constructing"
    BY <2>1 DEF IInv, FrameInv
  <2> QED
    BY <2>1, <2>2 DEF InlineReturn
<1>1. (Waiting(c)' <=> Waiting(c)) /\ FrameInv /\ FrameInv' /\ TypeOK
  BY <1>0 DEF Waiting, IInv
<1>2. \A u \in Threads : Live(u, c)' <=> Live(u, c) /\ ~(u = t /\ c = b)
  BY <1>0, <1>1, LivePop
<1>3. CASE c = b
  <2>1. Live(t, c)
    BY <1>0, <1>3 DEF Live, Top
  <2>2. At(c, "called", state_[c], t) /\ \A u \in Threads : Live(u, c) => u = t
    <3>1. \A u \in Threads : u \in Callers(c) <=> Live(u, c)
      BY <1>1, CallersAre
    <3>2. Callers(c) = {t}
      BY <1>1, <2>1, <3>1, CallersAre
    <3> QED
      BY <1>1, <2>1, <3>1, <3>2, AtCalled
  <2>3. \A u \in Threads : ~Live(u, c)'
    BY <1>2, <1>3, <2>2
  <2>4. obj'[c] = "alive" /\ ~registered'[c]
    BY <1>0, <1>3
  <2>5. Then(c, "done", state_'[c], None)
    BY <1>1, <2>3, <2>4, AtRestNext
  <2>6. state_'[c] = state_[c]
    BY <1>0
  <2> QED
    BY <2>2, <2>5, <2>6, MovesAre
<1>4. CASE c # b
  BY <1>0, <1>1, <1>2, <1>4, Stays
<1> QED
  BY <1>3, <1>4

\* A callback is registered: it is armed on a state without a request.
LEMMA RegisterMoves ==
  ASSUME IInv, IInv', NEW t \in Threads, Register(t), NEW c \in Callbacks
  PROVE  Moves(c, t)
<1> DEFINE b == arg[t]
           s == state_[b]
<1>0. /\ b \in Callbacks /\ s \in States /\ ~requested[s] /\ obj[b] = "constructing"
      /\ \A u \in Threads : ~Live(u, b)
      /\ obj' = [obj EXCEPT ![b] = "alive"] /\ registered' = [registered EXCEPT ![b] = TRUE]
      /\ UNCHANGED <<state_, depth, frame>>
      /\ pc[t] = "construct" /\ pc' = [pc EXCEPT ![t] = "user"] /\ arg' = [arg EXCEPT ![t] = None]
  BY DEF Register, Link, IInv, PcInv, Live
<1>1. /\ FrameInv /\ FrameInv' /\ TypeOK
      /\ obj \in [Callbacks -> {"free", "constructing", "alive", "destroying"}]
      /\ registered \in [Callbacks -> BOOLEAN]
      /\ pc \in [Threads -> {"user", "construct", "wait", "release"}]
      /\ arg \in [Threads -> Callbacks \cup {None}]
  BY DEF IInv, TypeOK
<1>2. \A u \in Threads : Live(u, c)' <=> Live(u, c)
  BY <1>0 DEF Live
<1>3. Waiting(c)' <=> Waiting(c)
  BY <1>0, <1>1 DEF Waiting
<1>4. CASE c = b
  <2>1. At(c, "none", None, None)
    BY <1>0, <1>1, <1>4, AtRest
  <2>2. obj'[c] = "alive" /\ registered'[c]
    BY <1>0, <1>1, <1>4
  <2>3. \A u \in Threads : ~Live(u, c)'
    BY <1>0, <1>2, <1>4
  <2>4. Then(c, "armed", state_'[c], None)
    BY <1>1, <2>2, <2>3, AtRestNext
  <2>5. state_'[c] = s
    BY <1>0, <1>4
  <2> QED
    BY <1>0, <2>1, <2>4, <2>5, MovesAre
<1>5. CASE c # b
  BY <1>0, <1>1, <1>2, <1>3, <1>5, Stays
<1> QED
  BY <1>4, <1>5

\* A callback whose state is stopped already is called at once.
LEMMA CallInlineMoves ==
  ASSUME IInv, IInv', NEW t \in Threads, CallInline(t), NEW c \in Callbacks
  PROVE  Moves(c, t)
<1> DEFINE b == arg[t]
           s == state_[b]
           e == [kind |-> "inline", state |-> s, callback |-> b,
                 epoch |-> epoch[b], destroyed |-> FALSE]
<1>0. /\ b \in Callbacks /\ s \in States /\ requested[s] /\ obj[b] = "constructing"
      /\ \A u \in Threads : ~Live(u, b)
      /\ UNCHANGED <<obj, registered>>
      /\ state_' = [state_ EXCEPT ![b] = None] /\ depth[t] < MaxDepth
      /\ depth' = [depth EXCEPT ![t] = @ + 1]
      /\ frame' = [frame EXCEPT ![t][depth[t] + 1] = e]
      /\ pc[t] = "construct" /\ pc' = [pc EXCEPT ![t] = "user"] /\ arg' = [arg EXCEPT ![t] = None]
  BY DEF CallInline, IInv, PcInv, Live
<1>1. /\ FrameInv /\ FrameInv' /\ TypeOK
      /\ state_ \in [Callbacks -> States \cup {None}]
      /\ pc \in [Threads -> {"user", "construct", "wait", "release"}]
      /\ arg \in [Threads -> Callbacks \cup {None}]
  BY DEF IInv, TypeOK
<1>2. ~e.destroyed /\ e.callback = b
  OBVIOUS
<1> HIDE DEF e
<1>3. \A u \in Threads : Live(u, c)' <=> Live(u, c) \/ (u = t /\ c = b)
  <2>1. /\ ~e.destroyed /\ depth[t] < MaxDepth
        /\ depth' = [depth EXCEPT ![t] = @ + 1]
        /\ frame' = [frame EXCEPT ![t][depth[t] + 1] = e]
    BY <1>0, <1>2
  <2>2. \A u \in Threads : \A x \in Callbacks :
          Live(u, x)' <=> Live(u, x) \/ (u = t /\ x = e.callback)
    BY <1>1, <2>1, LivePush
  <2>. QED
    BY <1>2, <2>2
<1>4. Waiting(c)' <=> Waiting(c)
  BY <1>0, <1>1 DEF Waiting
<1>5. CASE c = b
  <2>1. At(c, "none", None, None)
    BY <1>0, <1>1, <1>5, AtRest
  <2>2. Live(t, c)'
    BY <1>3, <1>5
  <2>3. Then(c, "called", state_'[c], t)
    BY <1>1, <2>2, AtCalledNext
  <2>4. state_'[c] = None
    BY <1>0, <1>1, <1>5
  <2> QED
    BY <1>0, <2>1, <2>3, <2>4, MovesAre
<1>6. CASE c # b
  <2>1. state_'[c] = state_[c]
    BY <1>0, <1>1, <1>6
  <2> QED
    BY <1>0, <1>1, <1>3, <1>4, <1>6, <2>1, Stays
<1> QED
  BY <1>5, <1>6

\* The constructor begins where there is no object and no call.
LEMMA BeginConstructMoves ==
  ASSUME IInv, IInv', ~EagerReuse, NEW t \in Threads, NEW s \in States, NEW b \in Callbacks,
         BeginConstruct(t, s, b), NEW c \in Callbacks
  PROVE  Moves(c, t)
<1>0. /\ obj[b] = "free" /\ \A u \in Threads : InFrames(u, b) = {}
      /\ obj' = [obj EXCEPT ![b] = "constructing"]
      /\ state_' = [state_ EXCEPT ![b] = s] /\ registered' = [registered EXCEPT ![b] = FALSE]
      /\ pc[t] = "user" /\ pc' = [pc EXCEPT ![t] = "construct"] /\ arg' = [arg EXCEPT ![t] = b]
      /\ UNCHANGED <<depth, frame>>
  BY DEF BeginConstruct, InUserCode
<1>1. /\ FrameInv /\ FrameInv' /\ TypeOK
      /\ obj \in [Callbacks -> {"free", "constructing", "alive", "destroying"}]
      /\ state_ \in [Callbacks -> States \cup {None}]
      /\ registered \in [Callbacks -> BOOLEAN]
      /\ pc \in [Threads -> {"user", "construct", "wait", "release"}]
      /\ arg \in [Threads -> Callbacks \cup {None}]
  BY DEF IInv, TypeOK
<1>2. \A u \in Threads : Live(u, c)' <=> Live(u, c)
  BY <1>0 DEF Live
<1>3. Waiting(c)' <=> Waiting(c)
  BY <1>0, <1>1 DEF Waiting
<1>4. CASE c = b
  <2>1. \A u \in Threads : ~Live(u, c)
    <3> SUFFICES ASSUME NEW u \in Threads, NEW i \in 1 .. depth[u], frame[u][i].callback = b,
                        ~frame[u][i].destroyed
                 PROVE  FALSE
      BY <1>4 DEF Live
    <3>1. frame[u][i].kind # "invoke"
      BY <1>0 DEF InFrames
    <3> QED
      BY <1>0, <1>1, <3>1 DEF FrameInv
  <2>2. \A u \in Threads : ~Live(u, c)'
    BY <1>2, <2>1
  <2>3. obj[c] = "free" /\ obj'[c] = "constructing"
    BY <1>0, <1>1, <1>4
  <2> QED
    BY <1>1, <2>1, <2>2, <2>3, StaysNone
<1>5. CASE c # b
  <2>1. obj'[c] = obj[c] /\ state_'[c] = state_[c] /\ registered'[c] = registered[c]
    BY <1>0, <1>1, <1>5
  <2> QED
    BY <1>1, <1>2, <1>3, <2>1, Stays
<1> QED
  BY <1>4, <1>5

\* A callback that was never registered is destroyed.
LEMMA DestroyDetachedMoves ==
  ASSUME IInv, IInv', NEW t \in Threads, NEW b \in Callbacks, DestroyDetached(t, b),
         NEW c \in Callbacks
  PROVE  Moves(c, t)
<1>0. /\ obj[b] = "alive" /\ state_[b] = None /\ obj' = [obj EXCEPT ![b] = "free"]
      /\ UNCHANGED <<state_, registered, pc, arg, depth, frame>>
  BY DEF DestroyDetached, thrvars
<1>1. /\ FrameInv /\ FrameInv' /\ TypeOK
      /\ obj \in [Callbacks -> {"free", "constructing", "alive", "destroying"}]
  BY DEF IInv, TypeOK
<1>2. (\A u \in Threads : Live(u, c)' <=> Live(u, c)) /\ (Waiting(c)' <=> Waiting(c))
  BY <1>0 DEF Live, Waiting
<1>3. CASE c = b
  <2>1. \A u \in Threads : ~Live(u, c)
    BY <1>0, <1>1, <1>3, StopTokenAssumption DEF Live, FrameInv
  <2>2. At(c, "armed", state_[c], None) \/ At(c, "done", state_[c], None)
    BY <1>0, <1>1, <1>3, <2>1, AtRest
  <2>3. obj'[c] = "free" /\ \A u \in Threads : ~Live(u, c)'
    BY <1>0, <1>1, <1>2, <1>3, <2>1
  <2>4. Then(c, "none", None, None)
    BY <1>1, <2>3, AtRestNext
  <2> QED
    BY <2>2, <2>4, MovesAre
<1>4. CASE c # b
  <2>1. obj'[c] = obj[c]
    BY <1>0, <1>1, <1>4
  <2> QED
    BY <1>0, <1>1, <1>2, <2>1, Stays
<1> QED
  BY <1>3, <1>4

\* The destructor of a registered callback: what is called goes on, unless the
\* call is this thread's.
LEMMA BeginDestroyMoves ==
  ASSUME IInv, IInv', NEW t \in Threads, NEW b \in Callbacks, BeginDestroy(t, b),
         NEW c \in Callbacks
  PROVE  Moves(c, t)
<1>0. /\ obj[b] = "alive" /\ obj' = [obj EXCEPT ![b] = "destroying"]
      /\ pc[t] = "user" /\ arg' = [arg EXCEPT ![t] = b]
      /\ registered' = [registered EXCEPT ![b] = FALSE]
      /\ UNCHANGED <<state_, depth>>
      /\ \/ /\ InFrames(t, b) # {} /\ frame' = mark_destroyed(t, b)
            /\ pc' = [pc EXCEPT ![t] = "release"]
         \/ /\ InFrames(t, b) = {} /\ UNCHANGED frame
            /\ pc' = [pc EXCEPT ![t] = IF running[b] THEN "wait" ELSE "release"]
  BY DEF BeginDestroy, InUserCode
<1>1. /\ FrameInv /\ FrameInv' /\ TypeOK /\ PcInv /\ RunInv
      /\ obj \in [Callbacks -> {"free", "constructing", "alive", "destroying"}]
      /\ registered \in [Callbacks -> BOOLEAN]
      /\ pc \in [Threads -> {"user", "construct", "wait", "release"}]
      /\ arg \in [Threads -> Callbacks \cup {None}]
  BY DEF IInv, TypeOK
<1>2. \A u \in Threads : pc[u] = "wait" => arg[u] # b /\ u # t
  BY <1>0, <1>1 DEF PcInv
<1>3. CASE c # b
  <2>1. obj'[c] = obj[c] /\ registered'[c] = registered[c] /\ state_'[c] = state_[c]
    BY <1>0, <1>1, <1>3
  <2>2. Waiting(c)' <=> Waiting(c)
    <3>1. arg'[t] = b /\ \A u \in Threads : u # t => pc'[u] = pc[u] /\ arg'[u] = arg[u]
      BY <1>0, <1>1
    <3> QED
      BY <1>2, <1>3, <3>1 DEF Waiting
  <2>3. \A u \in Threads : Live(u, c)' <=> Live(u, c)
    <3>1. CASE InFrames(t, b) # {} /\ frame' = mark_destroyed(t, b)
      BY <1>0, <1>1, <1>3, <3>1, LiveMark
    <3>2. CASE UNCHANGED frame
      BY <1>0, <3>2 DEF Live
    <3> QED
      BY <1>0, <3>1, <3>2
  <2> QED
    BY <1>1, <2>1, <2>2, <2>3, Stays
<1>4. CASE c = b
  <2>0. obj[c] = "alive" /\ obj'[c] = "destroying" /\ state_'[c] = state_[c] /\ arg'[t] = c
    BY <1>0, <1>1, <1>4
  <2>1. CASE InFrames(t, b) # {} /\ frame' = mark_destroyed(t, b) /\ pc' = [pc EXCEPT ![t] = "release"]
    <3>1. ~Waiting(c)'
      <4>1. \A u \in Threads : pc'[u] = "wait" => pc[u] = "wait" /\ arg'[u] = arg[u]
        BY <1>0, <1>1, <2>1
      <4> QED
        BY <1>2, <1>4, <4>1 DEF Waiting
    <3>2. \A u \in Threads : Live(u, c)' <=> Live(u, c) /\ ~(u = t /\ c = b)
      BY <1>0, <1>1, <2>1, LiveMark
    <3>3. \A u \in Threads : Live(u, c) => u = t
      <4>1. PICK i \in 1 .. depth[t] : frame[t][i].callback = b
        BY <2>1 DEF InFrames
      <4> QED
        BY <1>1, <1>4, <4>1 DEF Live, FrameInv
    <3>4. Then(c, "none", None, None)
      BY <1>1, <1>4, <2>0, <3>1, <3>2, <3>3, AtRestNext
    <3>5. CASE Live(t, c)
      BY <1>1, <3>4, <3>5, AtCalled, MovesAre
    <3>6. CASE ~Live(t, c)
      <4>1. At(c, "armed", state_[c], None) \/ At(c, "done", state_[c], None)
        BY <1>1, <2>0, <3>3, <3>6, AtRest
      <4> QED
        BY <3>4, <4>1, MovesAre
    <3> QED
      BY <3>5, <3>6
  <2>2. CASE UNCHANGED frame /\ running[b] /\ pc' = [pc EXCEPT ![t] = "wait"]
    <3>1. PICK u \in Threads : Live(u, c)
      BY <1>0, <1>1, <1>4, <2>2 DEF RunInv, Live
    <3>2. Live(u, c)'
      BY <1>0, <2>2, <3>1 DEF Live
    <3>3. At(c, "called", state_[c], u) /\ Then(c, "called", state_'[c], u)
      BY <1>1, <3>1, <3>2, AtCalled, AtCalledNext
    <3> QED
      BY <2>0, <3>3, MovesAre
  <2>3. CASE UNCHANGED frame /\ ~running[b] /\ pc' = [pc EXCEPT ![t] = "release"]
    <3>1. \A u \in Threads : ~Live(u, c)
      BY <1>0, <1>1, <1>4, <2>3 DEF FrameInv, Live
    <3>2. \A u \in Threads : ~Live(u, c)'
      BY <1>0, <2>3, <3>1 DEF Live
    <3>3. ~Waiting(c)'
      <4>1. \A u \in Threads : pc'[u] = "wait" => pc[u] = "wait" /\ arg'[u] = arg[u]
        BY <1>0, <1>1, <2>3
      <4> QED
        BY <1>2, <1>4, <4>1 DEF Waiting
    <3>4. Then(c, "none", None, None)
      BY <1>1, <2>0, <3>2, <3>3, AtRestNext
    <3>5. At(c, "armed", state_[c], None) \/ At(c, "done", state_[c], None)
      BY <1>1, <2>0, <3>1, AtRest
    <3> QED
      BY <3>4, <3>5, MovesAre
  <2> QED
    BY <1>0, <2>1, <2>2, <2>3
<1> QED
  BY <1>3, <1>4

\* The wait of a destructor is over.
LEMMA WaitDoneMoves ==
  ASSUME IInv, IInv', NEW t \in Threads, WaitDone(t), NEW c \in Callbacks
  PROVE  Moves(c, t)
<1> DEFINE b == arg[t]
<1>0. /\ pc[t] = "wait" /\ ~running[b] /\ pc' = [pc EXCEPT ![t] = "release"]
      /\ UNCHANGED <<obj, state_, registered, arg, depth, frame>>
      /\ b \in Callbacks /\ obj[b] = "destroying"
      /\ \A u \in Threads : pc[u] = "wait" /\ arg[u] = b => u = t
  BY DEF WaitDone, cbvars, IInv, PcInv
<1>1. /\ FrameInv /\ FrameInv' /\ TypeOK
      /\ pc \in [Threads -> {"user", "construct", "wait", "release"}]
  BY DEF IInv, TypeOK
<1>2. \A u \in Threads : Live(u, c)' <=> Live(u, c)
  BY <1>0 DEF Live
<1>3. \A u \in Threads : pc'[u] = "wait" <=> pc[u] = "wait" /\ u # t
  BY <1>0, <1>1
<1>4. CASE c = b
  <2>1. \A u \in Threads : ~Live(u, c) /\ ~Live(u, c)'
    BY <1>0, <1>1, <1>2, <1>4 DEF FrameInv, Live
  <2>2. Waiting(c) /\ ~Waiting(c)'
    BY <1>0, <1>3, <1>4 DEF Waiting
  <2>3. At(c, "done", state_[c], None)
    BY <1>0, <1>1, <1>4, <2>1, <2>2, AtRest
  <2>4. Then(c, "none", None, None)
    BY <1>0, <1>1, <1>4, <2>1, <2>2, AtRestNext
  <2> QED
    BY <2>3, <2>4, MovesAre
<1>5. CASE c # b
  <2>1. Waiting(c)' <=> Waiting(c)
    BY <1>0, <1>3, <1>5 DEF Waiting
  <2> QED
    BY <1>0, <1>1, <1>2, <2>1, Stays
<1> QED
  BY <1>4, <1>5

\* The object of a destructor is gone.
LEMMA EndDestroyMoves ==
  ASSUME IInv, IInv', NEW t \in Threads, EndDestroy(t), NEW c \in Callbacks
  PROVE  Moves(c, t)
<1> DEFINE b == arg[t]
<1>0. /\ pc[t] = "release" /\ pc' = [pc EXCEPT ![t] = "user"] /\ arg' = [arg EXCEPT ![t] = None]
      /\ UNCHANGED <<registered, depth, frame>>
      /\ obj' = [obj EXCEPT ![b] = "free"] /\ state_' = [state_ EXCEPT ![b] = None]
      /\ b \in Callbacks /\ obj[b] = "destroying"
      /\ \A u \in Threads : pc[u] = "wait" => arg[u] # b
      /\ \A u \in Threads : ~Live(u, b)
  BY DEF EndDestroy, IInv, PcInv, Live
<1>1. /\ FrameInv /\ FrameInv' /\ TypeOK
      /\ obj \in [Callbacks -> {"free", "constructing", "alive", "destroying"}]
      /\ state_ \in [Callbacks -> States \cup {None}]
      /\ pc \in [Threads -> {"user", "construct", "wait", "release"}]
      /\ arg \in [Threads -> Callbacks \cup {None}]
  BY DEF IInv, TypeOK
<1>2. \A u \in Threads : Live(u, c)' <=> Live(u, c)
  BY <1>0 DEF Live
<1>3. CASE c = b
  <2>1. obj'[c] = "free"
    BY <1>0, <1>1, <1>3
  <2>2. ~Waiting(c)
    BY <1>0, <1>3 DEF Waiting
  <2> QED
    BY <1>0, <1>1, <1>2, <1>3, <2>1, <2>2, StaysNone
<1>4. CASE c # b
  <2>1. obj'[c] = obj[c] /\ state_'[c] = state_[c]
    BY <1>0, <1>1, <1>4
  <2>2. Waiting(c)' <=> Waiting(c)
    BY <1>0, <1>1 DEF Waiting
  <2> QED
    BY <1>0, <1>1, <1>2, <2>1, <2>2, Stays
<1> QED
  BY <1>3, <1>4

\* A step that leaves calls and objects alone leaves destructors in good hands.
LEMMA DestroyerKept ==
  ASSUME DestroyerInv, UNCHANGED <<obj, pc, arg>>
  PROVE  DestroyerInv'
  BY DEF DestroyerInv

\* The destructor is in the hands of the thread that runs it.
LEMMA DestroyerStep ==
  ASSUME IInv, DestroyerInv, [Next]_vars
  PROVE  DestroyerInv'
<1>0. /\ obj \in [Callbacks -> {"free", "constructing", "alive", "destroying"}]
      /\ pc \in [Threads -> {"user", "construct", "wait", "release"}]
      /\ arg \in [Threads -> Callbacks \cup {None}]
  BY DEF IInv, TypeOK
<1>1. CASE Handles \/ Quiet \/ UNCHANGED vars
  <2>1. UNCHANGED <<obj, pc, arg>>
    BY <1>1 DEF Handles, CopySource, GetToken, DropSource, DropToken, Quiet, vars, cbvars, thrvars
  <2> QED
    BY <2>1, DestroyerKept
<1>2. ASSUME NEW t \in Threads, Proceed(t) PROVE DestroyerInv'
  <2>1. CASE InvokeReturn(t)
    BY <2>1, DestroyerKept DEF InvokeReturn
  <2>2. CASE Register(t) \/ CallInline(t)
    <3>1. pc[t] = "construct" /\ \A c \in Callbacks : obj'[c] = "destroying" => obj[c] = "destroying"
      BY <1>0, <2>2 DEF Register, Link, CallInline, cbvars
    <3>2. \A u \in Threads : pc[u] \in {"wait", "release"} => pc'[u] = pc[u] /\ arg'[u] = arg[u]
      BY <1>0, <2>2, <3>1 DEF Register, Link, CallInline
    <3> QED
      BY <3>1, <3>2 DEF DestroyerInv
  <2>3. CASE InlineReturn(t)
    <3>1. UNCHANGED <<pc, arg>> /\ \A c \in Callbacks : obj'[c] = "destroying" => obj[c] = "destroying"
      BY <1>0, <2>3 DEF InlineReturn
    <3> QED
      BY <3>1 DEF DestroyerInv
  <2>4. CASE WaitDone(t)
    <3>1. UNCHANGED <<obj, arg>> /\ pc' = [pc EXCEPT ![t] = "release"]
      BY <2>4 DEF WaitDone, cbvars
    <3>2. \A u \in Threads : pc[u] \in {"wait", "release"} => pc'[u] \in {"wait", "release"}
      BY <1>0, <3>1
    <3> QED
      BY <3>1, <3>2 DEF DestroyerInv
  <2>5. CASE EndDestroy(t)
    <3>1. \A c \in Callbacks : obj'[c] = "destroying" => obj[c] = "destroying" /\ c # arg[t]
      BY <1>0, <2>5 DEF EndDestroy
    <3>2. \A u \in Threads : u # t => pc'[u] = pc[u] /\ arg'[u] = arg[u]
      BY <1>0, <2>5 DEF EndDestroy
    <3> QED
      BY <3>1, <3>2 DEF DestroyerInv
  <2> QED
    BY <1>2, <2>1, <2>2, <2>3, <2>4, <2>5 DEF Proceed
<1>3. ASSUME NEW t \in Threads, UserCall(t) PROVE DestroyerInv'
  <2>1. ASSUME NEW s \in States, RequestStop(t, s) PROVE DestroyerInv'
    BY <2>1, DestroyerKept DEF RequestStop
  <2>2. ASSUME NEW s \in States, NEW c \in Callbacks, BeginConstruct(t, s, c) PROVE DestroyerInv'
    <3>1. pc[t] = "user" /\ \A b \in Callbacks : obj'[b] = "destroying" => obj[b] = "destroying"
      BY <1>0, <2>2 DEF BeginConstruct, InUserCode
    <3>2. \A u \in Threads : pc[u] \in {"wait", "release"} => pc'[u] = pc[u] /\ arg'[u] = arg[u]
      BY <1>0, <2>2, <3>1 DEF BeginConstruct
    <3> QED
      BY <3>1, <3>2 DEF DestroyerInv
  <2>3. ASSUME NEW c \in Callbacks, DestroyDetached(t, c) PROVE DestroyerInv'
    <3>1. UNCHANGED <<pc, arg>> /\ \A b \in Callbacks : obj'[b] = "destroying" => obj[b] = "destroying"
      BY <1>0, <2>3 DEF DestroyDetached, thrvars
    <3> QED
      BY <3>1 DEF DestroyerInv
  <2>4. ASSUME NEW c \in Callbacks, BeginDestroy(t, c) PROVE DestroyerInv'
    <3>1. /\ pc[t] = "user" /\ arg'[t] = c /\ pc'[t] \in {"wait", "release"}
          /\ \A b \in Callbacks : obj'[b] = "destroying" => obj[b] = "destroying" \/ b = c
      BY <1>0, <2>4 DEF BeginDestroy, InUserCode
    <3>2. \A u \in Threads : pc[u] \in {"wait", "release"} => pc'[u] = pc[u] /\ arg'[u] = arg[u]
      BY <1>0, <2>4, <3>1 DEF BeginDestroy
    <3> QED
      BY <3>1, <3>2 DEF DestroyerInv
  <2> QED
    BY <1>3, <2>1, <2>2, <2>3, <2>4 DEF UserCall
<1> QED
  BY <1>1, <1>2, <1>3 DEF Next

\* Every frame of request_stop is one of before the step, or of a stopped state.
LEMMA RequestedKept ==
  ASSUME RequestedInv, \A s \in States : requested[s] => requested'[s],
         \A t \in Threads : \A i \in 1 .. depth[t] : frame[t][i].state \in States,
         \A t \in Threads : \A i \in 1 .. depth'[t] : frame'[t][i].kind = "invoke" =>
           \/ i \in 1 .. depth[t] /\ frame[t][i].kind = "invoke"
                /\ frame'[t][i].state = frame[t][i].state
           \/ requested'[frame'[t][i].state]
  PROVE  RequestedInv'
  BY DEF RequestedInv

\* The frame of the callback that request_stop takes.
LEMMA TakeNextRequested ==
  ASSUME TypeOK, FrameInv, RequestedInv, NEW t \in Threads, NEW s \in States, NEW d \in 1 .. MaxDepth,
         NEW running1, TakeNext(t, s, d, running1), d = depth[t] + 1 \/ d = depth[t],
         \A x \in States : requested[x] => requested'[x], requested'[s]
  PROVE  RequestedInv'
<1> DEFINE e == [kind |-> "invoke", state |-> s, callback |-> Head(callbacks[s]),
                 epoch |-> epoch[Head(callbacks[s])], destroyed |-> FALSE]
<1>0. /\ depth \in [Threads -> Nat] /\ depth' = [depth EXCEPT ![t] = d] /\ d \in Nat
      /\ frame \in [Threads -> [1 .. MaxDepth -> Frame]] /\ MaxDepth \in Nat
      /\ \A u \in Threads : depth[u] <= MaxDepth
      /\ frame' = [frame EXCEPT ![t][d] = e] /\ e.state = s
  BY StopTokenAssumption DEF TakeNext, TypeOK
<1> HIDE DEF e
<1> SUFFICES ASSUME NEW u \in Threads, NEW i \in 1 .. depth'[u], frame'[u][i].kind = "invoke"
             PROVE  \/ i \in 1 .. depth[u] /\ frame[u][i].kind = "invoke"
                         /\ frame'[u][i].state = frame[u][i].state
                    \/ requested'[frame'[u][i].state]
  BY RequestedKept DEF FrameInv
<1>1. CASE u = t /\ i = d
  BY <1>0, <1>1
<1>2. CASE u # t \/ i # d
  <2>1. i \in 1 .. depth[u] /\ frame'[u][i] = frame[u][i]
    BY <1>0, <1>2
  <2> QED
    BY <2>1
<1> QED
  BY <1>1, <1>2

\* request_stop is in its loop after it has set the flag, which stays set.
LEMMA RequestedStep ==
  ASSUME IInv, RequestedInv, [Next]_vars
  PROVE  RequestedInv' /\ \A s \in States : requested[s] => requested'[s]
<1>0. /\ depth \in [Threads -> Nat] /\ frame \in [Threads -> [1 .. MaxDepth -> Frame]]
      /\ \A u \in Threads : depth[u] <= MaxDepth
      /\ MaxDepth \in Nat /\ FrameInv /\ TypeOK /\ PcInv /\ requested \in [States -> BOOLEAN]
      /\ \A t \in Threads : \A i \in 1 .. depth[t] : frame[t][i].state \in States
  BY StopTokenAssumption DEF IInv, TypeOK, FrameInv
<1>1. ASSUME UNCHANGED <<requested, depth, frame>>
      PROVE  RequestedInv' /\ \A s \in States : requested[s] => requested'[s]
  BY <1>1 DEF RequestedInv
<1>2. CASE Handles \/ Quiet \/ UNCHANGED vars
  BY <1>1, <1>2 DEF Handles, CopySource, GetToken, DropSource, DropToken, Quiet, vars, thrvars
<1>3. ASSUME NEW t \in Threads, depth[t] > 0, UNCHANGED requested,
             depth' = [depth EXCEPT ![t] = @ - 1],
             frame' = [frame EXCEPT ![t][depth[t]] = NoFrame]
      PROVE  RequestedInv'
  <2>1. \A u \in Threads : \A i \in 1 .. depth'[u] : i \in 1 .. depth[u] /\ frame'[u][i] = frame[u][i]
    BY <1>0, <1>3
  <2> QED
    BY <1>0, <1>3, <2>1, RequestedKept
<1>4. ASSUME NEW t \in Threads, Proceed(t)
      PROVE  RequestedInv' /\ \A s \in States : requested[s] => requested'[s]
  <2>1. CASE InvokeReturn(t)
    <3> DEFINE s == Top(t).state
               d == depth[t]
    <3>1. /\ s \in States /\ requested[s] /\ d \in 1 .. MaxDepth /\ depth[t] > 0
          /\ UNCHANGED requested
      BY <1>0, <2>1 DEF InvokeReturn, Top, RequestedInv
    <3>2. CASE TakeNext(t, s, d, StopRunning(t))
      <4> HIDE DEF s, d
      <4> QED
        BY <1>0, <3>1, <3>2, TakeNextRequested DEF d
    <3>3. CASE /\ depth' = [depth EXCEPT ![t] = @ - 1]
               /\ frame' = [frame EXCEPT ![t][depth[t]] = NoFrame]
      BY <1>3, <3>1, <3>3
    <3> QED
      BY <2>1, <3>2, <3>3 DEF InvokeReturn
  <2>2. CASE Register(t)
    BY <1>1, <2>2 DEF Register, Link
  <2>3. CASE CallInline(t)
    <3> DEFINE c == arg[t]
               e == [kind |-> "inline", state |-> state_[c], callback |-> c,
                     epoch |-> epoch[c], destroyed |-> FALSE]
    <3>1. /\ UNCHANGED requested /\ depth' = [depth EXCEPT ![t] = @ + 1]
          /\ frame' = [frame EXCEPT ![t][depth[t] + 1] = e] /\ e.kind = "inline"
          /\ depth[t] < MaxDepth
      BY <1>0, <2>3 DEF CallInline, statevars, PcInv
    <3> HIDE DEF c, e
    <3>2. \A u \in Threads : \A i \in 1 .. depth'[u] :
            \/ u = t /\ i = depth[t] + 1 /\ frame'[u][i] = e
            \/ i \in 1 .. depth[u] /\ frame'[u][i] = frame[u][i]
      BY <1>0, <3>1
    <3> QED
      BY <1>0, <3>1, <3>2, RequestedKept
  <2>4. CASE InlineReturn(t)
    BY <1>3, <2>4 DEF InlineReturn
  <2>5. CASE WaitDone(t) \/ EndDestroy(t)
    BY <1>1, <2>5 DEF WaitDone, EndDestroy, statevars
  <2> QED
    BY <1>4, <2>1, <2>2, <2>3, <2>4, <2>5 DEF Proceed
<1>5. ASSUME NEW t \in Threads, UserCall(t)
      PROVE  RequestedInv' /\ \A s \in States : requested[s] => requested'[s]
  <2>1. ASSUME NEW s \in States, RequestStop(t, s)
        PROVE  RequestedInv' /\ \A x \in States : requested[x] => requested'[x]
    <3>1. /\ requested' = [requested EXCEPT ![s] = TRUE] /\ depth[t] + 1 \in 1 .. MaxDepth
      BY <1>0, <2>1 DEF RequestStop
    <3>2. requested'[s] /\ \A x \in States : requested[x] => requested'[x]
      BY <1>0, <3>1
    <3>3. CASE TakeNext(t, s, depth[t] + 1, running)
      BY <1>0, <3>1, <3>2, <3>3, TakeNextRequested
    <3>4. CASE UNCHANGED <<depth, frame>>
      BY <1>0, <3>2, <3>4 DEF RequestedInv
    <3> QED
      BY <2>1, <3>2, <3>3, <3>4 DEF RequestStop
  <2>2. ASSUME NEW s \in States, NEW c \in Callbacks, BeginConstruct(t, s, c)
        PROVE  RequestedInv' /\ \A x \in States : requested[x] => requested'[x]
    BY <1>1, <2>2 DEF BeginConstruct
  <2>3. ASSUME NEW c \in Callbacks, DestroyDetached(t, c)
        PROVE  RequestedInv' /\ \A x \in States : requested[x] => requested'[x]
    BY <1>1, <2>3 DEF DestroyDetached, statevars, thrvars
  <2>4. ASSUME NEW c \in Callbacks, BeginDestroy(t, c)
        PROVE  RequestedInv' /\ \A x \in States : requested[x] => requested'[x]
    <3>1. UNCHANGED <<requested, depth>>
      BY <2>4 DEF BeginDestroy
    <3>2. CASE UNCHANGED frame
      BY <1>1, <3>1, <3>2
    <3>3. CASE InFrames(t, c) # {} /\ frame' = mark_destroyed(t, c)
      <4>1. PICK k \in 1 .. depth[t] : frame' = [frame EXCEPT ![t][k] = Marked(frame[t][k])]
        BY <1>0, <3>3, MarkDestroyed
      <4>2. \A u \in Threads : \A i \in 1 .. depth[u] :
              frame'[u][i].kind = frame[u][i].kind /\ frame'[u][i].state = frame[u][i].state
        BY <1>0, <4>1 DEF Marked
      <4> QED
        BY <1>0, <3>1, <4>2, RequestedKept
    <3> QED
      BY <2>4, <3>2, <3>3 DEF BeginDestroy
  <2> QED
    BY <1>5, <2>1, <2>2, <2>3, <2>4 DEF UserCall
<1> QED
  BY <1>2, <1>4, <1>5 DEF Next

\* Every step is one of StopPromise, or changes nothing that it speaks of.
LEMMA PromiseStep ==
  ASSUME ~EagerReuse, IInv, IInv', DestroyerInv, RequestedInv, [Next]_vars
  PROVE  [Promise!Next]_<<requested, phase, On, Caller>>
<1>1. \A s \in States : requested[s] => requested'[s]
  BY RequestedStep
<1>2. CASE Handles \/ Quiet \/ UNCHANGED vars
  <2>1. UNCHANGED <<requested, cbvars, thrvars>>
    BY <1>2 DEF Handles, CopySource, GetToken, DropSource, DropToken, Quiet, vars, cbvars, thrvars
  <2>2. \A c \in Callbacks : Callers(c)' = Callers(c)
    BY <2>1 DEF Callers, IsLive, cbvars, thrvars
  <2>3. phase' = phase
    BY <2>1, <2>2 DEF phase, cbvars, thrvars
  <2>4. On' = On /\ Caller' = Caller
    <3>1. On' = On
      BY <2>1, <2>3 DEF On, cbvars
    <3>2. ASSUME NEW c \in Callbacks PROVE Caller'[c] = Caller[c]
      <4>1. CASE Callers(c) = {}
        BY <2>2, <4>1 DEF Caller
      <4>2. CASE Callers(c) # {}
        <5>1. PICK u \in Threads : Live(u, c)
          BY <4>2, CallersAre DEF IInv
        <5>2. Live(u, c)'
          BY <2>1, <5>1 DEF Live, thrvars
        <5> QED
          BY <5>1, <5>2, AtCalled, AtCalledNext DEF IInv, At, Then
      <4> QED
        BY <4>1, <4>2
    <3>3. Caller' = Caller
      BY <3>2 DEF Caller
    <3> QED
      BY <3>1, <3>3
  <2> QED
    BY <2>1, <2>3, <2>4
<1>3. ASSUME NEW t \in Threads, \A c \in Callbacks : Moves(c, t)
      PROVE  Promise!Next
  BY <1>1, <1>3, StepIs DEF IInv
<1>4. ASSUME NEW t \in Threads, Proceed(t) PROVE Promise!Next
  <2>1. \A c \in Callbacks : Moves(c, t)
    <3> SUFFICES ASSUME NEW c \in Callbacks PROVE Moves(c, t)
      OBVIOUS
    <3>1. InvokeReturn(t) => Moves(c, t)
      BY InvokeReturnMoves
    <3>2. (Register(t) => Moves(c, t)) /\ (CallInline(t) => Moves(c, t))
      BY RegisterMoves, CallInlineMoves
    <3>3. InlineReturn(t) => Moves(c, t)
      BY InlineReturnMoves
    <3>4. (WaitDone(t) => Moves(c, t)) /\ (EndDestroy(t) => Moves(c, t))
      BY WaitDoneMoves, EndDestroyMoves
    <3> QED
      BY <1>4, <3>1, <3>2, <3>3, <3>4 DEF Proceed
  <2> QED
    BY <1>3, <2>1
<1>5. ASSUME NEW t \in Threads, UserCall(t) PROVE Promise!Next
  <2>1. \A c \in Callbacks : Moves(c, t)
    BY <1>5, RequestStopMoves, BeginConstructMoves, DestroyDetachedMoves, BeginDestroyMoves
    DEF UserCall
  <2> QED
    BY <1>3, <2>1
<1> QED
  BY <1>2, <1>4, <1>5 DEF Next

\* PromiseKept: stop_source and stop_callback implement StopPromise, for any number
\* of threads, stop states and callbacks.  A callback is called at most once, only
\* after a request on its state, by the thread that requests or that constructs it;
\* the destructor on another thread never cuts a call off (request_stop, and
\* ~stop_callback, which waits).
THEOREM KeepsThePromise ==
  ASSUME ~EagerReuse
  PROVE  Spec => PromiseKept
<1> DEFINE PInv == IInv /\ DestroyerInv /\ RequestedInv
<1>1. Init => PInv
  BY Initially DEF Init, DestroyerInv, RequestedInv
<1>2. PInv /\ [Next]_vars => PInv'
  BY Inductive, DestroyerStep, RequestedStep
<1>3. Init => Promise!Init
  <2> SUFFICES ASSUME Init PROVE Promise!Init
    OBVIOUS
  <2>1. \A c \in Callbacks : Callers(c) = {}
    BY DEF Init, Callers
  <2>2. \A c \in Callbacks : phase[c] = "none"
    BY <2>1 DEF Init, phase
  <2>3. phase = [c \in Callbacks |-> "none"]
    BY <2>2 DEF phase
  <2> QED
    BY <2>1, <2>2, <2>3 DEF Init, Promise!Init
<1>4. PInv /\ PInv' /\ [Next]_vars => [Promise!Next]_<<requested, phase, On, Caller>>
  BY PromiseStep
<1>5. [Promise!Next]_<<requested, phase, On, Caller>> => [Promise!Next]_Promise!vars
  BY DEF Promise!vars, On, Caller
<1> QED
  BY <1>1, <1>2, <1>3, <1>4, <1>5, PTL DEF Spec, PromiseKept, Promise!Spec

=============================================================================
