---------------------------- MODULE Future_proofs ----------------------------
(***************************************************************************)
(* Theorems about Future for every number of threads, shared states and    *)
(* nested tasks: StatesExact (types, reference counts, storage and wake-   *)
(* ups) and OutcomeStable.                                                 *)
(***************************************************************************)
EXTENDS Future, FiniteSetTheorems, TLAPS

(***************************************************************************)
(* The strengthening, state by state: which steps a thread can be in, what *)
(* the two sides of a state hold while they are in them, and how the count *)
(* of references, the storage and the sleeping threads follow from that.   *)
(***************************************************************************)

\* Where a thread of the program can be: in its own code or in a call of one state.
ThreadCall(c) ==
  \/ c = User
  \/ /\ c.state \in States
     /\ \/ c.pc \in {"caught", "notify"} /\ c.next = "user"
        \/ c.pc = "notify" /\ c.next = "release"
        \/ c.pc \in {"release", "destroy", "reset"} /\ c.next = "none"
        \/ c.pc \in {"wait", "woken"} /\ c.next \in {"get", "wait", "timed"}
        \/ c.pc = "take" /\ c.next = "get"

\* The thread that async started works on its own state alone.
AsyncCall(s, c) ==
  \/ c = Ended
  \/ /\ c.state = s
     /\ \/ c.pc \in {"function", "release"} /\ c.next = "none"
        \/ c.pc \in {"caught", "notify"} /\ c.next = "release"

PlacesInv ==
  /\ \A t \in Threads : ThreadCall(proc[t])
  /\ \A s \in States : AsyncCall(s, proc[s])

\* The calls of a future in which it has its thread.
InFuture == {"wait", "woken", "take", "destroy", "reset"}

\* The promise's side: who works on it keeps it, and async has no promise.
PromiseInv(s) ==
  /\ prom[s] => kind[s] # "async"
  /\ \A t \in Threads : \A i \in 1 .. Len(inside[t]) : inside[t][i] = s => prom[s]
  /\ \A t \in Threads : proc[t].state = s /\ proc[t].next = "user" => prom[s]
  /\ proc[s].pc \in {"function", "caught"} => kind[s] = "async" /\ ~ready[s]
  /\ ~ready[s] => ~error[s] /\ ~exception[s]

\* The future's side: one thread at a time, and get's steps have what they take.
FutureInv(s) ==
  /\ fut[s] => future_retrieved[s] \/ kind[s] = "async"
  /\ \A t \in Threads : proc[t].state = s =>
       /\ proc[t].pc \in {"wait", "woken", "take"} => fut[s]
       /\ proc[t].pc = "take" => ready[s]
       /\ proc[t].pc \in {"destroy", "reset"} =>
            ~fut[s] /\ (future_retrieved[s] \/ kind[s] = "async") /\ Destructs(s)
       /\ t \in waiting[s] <=> proc[t].pc = "wait"
  /\ \A t \in Threads : t \in waiting[s] => proc[t].state = s
  /\ \A t, u \in Threads :
       proc[t].state = s /\ proc[t].pc \in InFuture /\
       proc[u].state = s /\ proc[u].pc \in InFuture => t = u

\* RefsExact, StorageExact and NoLostWakeup of one state.
Counted(s) ==
  /\ references[s] = Cardinality(Releasing(s)) + (IF prom[s] THEN 1 ELSE 0)
                                               + (IF fut[s] THEN 1 ELSE 0)
  /\ alive[s] <=> references[s] > 0
  /\ prom[s] \/ fut[s] \/ (\E p \in Procs : proc[p].state = s) => alive[s]

Stored(s) ==
  (storage[s] # "raw") <=>
    /\ alive[s]
    /\ Destructs(s)
    /\ \A t \in Threads : ~(proc[t].pc = "reset" /\ proc[t].state = s)

Notified(s) ==
  waiting[s] # {} /\ ready[s] => \E p \in Procs : proc[p].pc = "notify" /\ proc[p].state = s

\* What holds of one state, and the invariant.
At1(s) == PromiseInv(s) /\ FutureInv(s) /\ Counted(s) /\ Stored(s) /\ Notified(s)

FInv == TypeOK /\ PlacesInv /\ \A s \in States : At1(s)

-----------------------------------------------------------------------------
(* Facts about one step *)

\* The state has no part in the step.
Untouched(s) ==
  /\ alive'[s] = alive[s] /\ kind'[s] = kind[s] /\ hasValue'[s] = hasValue[s]
  /\ references'[s] = references[s] /\ ready'[s] = ready[s]
  /\ future_retrieved'[s] = future_retrieved[s]
  /\ error'[s] = error[s] /\ exception'[s] = exception[s] /\ storage'[s] = storage[s]
  /\ prom'[s] = prom[s] /\ fut'[s] = fut[s] /\ waiting'[s] = waiting[s]
  /\ \A p \in Procs : proc[p].state = s \/ proc'[p].state = s => proc'[p] = proc[p]
  /\ \A t \in Threads : \A i \in 1 .. Len(inside'[t]) : inside'[t][i] = s =>
       \E j \in 1 .. Len(inside[t]) : inside[t][j] = s

\* Only the process p moves.
Moves(p, c) ==
  /\ proc'[p] = c
  /\ \A q \in Procs \ {p} : proc'[q] = proc[q]

\* TypeOK, variable by variable.
LEMMA Typed ==
  ASSUME TypeOK
  PROVE  /\ alive \in [States -> BOOLEAN] /\ ready \in [States -> BOOLEAN]
         /\ future_retrieved \in [States -> BOOLEAN] /\ error \in [States -> BOOLEAN]
         /\ exception \in [States -> BOOLEAN] /\ prom \in [States -> BOOLEAN]
         /\ fut \in [States -> BOOLEAN] /\ hasValue \in [States -> BOOLEAN]
         /\ kind \in [States -> {"promise", "task", "async"}]
         /\ references \in [States -> Nat]
         /\ storage \in [States -> {"raw", "built", "moved"}]
         /\ waiting \in [States -> SUBSET Threads]
         /\ proc \in [Procs -> Call]
         /\ inside \in [Threads -> Seq(States)]
         /\ \A t \in Threads : t \in Procs /\ t \notin States /\ t # None
         /\ \A s \in States : s \in Procs /\ s \notin Threads /\ s # None
  BY FutureAssumption DEF TypeOK, Procs

\* User and Ended are in no call of a state.
LEMMA Calls ==
  /\ User \in Call /\ Ended \in Call
  /\ User.pc = "user" /\ User.state = None /\ User.next = "none"
  /\ Ended.pc = "none" /\ Ended.state = None /\ Ended.next = "none"
  BY DEF User, Ended, At, Call

\* A call is the record of its three parts.
LEMMA AtCall ==
  ASSUME NEW pc \in {"none", "user", "function", "caught", "notify", "release",
                     "wait", "woken", "take", "destroy", "reset"},
         NEW s \in States \cup {None},
         NEW next \in {"none", "user", "release", "get", "wait", "timed"}
  PROVE  /\ At(pc, s, next) \in Call
         /\ At(pc, s, next).pc = pc /\ At(pc, s, next).state = s /\ At(pc, s, next).next = next
  BY DEF At, Call

\* Who counts as a reference: calls of the program's threads, and async's thread.
LEMMA Releasers ==
  ASSUME NEW s \in States, TypeOK, PlacesInv
  PROVE  /\ IsFiniteSet(Releasing(s))
         /\ Cardinality(Releasing(s)) \in Nat
         /\ \A p \in Procs : proc[p].state = s => p \in Threads \/ p = s
<1>1. \A p \in Procs : proc[p].state = s => p \in Threads \/ p = s
  BY Typed, Calls DEF PlacesInv, AsyncCall, Procs
<1>2. Releasing(s) \subseteq Threads \cup {s}
  BY <1>1 DEF Releasing
<1>3. IsFiniteSet(Threads \cup {s})
  BY FutureAssumption, FS_AddElement
<1>4. IsFiniteSet(Releasing(s))
  BY <1>2, <1>3, FS_Subset
<1>. QED
  BY <1>1, <1>4, FS_CardinalityType

\* A state without a part in the step stays as it is.
LEMMA Elsewhere ==
  ASSUME NEW s \in States, TypeOK, TypeOK', PlacesInv', At1(s), Untouched(s)
  PROVE  At1(s)'
<1>1. PromiseInv(s)'
  <2>1. prom'[s] => kind'[s] # "async"
    BY DEF At1, PromiseInv, Untouched
  <2>2. ASSUME NEW t \in Threads, NEW i \in 1 .. Len(inside'[t]), inside'[t][i] = s
        PROVE  prom'[s]
    BY <2>2 DEF At1, PromiseInv, Untouched
  <2>3. ASSUME NEW t \in Threads, proc'[t].state = s, proc'[t].next = "user"
        PROVE  prom'[s]
    BY <2>3, Typed DEF At1, PromiseInv, Untouched
  <2>4. proc'[s].pc \in {"function", "caught"} => kind'[s] = "async" /\ ~ready'[s]
    <3>1. SUFFICES ASSUME proc'[s].pc \in {"function", "caught"}
                   PROVE  kind'[s] = "async" /\ ~ready'[s]
      OBVIOUS
    <3>2. proc'[s].state = s
      BY <3>1, Typed, Calls DEF PlacesInv, AsyncCall
    <3>. QED
      BY <3>1, <3>2, Typed DEF At1, PromiseInv, Untouched
  <2>5. ~ready'[s] => ~error'[s] /\ ~exception'[s]
    BY DEF At1, PromiseInv, Untouched
  <2>. QED
    BY <2>1, <2>2, <2>3, <2>4, <2>5 DEF PromiseInv
<1>2. FutureInv(s)'
  <2>1. Destructs(s)' = Destructs(s)
    BY DEF Destructs, Untouched
  <2>2. fut'[s] => future_retrieved'[s] \/ kind'[s] = "async"
    BY DEF At1, FutureInv, Untouched
  <2>3. ASSUME NEW t \in Threads, proc'[t].state = s
        PROVE  /\ proc'[t].pc \in {"wait", "woken", "take"} => fut'[s]
               /\ proc'[t].pc = "take" => ready'[s]
               /\ proc'[t].pc \in {"destroy", "reset"} =>
                    /\ ~fut'[s] /\ (future_retrieved'[s] \/ kind'[s] = "async")
                    /\ Destructs(s)'
               /\ t \in waiting'[s] <=> proc'[t].pc = "wait"
    BY <2>1, <2>3, Typed DEF At1, FutureInv, Untouched
  <2>4. \A t \in Threads : t \in waiting'[s] => proc'[t].state = s
    BY Typed DEF At1, FutureInv, Untouched
  <2>5. ASSUME NEW t \in Threads, NEW u \in Threads, proc'[t].state = s, proc'[u].state = s,
               proc'[t].pc \in InFuture, proc'[u].pc \in InFuture
        PROVE  t = u
    BY <2>5, Typed DEF At1, FutureInv, Untouched
  <2>. QED
    BY <2>2, <2>3, <2>4, <2>5 DEF FutureInv
<1>3. Releasing(s)' = Releasing(s)
  BY DEF Releasing, Untouched
<1>4. Counted(s)'
  BY <1>3 DEF At1, Counted, Untouched
<1>5. Stored(s)'
  <2>1. Destructs(s)' = Destructs(s)
    BY DEF Destructs, Untouched
  <2>2. \A t \in Threads : (proc'[t].pc = "reset" /\ proc'[t].state = s)
                             <=> (proc[t].pc = "reset" /\ proc[t].state = s)
    BY Typed DEF Untouched
  <2>3. storage'[s] = storage[s] /\ alive'[s] = alive[s]
    BY DEF Untouched
  <2>. QED
    BY <2>1, <2>2, <2>3 DEF At1, Stored
<1>6. Notified(s)'
  BY DEF At1, Notified, Untouched
<1>. QED
  BY <1>1, <1>2, <1>4, <1>5, <1>6 DEF At1

-----------------------------------------------------------------------------
(* Storing an outcome *)

\* What the tasks on a stack do with it: none is added.
Unwinds ==
  /\ inside' \in [Threads -> Seq(States)]
  /\ \A t \in Threads : \A i \in 1 .. Len(inside'[t]) :
       \E j \in 1 .. Len(inside[t]) : inside[t][j] = inside'[t][i]

\* A promise, a task or async's thread stores its outcome.
LEMMA SatisfyKeeps ==
  ASSUME FInv, NEW p \in Procs, NEW s \in States, NEW next,
         \/ /\ p \in Threads /\ next = "user" /\ prom[s]
            /\ proc[p] = User \/ (proc[p].pc = "caught" /\ proc[p].state = s)
         \/ p = s /\ next = "release" /\ proc[s].pc \in {"function", "caught"},
         Unwinds,
         UNCHANGED <<alive, kind, hasValue, references, future_retrieved, prom, fut, waiting>>,
         StoreValue(s) \/ StoreException(s), Satisfy(p, s, next)
  PROVE  FInv'
<1> DEFINE c == At("notify", s, next)
<1>1. TypeOK /\ PlacesInv /\ \A r \in States : At1(r)
  BY DEF FInv
<1>2. c \in Call /\ c.pc = "notify" /\ c.state = s /\ c.next = next
  BY <1>1, AtCall, Calls, Typed DEF FInv
<1>3. /\ ~ready[s]
      /\ ready' = [ready EXCEPT ![s] = TRUE]
      /\ proc' = [proc EXCEPT ![p] = c]
      /\ \/ /\ storage' = IF hasValue[s] THEN [storage EXCEPT ![s] = "built"] ELSE storage
            /\ exception' = exception
         \/ exception' = [exception EXCEPT ![s] = TRUE] /\ storage' = storage
      /\ UNCHANGED <<alive, kind, hasValue, references, future_retrieved, error,
                     prom, fut, waiting>>
  BY <1>1, Typed DEF StoreValue, StoreException, Satisfy, MaySatisfy
<1> HIDE DEF c
<1>4. p = s => proc[s].state = s /\ kind[s] = "async" /\ ~prom[s]
  BY <1>1, Typed, Calls DEF PlacesInv, AsyncCall, At1, PromiseInv
<1>5. alive[s] /\ storage[s] = "raw"
  BY <1>1, <1>3, <1>4, Typed DEF At1, Counted, Stored, Destructs
<1>6. /\ inside' \in [Threads -> Seq(States)]
      /\ \A t \in Threads : \A i \in 1 .. Len(inside'[t]) :
           \E j \in 1 .. Len(inside[t]) : inside[t][j] = inside'[t][i]
  BY DEF Unwinds
<1>7. /\ proc[p].pc # "notify" /\ proc[p].pc \notin InFuture
      /\ p \in Threads => /\ proc[p].pc \notin {"release", "destroy", "reset"}
                           /\ proc[p].next # "release"
      /\ p \in Threads <=> p \notin States
  BY <1>1, Calls, Typed DEF InFuture, PlacesInv, ThreadCall, Procs
<1>8. p \notin States => c.pc \notin {"release", "destroy", "reset"} /\ c.next # "release"
  BY <1>1, <1>2, <1>7, Typed
<1>9. TypeOK'
  <2>1. inside' \in [Threads -> Seq(States)]
    BY <1>1, <1>2, <1>3, <1>6, Typed
  <2>2. ready' \in [States -> BOOLEAN]
    BY <1>1, <1>2, <1>3, Typed
  <2>3. exception' \in [States -> BOOLEAN]
    BY <1>1, <1>2, <1>3, Typed
  <2>4. storage' \in [States -> {"raw", "built", "moved"}]
    BY <1>1, <1>2, <1>3, Typed
  <2>5. proc' \in [Procs -> Call]
    BY <1>1, <1>2, <1>3, Typed
  <2>. QED
    BY <1>1, <1>3, <2>1, <2>2, <2>3, <2>4, <2>5, Typed DEF TypeOK
<1>10. Moves(p, c)
  BY <1>1, <1>2, <1>3, Typed DEF Moves
<1>11. PlacesInv'
  <2>1. IF p \in Threads THEN ThreadCall(c) ELSE AsyncCall(p, c)
    BY <1>1, <1>2, Typed DEF ThreadCall, AsyncCall
  <2>. QED
    BY <1>1, <1>10, <2>1, Typed DEF PlacesInv, Moves
<1>12. ASSUME NEW r \in States \ {s} PROVE Untouched(r)
  <2>1. \A q \in Procs : proc[q].state = r \/ proc'[q].state = r => proc'[q] = proc[q]
    BY <1>1, <1>2, <1>3, <1>4, <1>5, <1>7, <1>8, <1>10, Typed, Calls DEF InFuture, Moves
  <2>2. ASSUME NEW u \in Threads, NEW i \in 1 .. Len(inside'[u]), inside'[u][i] = r
        PROVE  \E j \in 1 .. Len(inside[u]) : inside[u][j] = r
    <3>1. PICK j \in 1 .. Len(inside[u]) : inside[u][j] = inside'[u][i]
      BY <1>6
    <3>. QED
      BY <2>2, <3>1
  <2>. QED
    BY <1>1, <1>3, <2>1, <2>2, Typed DEF Untouched
<1>13. PromiseInv(s)'
  <2>1. prom'[s] => kind'[s] # "async"
    BY <1>1, <1>2, <1>3, <1>4, <1>5, <1>7, <1>8, <1>10, Typed DEF At1, PromiseInv, Moves
  <2>2. ASSUME NEW u \in Threads, NEW i \in 1 .. Len(inside'[u]), inside'[u][i] = s
        PROVE  prom'[s]
    <3>1. PICK j \in 1 .. Len(inside[u]) : inside[u][j] = s
      BY <1>6, <2>2
    <3>. QED
      BY <1>1, <1>3, <3>1 DEF At1, PromiseInv
  <2>3. \A u \in Threads : proc'[u].state = s /\ proc'[u].next = "user" => prom'[s]
    BY <1>1, <1>2, <1>3, <1>4, <1>5, <1>7, <1>8, <1>10, Typed, Calls DEF At1,
       PromiseInv, Moves
  <2>4. proc'[s].pc \in {"function", "caught"} => kind'[s] = "async" /\ ~ready'[s]
    BY <1>1, <1>2, <1>3, <1>4, <1>5, <1>7, <1>8, <1>10, Typed, Calls DEF At1,
       PromiseInv, Moves
  <2>5. ~ready'[s] => ~error'[s] /\ ~exception'[s]
    BY <1>1, <1>2, <1>3, <1>4, <1>5, <1>7, <1>8, <1>10, Typed DEF At1, PromiseInv,
       FutureInv, Destructs, Moves
  <2>. QED
    BY <2>1, <2>2, <2>3, <2>4, <2>5 DEF PromiseInv
<1>14. FutureInv(s)'
  BY <1>1, <1>2, <1>3, <1>4, <1>5, <1>7, <1>8, <1>10, Typed, Calls DEF At1, PromiseInv,
     FutureInv, Moves, InFuture, Destructs
<1>15. Counted(s)'
  <2>1. Releasing(s)' = Releasing(s)
    BY <1>1, <1>2, <1>3, <1>4, <1>5, <1>7, <1>8, <1>10, Typed, Calls DEF Releasing,
       Moves
  <2>. QED
    BY <1>1, <1>2, <1>3, <1>4, <1>5, <1>7, <1>8, <1>10, <2>1, Typed, Calls DEF At1,
       Counted, PromiseInv, FutureInv, Moves
<1>16. Stored(s)'
  BY <1>1, <1>2, <1>3, <1>4, <1>5, <1>7, <1>8, <1>10, Typed, Calls DEF At1, Stored,
     PromiseInv, FutureInv, Counted, Moves, Destructs
<1>17. Notified(s)'
  BY <1>1, <1>2, <1>3, <1>4, <1>5, <1>7, <1>8, <1>10, Typed, Calls DEF At1, Notified,
     Moves
<1>. QED
  BY <1>1, <1>9, <1>11, <1>12, <1>13, <1>14, <1>15, <1>16, <1>17, Elsewhere DEF FInv,
     At1

\* The function has thrown, or the exception leaves operator().
LEMMA LeavesKeeps ==
  ASSUME FInv, NEW p \in Procs, NEW s \in States, NEW c \in Call,
         \/ /\ p \in Threads /\ prom[s] /\ c = At("caught", s, "user")
            /\ proc[p] = User
         \/ /\ p \in Threads /\ c = User
            /\ proc[p].pc = "caught" /\ proc[p].state = s
         \/ p = s /\ c = At("caught", s, "release") /\ proc[s].pc = "function",
         Unwinds, proc' = [proc EXCEPT ![p] = c],
         UNCHANGED <<alive, kind, hasValue, references, ready, future_retrieved, error,
                     exception, storage, prom, fut, waiting>>
  PROVE  FInv'
<1>1. TypeOK /\ PlacesInv /\ \A r \in States : At1(r)
  BY DEF FInv
<1>2. \/ /\ p \in Threads /\ prom[s] /\ c.pc = "caught" /\ c.state = s /\ c.next = "user"
         /\ proc[p] = User
      \/ /\ p \in Threads /\ c.pc = "user" /\ c.state = None /\ c.next = "none"
         /\ proc[p].pc = "caught" /\ proc[p].state = s
      \/ /\ p = s /\ c.pc = "caught" /\ c.state = s /\ c.next = "release"
         /\ proc[s].pc = "function"
  BY AtCall, Calls
<1>3. /\ proc' = [proc EXCEPT ![p] = c]
      /\ UNCHANGED <<alive, kind, hasValue, references, ready, future_retrieved,
                     error, exception, storage, prom, fut, waiting>>
  BY <1>1, Typed DEF PlacesInv
<1>4. p = s => proc[s].state = s /\ kind[s] = "async" /\ ~prom[s]
  BY <1>1, Typed, Calls DEF PlacesInv, AsyncCall, At1, PromiseInv
<1>5. p \in Threads /\ proc[p].pc = "caught" => proc[p].next = "user"
  BY <1>1, Calls DEF PlacesInv, ThreadCall
<1>6. /\ inside' \in [Threads -> Seq(States)]
      /\ \A t \in Threads : \A i \in 1 .. Len(inside'[t]) :
           \E j \in 1 .. Len(inside[t]) : inside[t][j] = inside'[t][i]
  BY DEF Unwinds
<1>7. /\ proc[p].pc # "notify" /\ proc[p].pc \notin InFuture
      /\ p \in Threads => /\ proc[p].pc \notin {"release", "destroy", "reset"}
                           /\ proc[p].next # "release"
      /\ p \in Threads <=> p \notin States
  BY <1>1, Calls, Typed DEF InFuture, PlacesInv, ThreadCall, Procs
<1>8. p \notin States => c.pc \notin {"release", "destroy", "reset"} /\ c.next # "release"
  BY <1>1, <1>2, <1>7, Typed
<1>9. TypeOK'
  <2>1. inside' \in [Threads -> Seq(States)]
    BY <1>1, <1>2, <1>3, <1>6, Typed
  <2>2. proc' \in [Procs -> Call]
    BY <1>1, <1>2, <1>3, Typed
  <2>. QED
    BY <1>1, <1>3, <2>1, <2>2, Typed DEF TypeOK
<1>10. Moves(p, c)
  BY <1>1, <1>2, <1>3, Typed DEF Moves
<1>11. PlacesInv'
  <2>1. IF p \in Threads THEN ThreadCall(c) ELSE AsyncCall(p, c)
    BY <1>1, AtCall, Typed DEF ThreadCall, AsyncCall
  <2>. QED
    BY <1>1, <1>10, <2>1, Typed DEF PlacesInv, Moves
<1>12. ASSUME NEW r \in States \ {s} PROVE Untouched(r)
  <2>1. \A q \in Procs : proc[q].state = r \/ proc'[q].state = r => proc'[q] = proc[q]
    BY <1>1, <1>2, <1>3, <1>4, <1>5, <1>7, <1>8, <1>10, Typed, Calls DEF InFuture, Moves
  <2>2. ASSUME NEW u \in Threads, NEW i \in 1 .. Len(inside'[u]), inside'[u][i] = r
        PROVE  \E j \in 1 .. Len(inside[u]) : inside[u][j] = r
    <3>1. PICK j \in 1 .. Len(inside[u]) : inside[u][j] = inside'[u][i]
      BY <1>6
    <3>. QED
      BY <2>2, <3>1
  <2>. QED
    BY <1>1, <1>3, <2>1, <2>2, Typed DEF Untouched
<1>13. PromiseInv(s)'
  <2>1. prom'[s] => kind'[s] # "async"
    BY <1>1, <1>2, <1>3, <1>4, <1>5, <1>7, <1>8, <1>10, Typed DEF At1, PromiseInv, Moves
  <2>2. ASSUME NEW u \in Threads, NEW i \in 1 .. Len(inside'[u]), inside'[u][i] = s
        PROVE  prom'[s]
    <3>1. PICK j \in 1 .. Len(inside[u]) : inside[u][j] = s
      BY <1>6, <2>2
    <3>. QED
      BY <1>1, <1>3, <3>1 DEF At1, PromiseInv
  <2>3. \A u \in Threads : proc'[u].state = s /\ proc'[u].next = "user" => prom'[s]
    BY <1>1, <1>2, <1>3, <1>4, <1>5, <1>7, <1>8, <1>10, Typed, Calls DEF At1,
       PromiseInv, Moves
  <2>4. proc'[s].pc \in {"function", "caught"} => kind'[s] = "async" /\ ~ready'[s]
    BY <1>1, <1>2, <1>3, <1>4, <1>5, <1>7, <1>8, <1>10, Typed, Calls DEF At1,
       PromiseInv, Moves
  <2>5. ~ready'[s] => ~error'[s] /\ ~exception'[s]
    BY <1>1, <1>2, <1>3, <1>4, <1>5, <1>7, <1>8, <1>10, Typed DEF At1, PromiseInv,
       FutureInv, Destructs, Moves
  <2>. QED
    BY <2>1, <2>2, <2>3, <2>4, <2>5 DEF PromiseInv
<1>14. FutureInv(s)'
  BY <1>1, <1>2, <1>3, <1>4, <1>5, <1>7, <1>8, <1>10, Typed, Calls DEF At1, PromiseInv,
     FutureInv, Moves, InFuture, Destructs
<1>15. Counted(s)'
  <2>1. Releasing(s)' = Releasing(s)
    BY <1>1, <1>2, <1>3, <1>4, <1>5, <1>7, <1>8, <1>10, Typed, Calls DEF Releasing,
       Moves
  <2>. QED
    BY <1>1, <1>2, <1>3, <1>4, <1>5, <1>7, <1>8, <1>10, <2>1, Typed, Calls DEF At1,
       Counted, PromiseInv, FutureInv, Moves
<1>16. Stored(s)'
  BY <1>1, <1>2, <1>3, <1>4, <1>5, <1>7, <1>8, <1>10, Typed, Calls DEF At1, Stored,
     PromiseInv, FutureInv, Counted, Moves, Destructs
<1>17. Notified(s)'
  <2>1. SUFFICES ASSUME waiting'[s] # {}, ready'[s]
                 PROVE  \E q \in Procs : proc'[q].pc = "notify" /\ proc'[q].state = s
    BY DEF Notified
  <2>2. PICK q \in Procs : proc[q].pc = "notify" /\ proc[q].state = s
    BY <1>1, <1>3, <2>1 DEF At1, Notified
  <2>3. proc'[q] = proc[q]
    BY <1>7, <1>10, <2>2 DEF Moves
  <2>. QED
    BY <2>2, <2>3
<1>. QED
  BY <1>1, <1>9, <1>11, <1>12, <1>13, <1>14, <1>15, <1>16, <1>17, Elsewhere DEF FInv,
     At1

\* Most steps start and end no task.
LEMMA Unwound ==
  ASSUME TypeOK, inside' = inside
  PROVE  Unwinds
  BY Typed DEF Unwinds

\* set_value and set_exception.
LEMMA SetKeeps ==
  ASSUME FInv, NEW t \in Threads, NEW s \in States, Set(t, s)
  PROVE  FInv'
<1>1. TypeOK
  BY DEF FInv
<1>2. Unwinds
  BY <1>1, Unwound DEF Set
<1>. QED
  BY <1>1, <1>2, SatisfyKeeps, Typed DEF Set, InUser

\* The state of a thread's innermost task.
LEMMA Innermost ==
  ASSUME FInv, NEW t \in Threads, inside[t] # <<>>
  PROVE  /\ Head(inside[t]) \in States
         /\ prom[Head(inside[t])]
<1> DEFINE l == inside[t]
<1>1. l \in Seq(States)
  BY Typed DEF FInv
<1>2. Head(l) = l[1] /\ Head(l) \in States /\ 1 \in 1 .. Len(l)
  BY <1>1
<1>. QED
  BY <1>2 DEF FInv, At1, PromiseInv

\* The function of a task is over.
LEMMA TaskReturnKeeps ==
  ASSUME FInv, NEW t \in Threads, TaskReturn(t)
  PROVE  FInv'
<1> DEFINE s == Head(inside[t])
           l == inside[t]
<1>1. TypeOK
  BY DEF FInv
<1>2. inside[t] # <<>> /\ proc[t] = User /\ inside' = [inside EXCEPT ![t] = Tail(inside[t])]
  BY DEF TaskReturn, InUser
<1>3. s \in States /\ prom[s]
  BY <1>2, Innermost
<1>4. Unwinds
  <2>1. l \in Seq(States) /\ inside'[t] = Tail(l)
    BY <1>1, <1>2, Typed
  <2>2. Tail(l) \in Seq(States) /\ Len(Tail(l)) = Len(l) - 1
        /\ \A i \in 1 .. Len(Tail(l)) : Tail(l)[i] = l[i + 1] /\ i + 1 \in 1 .. Len(l)
    BY <1>2, <2>1
  <2>3. inside' \in [Threads -> Seq(States)]
    BY <1>1, <1>2, <2>2, Typed
  <2>4. ASSUME NEW u \in Threads, NEW i \in 1 .. Len(inside'[u])
        PROVE  \E j \in 1 .. Len(inside[u]) : inside[u][j] = inside'[u][i]
    <3>1. CASE u = t
      BY <2>1, <2>2, <3>1
    <3>2. CASE u # t
      BY <1>1, <1>2, <3>2, Typed
    <3>. QED
      BY <3>1, <3>2
  <2>. QED
    BY <2>3, <2>4 DEF Unwinds
<1>5. UNCHANGED <<alive, kind, hasValue, references, future_retrieved, prom, fut, waiting>>
      /\ FunctionEnds(t, s, "user")
  BY DEF TaskReturn
<1> HIDE DEF s
<1>6. t \in Procs
  BY <1>1, Typed
<1>7. CASE StoreValue(s) /\ Satisfy(t, s, "user")
  BY <1>2, <1>3, <1>4, <1>5, <1>6, <1>7, SatisfyKeeps
<1>8. CASE /\ proc' = [proc EXCEPT ![t] = At("caught", s, "user")]
           /\ UNCHANGED <<error, exception, storage, ready>>
  <2> DEFINE c == At("caught", s, "user")
  <2>1. c \in Call
    BY <1>3, AtCall
  <2>2. /\ proc' = [proc EXCEPT ![t] = c]
        /\ t \in Threads /\ prom[s] /\ c = At("caught", s, "user") /\ proc[t] = User
    BY <1>2, <1>3, <1>8
  <2> HIDE DEF c
  <2>. QED
    BY <1>3, <1>4, <1>5, <1>6, <1>8, <2>1, <2>2, LeavesKeeps
<1>. QED
  BY <1>5, <1>7, <1>8 DEF FunctionEnds

\* The function of async is over.
LEMMA AsyncReturnKeeps ==
  ASSUME FInv, NEW s \in States, AsyncReturn(s)
  PROVE  FInv'
<1>1. TypeOK
  BY DEF FInv
<1>2. Unwinds
  BY <1>1, Unwound DEF AsyncReturn
<1>3. UNCHANGED <<alive, kind, hasValue, references, future_retrieved, prom, fut, waiting>>
      /\ FunctionEnds(s, s, "release") /\ proc[s].pc = "function"
  BY DEF AsyncReturn
<1>4. s \in Procs
  BY <1>1, Typed
<1>5. CASE StoreValue(s) /\ Satisfy(s, s, "release")
  BY <1>2, <1>3, <1>4, <1>5, SatisfyKeeps
<1>6. CASE /\ proc' = [proc EXCEPT ![s] = At("caught", s, "release")]
           /\ UNCHANGED <<error, exception, storage, ready>>
  <2> DEFINE c == At("caught", s, "release")
  <2>1. c \in Call
    BY AtCall
  <2>2. proc' = [proc EXCEPT ![s] = c] /\ c = At("caught", s, "release")
    BY <1>6
  <2> HIDE DEF c
  <2>. QED
    BY <1>2, <1>3, <1>4, <1>6, <2>1, <2>2, LeavesKeeps
<1>. QED
  BY <1>3, <1>5, <1>6 DEF FunctionEnds

\* The exception of the function is stored, or leaves operator().
LEMMA CaughtKeeps ==
  ASSUME FInv, NEW p \in Procs, Caught(p)
  PROVE  FInv'
<1> DEFINE s == proc[p].state
<1>1. TypeOK /\ PlacesInv /\ proc[p].pc = "caught"
  BY DEF FInv, Caught
<1>2. Unwinds
  BY <1>1, Unwound DEF Caught
<1>3. s \in States
      /\ \/ p \in Threads /\ proc[p].next = "user" /\ prom[s]
         \/ p = s /\ proc[p].next = "release"
  <2>1. CASE p \in Threads
    <3>1. s \in States /\ proc[p].next = "user"
      BY <1>1, <2>1, Calls DEF PlacesInv, ThreadCall
    <3>. QED
      BY <2>1, <3>1 DEF FInv, At1, PromiseInv
  <2>2. CASE p \in States
    BY <1>1, <2>2, Calls DEF PlacesInv, AsyncCall
  <2>. QED
    BY <2>1, <2>2 DEF Procs
<1>4. UNCHANGED <<alive, kind, hasValue, references, future_retrieved, prom, fut, waiting>>
  BY DEF Caught
<1>5. CASE StoreException(s) /\ Satisfy(p, s, proc[p].next)
  BY <1>1, <1>2, <1>3, <1>4, <1>5, SatisfyKeeps
<1>6. CASE /\ ~MaySatisfy(s) /\ proc' = [proc EXCEPT ![p] = Back(p)]
           /\ UNCHANGED <<error, exception, storage, ready>>
  <2>1. p \in Threads
    BY <1>1, <1>3, <1>6 DEF FInv, At1, PromiseInv, MaySatisfy
  <2>. QED
    BY <1>1, <1>2, <1>3, <1>4, <1>6, <2>1, LeavesKeeps, Calls DEF Back
<1>. QED
  BY <1>5, <1>6 DEF Caught

\* The function of a task starts.
LEMMA TaskCallKeeps ==
  ASSUME FInv, NEW t \in Threads, NEW s \in States, TaskCall(t, s)
  PROVE  FInv'
<1>1. TypeOK /\ PlacesInv /\ \A r \in States : At1(r)
  BY DEF FInv
<1>2. /\ prom[s] /\ kind[s] = "task" /\ ~ready[s]
      /\ inside' = [inside EXCEPT ![t] = <<s>> \o @]
      /\ UNCHANGED <<alive, kind, hasValue, references, ready, future_retrieved,
                     error, exception, storage, prom, fut, waiting, proc>>
  BY <1>1, Typed DEF TaskCall
<1>3. /\ inside'[t] \in Seq(States)
      /\ \A i \in 1 .. Len(inside'[t]) :
           inside'[t][i] = s \/ \E j \in 1 .. Len(inside[t]) : inside[t][j] = inside'[t][i]
  <2> DEFINE l == inside[t]
             m == <<s>> \o l
  <2>1. l \in Seq(States) /\ inside'[t] = m
    BY <1>1, <1>2, Typed
  <2>2. m \in Seq(States) /\ Len(m) = Len(l) + 1 /\ m[1] = s
        /\ \A i \in 2 .. Len(m) : m[i] = l[i - 1] /\ i - 1 \in 1 .. Len(l)
    BY <2>1
  <2>3. \A i \in 1 .. Len(m) : i = 1 \/ i \in 2 .. Len(m)
    BY <2>1, <2>2
  <2>. QED
    BY <2>1, <2>2, <2>3
<1>4. \A u \in Threads \ {t} : inside'[u] = inside[u]
  BY <1>1, <1>2, Typed
<1>5. \A u \in Threads : \A i \in 1 .. Len(inside'[u]) :
        inside'[u][i] = s \/ \E j \in 1 .. Len(inside[u]) : inside[u][j] = inside'[u][i]
  BY <1>3, <1>4
<1>6. TypeOK'
  <2>1. inside' \in [Threads -> Seq(States)]
    BY <1>1, <1>2, <1>3, <1>4, Typed
  <2>. QED
    BY <1>1, <1>2, <2>1, Typed DEF TypeOK
<1>7. \A q \in Procs : proc'[q] = proc[q]
  BY <1>2
<1>8. PlacesInv'
  BY <1>1, <1>2 DEF PlacesInv
<1>9. ASSUME NEW r \in States \ {s} PROVE Untouched(r)
  <2>1. \A q \in Procs : proc[q].state = r \/ proc'[q].state = r => proc'[q] = proc[q]
    BY <1>1, <1>2, <1>7, Typed, Calls DEF InFuture
  <2>2. ASSUME NEW u \in Threads, NEW i \in 1 .. Len(inside'[u]), inside'[u][i] = r
        PROVE  \E j \in 1 .. Len(inside[u]) : inside[u][j] = r
    BY <1>5, <2>2
  <2>. QED
    BY <1>1, <1>2, <2>1, <2>2, Typed DEF Untouched
<1>10. PromiseInv(s)'
  <2>1. prom'[s] => kind'[s] # "async"
    BY <1>1, <1>2, <1>7, Typed DEF At1, PromiseInv
  <2>2. ASSUME NEW u \in Threads, NEW i \in 1 .. Len(inside'[u]), inside'[u][i] = s
        PROVE  prom'[s]
    BY <1>2
  <2>3. \A u \in Threads : proc'[u].state = s /\ proc'[u].next = "user" => prom'[s]
    BY <1>1, <1>2, <1>7, Typed, Calls DEF At1, PromiseInv
  <2>4. proc'[s].pc \in {"function", "caught"} => kind'[s] = "async" /\ ~ready'[s]
    BY <1>1, <1>2, <1>7, Typed, Calls DEF At1, PromiseInv
  <2>5. ~ready'[s] => ~error'[s] /\ ~exception'[s]
    BY <1>1, <1>2, <1>7, Typed DEF At1, PromiseInv, FutureInv, Destructs
  <2>. QED
    BY <2>1, <2>2, <2>3, <2>4, <2>5 DEF PromiseInv
<1>11. FutureInv(s)'
  BY <1>1, <1>2, <1>7, Typed, Calls DEF At1, PromiseInv, FutureInv, InFuture, Destructs
<1>12. Counted(s)'
  <2>1. Releasing(s)' = Releasing(s)
    BY <1>1, <1>2, <1>7, Typed, Calls DEF Releasing
  <2>. QED
    BY <1>1, <1>2, <1>7, <2>1, Typed, Calls DEF At1, Counted, PromiseInv, FutureInv
<1>13. Stored(s)'
  BY <1>1, <1>2, <1>7, Typed, Calls DEF At1, Stored, PromiseInv, FutureInv, Counted,
     Destructs
<1>14. Notified(s)'
  BY <1>1, <1>2, <1>7, Typed, Calls DEF At1, Notified
<1>. QED
  BY <1>1, <1>6, <1>8, <1>9, <1>10, <1>11, <1>12, <1>13, <1>14, Elsewhere DEF FInv, At1

-----------------------------------------------------------------------------
(* Making states and futures *)

\* A promise or a packaged_task is constructed.
LEMMA PromiseMade ==
  ASSUME FInv, NEW t \in Threads, NEW s \in States, NEW k \in {"promise", "task"},
         NEW v \in BOOLEAN,
         InUser(t), New(s, k, v, 1), prom' = [prom EXCEPT ![s] = TRUE], UNCHANGED <<fut, proc>>
  PROVE  FInv'
<1>1. TypeOK /\ PlacesInv /\ \A r \in States : At1(r)
  BY DEF FInv
<1>2. /\ ~alive[s]
      /\ alive' = [alive EXCEPT ![s] = TRUE]
      /\ kind' = [kind EXCEPT ![s] = k]
      /\ hasValue' = [hasValue EXCEPT ![s] = v]
      /\ references' = [references EXCEPT ![s] = 1]
      /\ ready' = [ready EXCEPT ![s] = FALSE]
      /\ future_retrieved' = [future_retrieved EXCEPT ![s] = FALSE]
      /\ error' = [error EXCEPT ![s] = FALSE]
      /\ exception' = [exception EXCEPT ![s] = FALSE]
      /\ storage' = [storage EXCEPT ![s] = "raw"]
      /\ prom' = [prom EXCEPT ![s] = TRUE]
      /\ UNCHANGED <<fut, waiting, proc, inside>>
  BY <1>1, Typed DEF New
<1>3. /\ \A p \in Procs : proc[p].state # s
      /\ ~prom[s] /\ ~fut[s] /\ Releasing(s) = {} /\ waiting[s] = {}
  <2>1. /\ \A p \in Procs : proc[p].state # s
        /\ ~prom[s] /\ ~fut[s]
    BY <1>1, <1>2, Typed DEF At1, Counted
  <2>2. Releasing(s) = {}
    BY <2>1 DEF Releasing
  <2>3. \A u \in Threads : u \notin waiting[s]
    BY <1>1, <2>1, Typed DEF At1, FutureInv
  <2>4. waiting[s] = {}
    BY <1>1, <2>3, Typed
  <2>. QED
    BY <2>1, <2>2, <2>4
<1>4. \A u \in Threads : \A i \in 1 .. Len(inside[u]) : inside[u][i] # s
  BY <1>1, <1>3 DEF At1, PromiseInv
<1>5. TypeOK'
  <2>1. alive' \in [States -> BOOLEAN]
    BY <1>1, <1>2, Typed
  <2>2. kind' \in [States -> {"promise", "task", "async"}]
    BY <1>1, <1>2, Typed
  <2>3. hasValue' \in [States -> BOOLEAN]
    BY <1>1, <1>2, Typed
  <2>4. references' \in [States -> Nat]
    BY <1>1, <1>2, Typed
  <2>5. ready' \in [States -> BOOLEAN]
    BY <1>1, <1>2, Typed
  <2>6. future_retrieved' \in [States -> BOOLEAN]
    BY <1>1, <1>2, Typed
  <2>7. error' \in [States -> BOOLEAN]
    BY <1>1, <1>2, Typed
  <2>8. exception' \in [States -> BOOLEAN]
    BY <1>1, <1>2, Typed
  <2>9. storage' \in [States -> {"raw", "built", "moved"}]
    BY <1>1, <1>2, Typed
  <2>10. prom' \in [States -> BOOLEAN]
    BY <1>1, <1>2, Typed
  <2>. QED
    BY <1>1, <1>2, <2>1, <2>2, <2>3, <2>4, <2>5, <2>6, <2>7, <2>8, <2>9, <2>10, Typed
       DEF TypeOK
<1>6. \A q \in Procs : proc'[q] = proc[q]
  BY <1>2
<1>7. PlacesInv'
  BY <1>1, <1>2 DEF PlacesInv
<1>8. ASSUME NEW r \in States \ {s} PROVE Untouched(r)
  <2>1. \A q \in Procs : proc[q].state = r \/ proc'[q].state = r => proc'[q] = proc[q]
    BY <1>1, <1>2, <1>3, <1>4, <1>6, Typed, Calls DEF InFuture
  <2>2. ASSUME NEW u \in Threads, NEW i \in 1 .. Len(inside'[u]), inside'[u][i] = r
        PROVE  \E j \in 1 .. Len(inside[u]) : inside[u][j] = r
    BY <1>2, <2>2, Typed
  <2>. QED
    BY <1>1, <1>2, <2>1, <2>2, Typed DEF Untouched
<1>9. PromiseInv(s)'
  <2>1. prom'[s] => kind'[s] # "async"
    BY <1>1, <1>2, <1>3, <1>4, <1>6, Typed DEF At1, PromiseInv
  <2>2. ASSUME NEW u \in Threads, NEW i \in 1 .. Len(inside'[u]), inside'[u][i] = s
        PROVE  prom'[s]
    BY <1>1, <1>2, <2>2 DEF At1, PromiseInv
  <2>3. \A u \in Threads : proc'[u].state = s /\ proc'[u].next = "user" => prom'[s]
    BY <1>1, <1>2, Typed
  <2>4. proc'[s].pc \in {"function", "caught"} => kind'[s] = "async" /\ ~ready'[s]
    <3>1. proc[s].pc \in {"function", "caught"} => proc[s].state = s
      BY <1>1, Calls DEF PlacesInv, AsyncCall
    <3>. QED
      BY <1>1, <1>3, <1>6, <3>1, Typed
  <2>5. ~ready'[s] => ~error'[s] /\ ~exception'[s]
    BY <1>1, <1>2, <1>3, <1>4, <1>6, Typed DEF At1, PromiseInv, FutureInv, Destructs
  <2>. QED
    BY <2>1, <2>2, <2>3, <2>4, <2>5 DEF PromiseInv
<1>10. FutureInv(s)'
  BY <1>1, <1>2, <1>3, <1>4, <1>6, Typed, Calls DEF At1, PromiseInv, FutureInv,
     InFuture, Destructs
<1>11. Counted(s)'
  <2>1. Releasing(s)' = Releasing(s)
    BY <1>1, <1>2, <1>3, <1>4, <1>6, Typed, Calls DEF Releasing
  <2>2. Cardinality(Releasing(s)') = 0
    BY <1>3, <2>1, FS_EmptySet
  <2>. QED
    BY <1>1, <1>2, <1>3, <2>2, Typed DEF Counted
<1>12. Stored(s)'
  BY <1>1, <1>2, <1>3, <1>4, <1>6, Typed, Calls DEF At1, Stored, PromiseInv, FutureInv,
     Counted, Destructs
<1>13. Notified(s)'
  BY <1>1, <1>2, <1>3, <1>4, <1>6, Typed, Calls DEF At1, Notified
<1>. QED
  BY <1>1, <1>5, <1>7, <1>8, <1>9, <1>10, <1>11, <1>12, <1>13, Elsewhere DEF FInv, At1

\* The same for the action.
LEMMA NewPromiseKeeps ==
  ASSUME FInv, NEW t \in Threads, NEW s \in States, NewPromise(t, s)
  PROVE  FInv'
<1>1. PICK k \in {"promise", "task"}, v \in BOOLEAN : New(s, k, v, 1)
  BY DEF NewPromise
<1>. QED
  BY <1>1, PromiseMade DEF NewPromise

\* async has started its thread.
LEMMA AsyncStarted ==
  ASSUME FInv, NEW t \in Threads, NEW s \in States, NEW v \in BOOLEAN,
         InUser(t), proc[s] = Ended, New(s, "async", v, AsyncRefs),
         fut' = [fut EXCEPT ![s] = TRUE],
         proc' = [proc EXCEPT ![s] = At("function", s, "none")], UNCHANGED prom
  PROVE  FInv'
<1> DEFINE c == At("function", s, "none")
<1>1. TypeOK /\ PlacesInv /\ \A r \in States : At1(r)
  BY DEF FInv
<1>2. c \in Call /\ c.pc = "function" /\ c.state = s /\ c.next = "none"
  BY <1>1, AtCall, Calls, Typed DEF FInv
<1>3. /\ ~alive[s] /\ proc[s] = Ended
      /\ alive' = [alive EXCEPT ![s] = TRUE]
      /\ kind' = [kind EXCEPT ![s] = "async"]
      /\ hasValue' = [hasValue EXCEPT ![s] = v]
      /\ references' = [references EXCEPT ![s] = 2]
      /\ ready' = [ready EXCEPT ![s] = FALSE]
      /\ future_retrieved' = [future_retrieved EXCEPT ![s] = FALSE]
      /\ error' = [error EXCEPT ![s] = FALSE]
      /\ exception' = [exception EXCEPT ![s] = FALSE]
      /\ storage' = [storage EXCEPT ![s] = "raw"]
      /\ fut' = [fut EXCEPT ![s] = TRUE]
      /\ proc' = [proc EXCEPT ![s] = c]
      /\ UNCHANGED <<prom, waiting, inside>>
  BY <1>1, Typed DEF New, AsyncRefs
<1> HIDE DEF c
<1>4. /\ \A p \in Procs : proc[p].state # s
      /\ ~prom[s] /\ ~fut[s] /\ Releasing(s) = {} /\ waiting[s] = {}
  <2>1. /\ \A p \in Procs : proc[p].state # s
        /\ ~prom[s] /\ ~fut[s]
    BY <1>1, <1>3, Typed DEF At1, Counted
  <2>2. Releasing(s) = {}
    BY <2>1 DEF Releasing
  <2>3. \A u \in Threads : u \notin waiting[s]
    BY <1>1, <2>1, Typed DEF At1, FutureInv
  <2>4. waiting[s] = {}
    BY <1>1, <2>3, Typed
  <2>. QED
    BY <2>1, <2>2, <2>4
<1>5. \A u \in Threads : \A i \in 1 .. Len(inside[u]) : inside[u][i] # s
  BY <1>1, <1>4 DEF At1, PromiseInv
<1>6. TypeOK'
  <2>1. alive' \in [States -> BOOLEAN]
    BY <1>1, <1>2, <1>3, Typed
  <2>2. kind' \in [States -> {"promise", "task", "async"}]
    BY <1>1, <1>2, <1>3, Typed
  <2>3. hasValue' \in [States -> BOOLEAN]
    BY <1>1, <1>2, <1>3, Typed
  <2>4. references' \in [States -> Nat]
    BY <1>1, <1>2, <1>3, Typed
  <2>5. ready' \in [States -> BOOLEAN]
    BY <1>1, <1>2, <1>3, Typed
  <2>6. future_retrieved' \in [States -> BOOLEAN]
    BY <1>1, <1>2, <1>3, Typed
  <2>7. error' \in [States -> BOOLEAN]
    BY <1>1, <1>2, <1>3, Typed
  <2>8. exception' \in [States -> BOOLEAN]
    BY <1>1, <1>2, <1>3, Typed
  <2>9. storage' \in [States -> {"raw", "built", "moved"}]
    BY <1>1, <1>2, <1>3, Typed
  <2>10. fut' \in [States -> BOOLEAN]
    BY <1>1, <1>2, <1>3, Typed
  <2>11. proc' \in [Procs -> Call]
    BY <1>1, <1>2, <1>3, Typed
  <2>. QED
    BY <1>1, <1>3, <2>1, <2>2, <2>3, <2>4, <2>5, <2>6, <2>7, <2>8, <2>9, <2>10, <2>11,
       Typed DEF TypeOK
<1>7. Moves(s, c)
  BY <1>1, <1>2, <1>3, Typed DEF Moves
<1>8. PlacesInv'
  <2>1. AsyncCall(s, c)
    BY <1>1, <1>2, Calls DEF ThreadCall, AsyncCall
  <2>. QED
    BY <1>1, <1>7, <2>1, Typed DEF PlacesInv, Moves
<1>9. ASSUME NEW r \in States \ {s} PROVE Untouched(r)
  <2>1. \A q \in Procs : proc[q].state = r \/ proc'[q].state = r => proc'[q] = proc[q]
    BY <1>1, <1>2, <1>3, <1>4, <1>5, <1>7, Typed, Calls DEF InFuture, Moves
  <2>2. ASSUME NEW u \in Threads, NEW i \in 1 .. Len(inside'[u]), inside'[u][i] = r
        PROVE  \E j \in 1 .. Len(inside[u]) : inside[u][j] = r
    BY <1>3, <2>2, Typed
  <2>. QED
    BY <1>1, <1>3, <2>1, <2>2, Typed DEF Untouched
<1>10. PromiseInv(s)'
  <2>1. prom'[s] => kind'[s] # "async"
    BY <1>1, <1>2, <1>3, <1>4, <1>5, <1>7, Typed DEF At1, PromiseInv, Moves
  <2>2. ASSUME NEW u \in Threads, NEW i \in 1 .. Len(inside'[u]), inside'[u][i] = s
        PROVE  prom'[s]
    BY <1>1, <1>3, <2>2 DEF At1, PromiseInv
  <2>3. \A u \in Threads : proc'[u].state = s /\ proc'[u].next = "user" => prom'[s]
    BY <1>1, <1>2, <1>3, <1>4, <1>5, <1>7, Typed, Calls DEF At1, PromiseInv, Moves
  <2>4. proc'[s].pc \in {"function", "caught"} => kind'[s] = "async" /\ ~ready'[s]
    BY <1>1, <1>2, <1>3, <1>4, <1>5, <1>7, Typed, Calls DEF At1, PromiseInv, Moves
  <2>5. ~ready'[s] => ~error'[s] /\ ~exception'[s]
    BY <1>1, <1>2, <1>3, <1>4, <1>5, <1>7, Typed DEF At1, PromiseInv, FutureInv,
       Destructs, Moves
  <2>. QED
    BY <2>1, <2>2, <2>3, <2>4, <2>5 DEF PromiseInv
<1>11. FutureInv(s)'
  BY <1>1, <1>2, <1>3, <1>4, <1>5, <1>7, Typed, Calls DEF At1, PromiseInv, FutureInv,
     Moves, InFuture, Destructs
<1>12. Counted(s)'
  <2>1. \A p \in Procs : p # s => proc'[p].state # s
    BY <1>4, <1>7 DEF Moves
  <2>2. Releasing(s)' = {s}
    BY <1>1, <1>2, <1>7, <2>1, Typed DEF Releasing, Moves
  <2>3. Cardinality(Releasing(s)') = 1
    BY <2>2, FS_Singleton
  <2>4. fut'[s] /\ ~prom'[s] /\ alive'[s] /\ references'[s] = 2
    BY <1>1, <1>3, <1>4, Typed
  <2>. QED
    BY <2>3, <2>4 DEF Counted
<1>13. Stored(s)'
  BY <1>1, <1>2, <1>3, <1>4, <1>5, <1>7, Typed, Calls DEF At1, Stored, PromiseInv,
     FutureInv, Counted, Moves, Destructs
<1>14. Notified(s)'
  BY <1>1, <1>2, <1>3, <1>4, <1>5, <1>7, Typed, Calls DEF At1, Notified, Moves
<1>. QED
  BY <1>1, <1>6, <1>8, <1>9, <1>10, <1>11, <1>12, <1>13, <1>14, Elsewhere DEF FInv, At1

\* The same for the action.
LEMMA AsyncKeeps ==
  ASSUME FInv, NEW t \in Threads, NEW s \in States, Async(t, s)
  PROVE  FInv'
<1>1. PICK v \in BOOLEAN : New(s, "async", v, AsyncRefs)
  BY DEF Async
<1>. QED
  BY <1>1, AsyncStarted DEF Async

\* get_future takes a reference.
LEMMA GetFutureKeeps ==
  ASSUME FInv, NEW t \in Threads, NEW s \in States, GetFuture(t, s)
  PROVE  FInv'
<1>1. TypeOK /\ PlacesInv /\ \A r \in States : At1(r)
  BY DEF FInv
<1>2. /\ prom[s] /\ ~future_retrieved[s]
      /\ future_retrieved' = [future_retrieved EXCEPT ![s] = TRUE]
      /\ references' = [references EXCEPT ![s] = @ + 1]
      /\ fut' = [fut EXCEPT ![s] = TRUE]
      /\ UNCHANGED <<alive, kind, hasValue, ready, error, exception, storage,
                     prom, waiting, proc, inside>>
  BY <1>1, Typed DEF GetFuture
<1>3. ~fut[s] /\ kind[s] # "async"
  BY <1>1, <1>2 DEF At1, PromiseInv, FutureInv
<1>4. TypeOK'
  <2>1. future_retrieved' \in [States -> BOOLEAN]
    BY <1>1, <1>2, Typed
  <2>2. references' \in [States -> Nat]
    BY <1>1, <1>2, Typed
  <2>3. fut' \in [States -> BOOLEAN]
    BY <1>1, <1>2, Typed
  <2>. QED
    BY <1>1, <1>2, <2>1, <2>2, <2>3, Typed DEF TypeOK
<1>5. \A q \in Procs : proc'[q] = proc[q]
  BY <1>2
<1>6. PlacesInv'
  BY <1>1, <1>2 DEF PlacesInv
<1>7. ASSUME NEW r \in States \ {s} PROVE Untouched(r)
  <2>1. \A q \in Procs : proc[q].state = r \/ proc'[q].state = r => proc'[q] = proc[q]
    BY <1>1, <1>2, <1>3, <1>5, Typed, Calls DEF InFuture
  <2>2. ASSUME NEW u \in Threads, NEW i \in 1 .. Len(inside'[u]), inside'[u][i] = r
        PROVE  \E j \in 1 .. Len(inside[u]) : inside[u][j] = r
    BY <1>2, <2>2, Typed
  <2>. QED
    BY <1>1, <1>2, <2>1, <2>2, Typed DEF Untouched
<1>8. PromiseInv(s)'
  <2>1. prom'[s] => kind'[s] # "async"
    BY <1>1, <1>2, <1>3, <1>5, Typed DEF At1, PromiseInv
  <2>2. ASSUME NEW u \in Threads, NEW i \in 1 .. Len(inside'[u]), inside'[u][i] = s
        PROVE  prom'[s]
    BY <1>1, <1>2, <2>2 DEF At1, PromiseInv
  <2>3. \A u \in Threads : proc'[u].state = s /\ proc'[u].next = "user" => prom'[s]
    BY <1>1, <1>2, <1>3, <1>5, Typed, Calls DEF At1, PromiseInv
  <2>4. proc'[s].pc \in {"function", "caught"} => kind'[s] = "async" /\ ~ready'[s]
    BY <1>1, <1>2, <1>3, <1>5, Typed, Calls DEF At1, PromiseInv
  <2>5. ~ready'[s] => ~error'[s] /\ ~exception'[s]
    BY <1>1, <1>2, <1>3, <1>5, Typed DEF At1, PromiseInv, FutureInv, Destructs
  <2>. QED
    BY <2>1, <2>2, <2>3, <2>4, <2>5 DEF PromiseInv
<1>9. FutureInv(s)'
  BY <1>1, <1>2, <1>3, <1>5, Typed, Calls DEF At1, PromiseInv, FutureInv, InFuture,
     Destructs
<1>10. Counted(s)'
  <2>1. Releasing(s)' = Releasing(s)
    BY <1>1, <1>2, <1>3, <1>5, Typed, Calls DEF Releasing
  <2>. QED
    BY <1>1, <1>2, <1>3, <1>5, <2>1, Typed, Calls, Releasers DEF At1, Counted,
       PromiseInv, FutureInv
<1>11. Stored(s)'
  BY <1>1, <1>2, <1>3, <1>5, Typed, Calls DEF At1, Stored, PromiseInv, FutureInv,
     Counted, Destructs
<1>12. Notified(s)'
  BY <1>1, <1>2, <1>3, <1>5, Typed, Calls DEF At1, Notified
<1>. QED
  BY <1>1, <1>4, <1>6, <1>7, <1>8, <1>9, <1>10, <1>11, <1>12, Elsewhere DEF FInv, At1

-----------------------------------------------------------------------------
(* Giving a handle back *)

\* ~promise gives its reference back, after it broke a promise that is not kept.
LEMMA DropPromiseKeeps ==
  ASSUME FInv, NEW t \in Threads, NEW s \in States, DropPromise(t, s)
  PROVE  FInv'
<1> DEFINE c == IF ready[s] THEN At("release", s, "none") ELSE AfterAbandon(s)
<1>1. TypeOK /\ PlacesInv /\ \A r \in States : At1(r)
  BY DEF FInv
<1>2. /\ c \in Call /\ c.state = s
      /\ ready[s] => c.pc = "release" /\ c.next = "none"
      /\ ~ready[s] => c.pc = "notify" /\ c.next = "release"
  BY AtCall DEF AfterAbandon
<1>3. /\ proc[t] = User /\ prom[s]
      /\ prom' = [prom EXCEPT ![s] = FALSE]
      /\ proc' = [proc EXCEPT ![t] = c]
      /\ \/ ready[s] /\ c.pc = "release" /\ c.next = "none" /\ error' = error /\ ready' = ready
         \/ /\ ~ready[s] /\ c.pc = "notify" /\ c.next = "release"
            /\ error' = [error EXCEPT ![s] = TRUE] /\ ready' = [ready EXCEPT ![s] = TRUE]
      /\ c \in Call /\ c.state = s
      /\ UNCHANGED <<alive, kind, hasValue, references, future_retrieved,
                     exception, storage, fut, waiting, inside>>
  BY <1>1, <1>2, Typed DEF DropPromise, InUser
<1> HIDE DEF c
<1>4. alive[s] /\ kind[s] # "async"
  BY <1>1, <1>3 DEF At1, Counted, PromiseInv
<1>5. /\ \A u \in Threads : \A i \in 1 .. Len(inside[u]) : inside[u][i] # s
      /\ \A u \in Threads : proc[u].state = s => proc[u].next # "user"
  <2>1. PromiseIdle(s)
    BY DEF DropPromise
  <2>2. ASSUME NEW u \in Threads, proc[u].state = s, proc[u].next = "user"
        PROVE  FALSE
    BY <1>1, <2>1, <2>2, Calls, Typed DEF PlacesInv, ThreadCall, PromiseIdle
  <2>. QED
    BY <2>1, <2>2 DEF PromiseIdle
<1>6. TypeOK'
  <2>1. ready' \in [States -> BOOLEAN]
    BY <1>1, <1>2, <1>3, Typed
  <2>2. error' \in [States -> BOOLEAN]
    BY <1>1, <1>2, <1>3, Typed
  <2>3. prom' \in [States -> BOOLEAN]
    BY <1>1, <1>2, <1>3, Typed
  <2>4. proc' \in [Procs -> Call]
    BY <1>1, <1>2, <1>3, Typed
  <2>. QED
    BY <1>1, <1>3, <2>1, <2>2, <2>3, <2>4, Typed DEF TypeOK
<1>7. Moves(t, c)
  BY <1>1, <1>2, <1>3, Typed DEF Moves
<1>8. PlacesInv'
  <2>1. ThreadCall(c)
    BY <1>1, <1>2, Calls DEF ThreadCall, AsyncCall
  <2>. QED
    BY <1>1, <1>7, <2>1, Typed DEF PlacesInv, Moves
<1>9. ASSUME NEW r \in States \ {s} PROVE Untouched(r)
  <2>1. \A q \in Procs : proc[q].state = r \/ proc'[q].state = r => proc'[q] = proc[q]
    BY <1>1, <1>2, <1>3, <1>4, <1>5, <1>7, Typed, Calls DEF InFuture, Moves
  <2>2. ASSUME NEW u \in Threads, NEW i \in 1 .. Len(inside'[u]), inside'[u][i] = r
        PROVE  \E j \in 1 .. Len(inside[u]) : inside[u][j] = r
    BY <1>3, <2>2, Typed
  <2>. QED
    BY <1>1, <1>3, <2>1, <2>2, Typed DEF Untouched
<1>10. PromiseInv(s)'
  <2>1. prom'[s] => kind'[s] # "async"
    BY <1>1, <1>2, <1>3, <1>4, <1>5, <1>7, Typed DEF At1, PromiseInv, Moves
  <2>2. ASSUME NEW u \in Threads, NEW i \in 1 .. Len(inside'[u]), inside'[u][i] = s
        PROVE  prom'[s]
    BY <1>3, <1>5, <2>2
  <2>3. \A u \in Threads : proc'[u].state = s /\ proc'[u].next = "user" => prom'[s]
    BY <1>1, <1>2, <1>3, <1>4, <1>5, <1>7, Typed, Calls DEF At1, PromiseInv, Moves
  <2>4. proc'[s].pc \in {"function", "caught"} => kind'[s] = "async" /\ ~ready'[s]
    BY <1>1, <1>2, <1>3, <1>4, <1>5, <1>7, Typed, Calls DEF At1, PromiseInv, Moves
  <2>5. ~ready'[s] => ~error'[s] /\ ~exception'[s]
    BY <1>1, <1>2, <1>3, <1>4, <1>5, <1>7, Typed DEF At1, PromiseInv, FutureInv,
       Destructs, Moves
  <2>. QED
    BY <2>1, <2>2, <2>3, <2>4, <2>5 DEF PromiseInv
<1>11. FutureInv(s)'
  BY <1>1, <1>2, <1>3, <1>4, <1>5, <1>7, Typed, Calls DEF At1, PromiseInv, FutureInv,
     Moves, InFuture, Destructs
<1>12. Counted(s)'
  <2>1. t \notin Releasing(s) /\ Releasing(s)' = Releasing(s) \cup {t}
    BY <1>1, <1>2, <1>3, <1>4, <1>5, <1>7, Typed, Calls DEF Releasing, Moves
  <2>2. Cardinality(Releasing(s)') = Cardinality(Releasing(s)) + 1
    BY <1>1, <2>1, Releasers, FS_AddElement
  <2>. QED
    BY <1>1, <1>2, <1>3, <1>4, <1>5, <1>7, <2>2, Typed, Calls, Releasers DEF At1,
       Counted, PromiseInv, FutureInv, Moves
<1>13. Stored(s)'
  BY <1>1, <1>2, <1>3, <1>4, <1>5, <1>7, Typed, Calls DEF At1, Stored, PromiseInv,
     FutureInv, Counted, Moves, Destructs
<1>14. Notified(s)'
  BY <1>1, <1>2, <1>3, <1>4, <1>5, <1>7, Typed, Calls DEF At1, Notified, Moves
<1>. QED
  BY <1>1, <1>6, <1>8, <1>9, <1>10, <1>11, <1>12, <1>13, <1>14, Elsewhere DEF FInv, At1

\* ~future.
LEMMA DropFutureKeeps ==
  ASSUME FInv, NEW t \in Threads, NEW s \in States, DropFuture(t, s)
  PROVE  FInv'
<1> DEFINE c == At("release", s, "none")
<1>1. TypeOK /\ PlacesInv /\ \A r \in States : At1(r)
  BY DEF FInv
<1>2. c \in Call /\ c.pc = "release" /\ c.state = s /\ c.next = "none"
  BY <1>1, AtCall, Calls, Typed DEF FInv
<1>3. /\ proc[t] = User /\ fut[s]
      /\ fut' = [fut EXCEPT ![s] = FALSE]
      /\ proc' = [proc EXCEPT ![t] = c]
      /\ UNCHANGED <<alive, kind, hasValue, references, ready, future_retrieved,
                     error, exception, storage, prom, waiting, inside>>
  BY <1>1, Typed DEF DropFuture, InUser
<1> HIDE DEF c
<1>4. \A u \in Threads : proc[u].state = s => proc[u].pc \notin {"wait", "woken", "take"}
  BY DEF DropFuture, FutureIdle
<1>5. TypeOK'
  <2>1. fut' \in [States -> BOOLEAN]
    BY <1>1, <1>2, <1>3, Typed
  <2>2. proc' \in [Procs -> Call]
    BY <1>1, <1>2, <1>3, Typed
  <2>. QED
    BY <1>1, <1>3, <2>1, <2>2, Typed DEF TypeOK
<1>6. Moves(t, c)
  BY <1>1, <1>2, <1>3, Typed DEF Moves
<1>7. PlacesInv'
  <2>1. ThreadCall(c)
    BY <1>1, <1>2, Calls DEF ThreadCall, AsyncCall
  <2>. QED
    BY <1>1, <1>6, <2>1, Typed DEF PlacesInv, Moves
<1>8. ASSUME NEW r \in States \ {s} PROVE Untouched(r)
  <2>1. \A q \in Procs : proc[q].state = r \/ proc'[q].state = r => proc'[q] = proc[q]
    BY <1>1, <1>2, <1>3, <1>4, <1>6, Typed, Calls DEF InFuture, Moves
  <2>2. ASSUME NEW u \in Threads, NEW i \in 1 .. Len(inside'[u]), inside'[u][i] = r
        PROVE  \E j \in 1 .. Len(inside[u]) : inside[u][j] = r
    BY <1>3, <2>2, Typed
  <2>. QED
    BY <1>1, <1>3, <2>1, <2>2, Typed DEF Untouched
<1>9. PromiseInv(s)'
  <2>1. prom'[s] => kind'[s] # "async"
    BY <1>1, <1>2, <1>3, <1>4, <1>6, Typed DEF At1, PromiseInv, Moves
  <2>2. ASSUME NEW u \in Threads, NEW i \in 1 .. Len(inside'[u]), inside'[u][i] = s
        PROVE  prom'[s]
    BY <1>1, <1>3, <2>2 DEF At1, PromiseInv
  <2>3. \A u \in Threads : proc'[u].state = s /\ proc'[u].next = "user" => prom'[s]
    BY <1>1, <1>2, <1>3, <1>4, <1>6, Typed, Calls DEF At1, PromiseInv, Moves
  <2>4. proc'[s].pc \in {"function", "caught"} => kind'[s] = "async" /\ ~ready'[s]
    BY <1>1, <1>2, <1>3, <1>4, <1>6, Typed, Calls DEF At1, PromiseInv, Moves
  <2>5. ~ready'[s] => ~error'[s] /\ ~exception'[s]
    BY <1>1, <1>2, <1>3, <1>4, <1>6, Typed DEF At1, PromiseInv, FutureInv, Destructs,
       Moves
  <2>. QED
    BY <2>1, <2>2, <2>3, <2>4, <2>5 DEF PromiseInv
<1>10. FutureInv(s)'
  BY <1>1, <1>2, <1>3, <1>4, <1>6, Typed, Calls DEF At1, PromiseInv, FutureInv, Moves,
     InFuture, Destructs
<1>11. Counted(s)'
  <2>1. t \notin Releasing(s) /\ Releasing(s)' = Releasing(s) \cup {t}
    BY <1>1, <1>2, <1>3, <1>4, <1>6, Typed, Calls DEF Releasing, Moves
  <2>2. Cardinality(Releasing(s)') = Cardinality(Releasing(s)) + 1
    BY <1>1, <2>1, Releasers, FS_AddElement
  <2>. QED
    BY <1>1, <1>2, <1>3, <1>4, <1>6, <2>2, Typed, Calls, Releasers DEF At1, Counted,
       PromiseInv, FutureInv, Moves
<1>12. Stored(s)'
  BY <1>1, <1>2, <1>3, <1>4, <1>6, Typed, Calls DEF At1, Stored, PromiseInv, FutureInv,
     Counted, Moves, Destructs
<1>13. Notified(s)'
  BY <1>1, <1>2, <1>3, <1>4, <1>6, Typed, Calls DEF At1, Notified, Moves
<1>. QED
  BY <1>1, <1>5, <1>7, <1>8, <1>9, <1>10, <1>11, <1>12, <1>13, Elsewhere DEF FInv, At1

-----------------------------------------------------------------------------
(* Waiting for a future *)

\* get and wait: look at ready, and block.
LEMMA WaitKeeps ==
  ASSUME FInv, NEW t \in Threads, NEW s \in States, NEW op \in {"get", "wait", "timed"},
         Wait(t, s, op)
  PROVE  FInv'
<1> DEFINE c == IF ready[s] THEN At("take", s, "get") ELSE At("wait", s, op)
<1>1. TypeOK /\ PlacesInv /\ \A r \in States : At1(r)
  BY DEF FInv
<1>2. /\ c \in Call /\ c.state = s
      /\ ready[s] => c.pc = "take" /\ c.next = "get"
      /\ ~ready[s] => c.pc = "wait" /\ c.next = op
  BY <1>1, AtCall, Calls, Typed DEF FInv
<1>3. /\ proc[t] = User /\ fut[s]
      /\ \/ ready[s] /\ c.pc = "take" /\ c.next = "get" /\ waiting' = waiting
         \/ /\ ~ready[s] /\ c.pc = "wait" /\ c.next = op
            /\ waiting' = [waiting EXCEPT ![s] = @ \cup {t}]
      /\ proc' = [proc EXCEPT ![t] = c]
      /\ UNCHANGED <<alive, kind, hasValue, references, ready, future_retrieved,
                     error, exception, storage, prom, fut, inside>>
  BY <1>1, <1>2, Typed DEF Wait, InUser
<1> HIDE DEF c
<1>4. /\ \A u \in Threads : proc[u].state = s => proc[u].pc \notin InFuture
      /\ \A u \in Threads : u \notin waiting[s]
  <2>1. \A u \in Threads : proc[u].state = s => proc[u].pc \notin {"wait", "woken", "take"}
    BY DEF Wait, FutureIdle
  <2>2. \A u \in Threads : proc[u].state = s => proc[u].pc \notin {"destroy", "reset"}
    BY <1>1, <1>3 DEF At1, FutureInv
  <2>3. \A u \in Threads : u \notin waiting[s]
    BY <1>1, <2>1 DEF At1, FutureInv
  <2>. QED
    BY <2>1, <2>2, <2>3 DEF InFuture
<1>5. waiting[s] \cup {t} \in SUBSET Threads /\ waiting[s] \ {t} \in SUBSET Threads
  BY <1>1, Typed
<1>6. TypeOK'
  <2>1. waiting' \in [States -> SUBSET Threads]
    <3> DEFINE w == waiting[s] \cup {t}
    <3>1. w \in SUBSET Threads
      BY <1>5
    <3>2. waiting' = waiting \/ waiting' = [waiting EXCEPT ![s] = w]
      BY <1>3
    <3>3. waiting \in [States -> SUBSET Threads]
      BY <1>1, Typed
    <3> DEFINE U == SUBSET Threads
    <3> HIDE DEF w, U
    <3>4. w \in U /\ waiting \in [States -> U]
      BY <3>1, <3>3 DEF U
    <3>5. waiting' \in [States -> U]
      BY <3>2, <3>4
    <3>. QED
      BY <3>5 DEF U
  <2>2. proc' \in [Procs -> Call]
    BY <1>1, <1>2, <1>3, Typed
  <2>. QED
    BY <1>1, <1>3, <2>1, <2>2, Typed DEF TypeOK
<1>7. Moves(t, c)
  BY <1>1, <1>2, <1>3, Typed DEF Moves
<1>8. PlacesInv'
  <2>1. ThreadCall(c)
    BY <1>1, <1>2, Calls DEF ThreadCall, AsyncCall
  <2>2. \A u \in Threads : ThreadCall(proc'[u])
    <3>1. ASSUME NEW u \in Threads \ {t} PROVE ThreadCall(proc'[u])
      <4>1. proc'[u] = proc[u]
        BY <1>1, <1>7, Typed DEF Moves
      <4>. QED
        BY <1>1, <4>1 DEF PlacesInv
    <3>. QED
      BY <1>7, <2>1, <3>1 DEF Moves
  <2>3. ASSUME NEW r \in States PROVE AsyncCall(r, proc'[r])
    <3>1. proc'[r] = proc[r]
      BY <1>1, <1>7, Typed DEF Moves
    <3>. QED
      BY <1>1, <3>1 DEF PlacesInv
  <2>. QED
    BY <2>2, <2>3 DEF PlacesInv
<1>9. ASSUME NEW r \in States \ {s} PROVE Untouched(r)
  <2>1. \A q \in Procs : proc[q].state = r \/ proc'[q].state = r => proc'[q] = proc[q]
    BY <1>1, <1>2, <1>3, <1>4, <1>7, Typed, Calls DEF InFuture, Moves
  <2>2. ASSUME NEW u \in Threads, NEW i \in 1 .. Len(inside'[u]), inside'[u][i] = r
        PROVE  \E j \in 1 .. Len(inside[u]) : inside[u][j] = r
    BY <1>3, <2>2, Typed
  <2>. QED
    BY <1>1, <1>3, <2>1, <2>2, Typed DEF Untouched
<1>10. PromiseInv(s)'
  <2>1. prom'[s] => kind'[s] # "async"
    BY <1>1, <1>2, <1>3, <1>4, <1>7, Typed DEF At1, PromiseInv, Moves
  <2>2. ASSUME NEW u \in Threads, NEW i \in 1 .. Len(inside'[u]), inside'[u][i] = s
        PROVE  prom'[s]
    BY <1>1, <1>3, <2>2 DEF At1, PromiseInv
  <2>3. \A u \in Threads : proc'[u].state = s /\ proc'[u].next = "user" => prom'[s]
    BY <1>1, <1>2, <1>3, <1>4, <1>7, Typed, Calls DEF At1, PromiseInv, Moves
  <2>4. proc'[s].pc \in {"function", "caught"} => kind'[s] = "async" /\ ~ready'[s]
    BY <1>1, <1>2, <1>3, <1>4, <1>7, Typed, Calls DEF At1, PromiseInv, Moves
  <2>5. ~ready'[s] => ~error'[s] /\ ~exception'[s]
    BY <1>1, <1>2, <1>3, <1>4, <1>7, Typed DEF At1, PromiseInv, FutureInv, Destructs,
       Moves
  <2>. QED
    BY <2>1, <2>2, <2>3, <2>4, <2>5 DEF PromiseInv
<1>11. FutureInv(s)'
  BY <1>1, <1>2, <1>3, <1>4, <1>7, Typed, Calls DEF At1, PromiseInv, FutureInv, Moves,
     InFuture, Destructs
<1>12. Counted(s)'
  <2>1. Releasing(s)' = Releasing(s)
    BY <1>1, <1>2, <1>3, <1>4, <1>7, Typed, Calls DEF Releasing, Moves
  <2>. QED
    BY <1>1, <1>2, <1>3, <1>4, <1>7, <2>1, Typed, Calls DEF At1, Counted, PromiseInv,
       FutureInv, Moves
<1>13. Stored(s)'
  BY <1>1, <1>2, <1>3, <1>4, <1>7, Typed, Calls DEF At1, Stored, PromiseInv, FutureInv,
     Counted, Moves, Destructs
<1>14. Notified(s)'
  BY <1>1, <1>2, <1>3, <1>4, <1>7, Typed, Calls DEF At1, Notified, Moves
<1>. QED
  BY <1>1, <1>6, <1>8, <1>9, <1>10, <1>11, <1>12, <1>13, <1>14, Elsewhere DEF FInv, At1

\* A timeout or a spurious wake-up.
LEMMA WakeUnaskedKeeps ==
  ASSUME FInv, NEW t \in Threads, NEW s \in States, s = proc[t].state, WakeUnasked(t)
  PROVE  FInv'
<1> DEFINE c == [proc[t] EXCEPT !.pc = "woken"]
<1>1. TypeOK /\ PlacesInv /\ \A r \in States : At1(r)
  BY DEF FInv
<1>2. /\ c \in Call /\ c.state = s /\ c.pc = "woken" /\ c.next = proc[t].next
      /\ proc[t].next \in {"get", "wait", "timed"}
  <2>1. proc[t].pc = "wait" /\ proc[t] \in Call
    BY <1>1, Typed DEF WakeUnasked
  <2>. QED
    BY <1>1, <2>1, Calls DEF PlacesInv, ThreadCall, Call
<1>3. /\ proc[t].pc = "wait"
      /\ waiting' = [waiting EXCEPT ![s] = @ \ {t}]
      /\ proc' = [proc EXCEPT ![t] = c]
      /\ UNCHANGED <<alive, kind, hasValue, references, ready, future_retrieved,
                     error, exception, storage, prom, fut, inside>>
  BY <1>1, Typed DEF WakeUnasked
<1> HIDE DEF c

<1>4. fut[s] /\ t \in Procs
  BY <1>1, <1>2, <1>3, Typed DEF At1, FutureInv
<1>5. waiting[s] \cup {t} \in SUBSET Threads /\ waiting[s] \ {t} \in SUBSET Threads
  BY <1>1, Typed
<1>6. TypeOK'
  <2>1. waiting' \in [States -> SUBSET Threads]
    BY <1>1, <1>2, <1>3, <1>5, Typed
  <2>2. proc' \in [Procs -> Call]
    BY <1>1, <1>2, <1>3, Typed
  <2>. QED
    BY <1>1, <1>3, <2>1, <2>2, Typed DEF TypeOK
<1>7. Moves(t, c)
  BY <1>1, <1>2, <1>3, Typed DEF Moves
<1>8. PlacesInv'
  <2>1. ThreadCall(c)
    BY <1>1, <1>2, <1>3, Calls DEF ThreadCall, AsyncCall
  <2>2. \A u \in Threads : ThreadCall(proc'[u])
    <3>1. ASSUME NEW u \in Threads \ {t} PROVE ThreadCall(proc'[u])
      <4>1. proc'[u] = proc[u]
        BY <1>1, <1>7, Typed DEF Moves
      <4>. QED
        BY <1>1, <4>1 DEF PlacesInv
    <3>. QED
      BY <1>7, <2>1, <3>1 DEF Moves
  <2>3. ASSUME NEW r \in States PROVE AsyncCall(r, proc'[r])
    <3>1. proc'[r] = proc[r]
      BY <1>1, <1>7, Typed DEF Moves
    <3>. QED
      BY <1>1, <3>1 DEF PlacesInv
  <2>. QED
    BY <2>2, <2>3 DEF PlacesInv
<1>9. ASSUME NEW r \in States \ {s} PROVE Untouched(r)
  <2>1. \A q \in Procs : proc[q].state = r \/ proc'[q].state = r => proc'[q] = proc[q]
    BY <1>1, <1>2, <1>3, <1>4, <1>7, Typed, Calls DEF InFuture, Moves
  <2>2. ASSUME NEW u \in Threads, NEW i \in 1 .. Len(inside'[u]), inside'[u][i] = r
        PROVE  \E j \in 1 .. Len(inside[u]) : inside[u][j] = r
    BY <1>3, <2>2, Typed
  <2>. QED
    BY <1>1, <1>3, <2>1, <2>2, Typed DEF Untouched
<1>10. PromiseInv(s)'
  <2>1. prom'[s] => kind'[s] # "async"
    BY <1>1, <1>2, <1>3, <1>4, <1>7, Typed DEF At1, PromiseInv, Moves
  <2>2. ASSUME NEW u \in Threads, NEW i \in 1 .. Len(inside'[u]), inside'[u][i] = s
        PROVE  prom'[s]
    BY <1>1, <1>3, <2>2 DEF At1, PromiseInv
  <2>3. \A u \in Threads : proc'[u].state = s /\ proc'[u].next = "user" => prom'[s]
    BY <1>1, <1>2, <1>3, <1>4, <1>7, Typed, Calls DEF At1, PromiseInv, Moves
  <2>4. proc'[s].pc \in {"function", "caught"} => kind'[s] = "async" /\ ~ready'[s]
    BY <1>1, <1>2, <1>3, <1>4, <1>7, Typed, Calls DEF At1, PromiseInv, Moves
  <2>5. ~ready'[s] => ~error'[s] /\ ~exception'[s]
    BY <1>1, <1>2, <1>3, <1>4, <1>7, Typed DEF At1, PromiseInv, FutureInv, Destructs,
       Moves
  <2>. QED
    BY <2>1, <2>2, <2>3, <2>4, <2>5 DEF PromiseInv
<1>11. FutureInv(s)'
  BY <1>1, <1>2, <1>3, <1>4, <1>7, Typed, Calls DEF At1, PromiseInv, FutureInv, Moves,
     InFuture, Destructs
<1>12. Counted(s)'
  <2>1. Releasing(s)' = Releasing(s)
    BY <1>1, <1>2, <1>3, <1>4, <1>7, Typed, Calls DEF Releasing, Moves
  <2>. QED
    BY <1>1, <1>2, <1>3, <1>4, <1>7, <2>1, Typed, Calls DEF At1, Counted, PromiseInv,
       FutureInv, Moves
<1>13. Stored(s)'
  <2>1. Destructs(s)' = Destructs(s) /\ alive'[s] = alive[s] /\ storage'[s] = storage[s]
    BY <1>3 DEF Destructs
  <2>2. \A u \in Threads : (proc'[u].pc = "reset" /\ proc'[u].state = s)
                             <=> (proc[u].pc = "reset" /\ proc[u].state = s)
    BY <1>2, <1>3, <1>4, <1>7, Typed DEF Moves
  <2>. QED
    BY <1>1, <2>1, <2>2 DEF At1, Stored
<1>14. Notified(s)'
  <2>1. SUFFICES ASSUME waiting'[s] # {}, ready'[s]
                 PROVE  \E q \in Procs : proc'[q].pc = "notify" /\ proc'[q].state = s
    BY DEF Notified
  <2>2. waiting'[s] = waiting[s] \ {t}
    BY <1>1, <1>3, Typed
  <2>3. waiting[s] # {} /\ ready[s]
    BY <1>3, <2>1, <2>2
  <2>4. PICK q \in Procs : proc[q].pc = "notify" /\ proc[q].state = s
    BY <1>1, <2>3 DEF At1, Notified
  <2>. QED
    BY <1>3, <1>4, <1>7, <2>4 DEF Moves
<1>. QED
  BY <1>1, <1>6, <1>8, <1>9, <1>10, <1>11, <1>12, <1>13, <1>14, Elsewhere DEF FInv, At1

\* Awake and the lock held: look at ready again.
LEMMA LookAgainKeeps ==
  ASSUME FInv, NEW t \in Threads, NEW s \in States, s = proc[t].state, LookAgain(t)
  PROVE  FInv'
<1> DEFINE c == proc'[t]
           d == [proc[t] EXCEPT !.pc = "wait"]
<1>1. TypeOK /\ PlacesInv /\ \A r \in States : At1(r)
  BY DEF FInv
<1>2. /\ d \in Call /\ d.state = s /\ d.pc = "wait" /\ d.next = proc[t].next
      /\ proc[t].next \in {"get", "wait", "timed"}
  <2>1. proc[t].pc = "woken" /\ proc[t] \in Call
    BY <1>1, Typed DEF LookAgain
  <2>. QED
    BY <1>1, <2>1, Calls DEF PlacesInv, ThreadCall, Call
<1> DEFINE e == At("take", s, "get")
<1>3. e \in Call /\ e.pc = "take" /\ e.state = s /\ e.next = "get"
  BY AtCall
<1>4. /\ proc[t].pc = "woken"
      /\ \/ ready[s] /\ proc' = [proc EXCEPT ![t] = e] /\ waiting' = waiting
         \/ proc' = [proc EXCEPT ![t] = User] /\ waiting' = waiting
         \/ /\ ~ready[s] /\ proc' = [proc EXCEPT ![t] = d]
            /\ waiting' = [waiting EXCEPT ![s] = @ \cup {t}]
  BY DEF LookAgain
<1> HIDE DEF d, e
<1>5. c \in Call /\ proc[t].next \in {"get", "wait", "timed"}
  BY <1>1, <1>2, <1>3, <1>4, Calls, Typed
<1>6. /\ proc[t].pc = "woken"
      /\ \/ ready[s] /\ c.pc = "take" /\ c.next = "get" /\ c.state = s /\ waiting' = waiting
         \/ c = User /\ waiting' = waiting
         \/ /\ ~ready[s] /\ c.pc = "wait" /\ c.next = proc[t].next /\ c.state = s
            /\ waiting' = [waiting EXCEPT ![s] = @ \cup {t}]
      /\ proc' = [proc EXCEPT ![t] = c]
      /\ UNCHANGED <<alive, kind, hasValue, references, ready, future_retrieved,
                     error, exception, storage, prom, fut, inside>>
  BY <1>1, <1>2, <1>3, <1>4, Typed DEF LookAgain
<1> HIDE DEF c

<1>7. fut[s] /\ t \in Procs
  BY <1>1, <1>5, <1>6, Typed DEF At1, FutureInv
<1>8. waiting[s] \cup {t} \in SUBSET Threads /\ waiting[s] \ {t} \in SUBSET Threads
  BY <1>1, Typed
<1>9. TypeOK'
  <2>1. waiting' \in [States -> SUBSET Threads]
    BY <1>1, <1>5, <1>6, <1>8, Typed
  <2>2. proc' \in [Procs -> Call]
    BY <1>1, <1>5, <1>6, Typed
  <2>. QED
    BY <1>1, <1>6, <2>1, <2>2, Typed DEF TypeOK
<1>10. Moves(t, c)
  BY <1>1, <1>5, <1>6, Typed DEF Moves
<1>11. PlacesInv'
  <2>1. ThreadCall(c)
    BY <1>1, <1>5, <1>6, Calls DEF ThreadCall, AsyncCall
  <2>2. \A u \in Threads : ThreadCall(proc'[u])
    <3>1. ASSUME NEW u \in Threads \ {t} PROVE ThreadCall(proc'[u])
      <4>1. proc'[u] = proc[u]
        BY <1>1, <1>10, Typed DEF Moves
      <4>. QED
        BY <1>1, <4>1 DEF PlacesInv
    <3>. QED
      BY <1>10, <2>1, <3>1 DEF Moves
  <2>3. ASSUME NEW r \in States PROVE AsyncCall(r, proc'[r])
    <3>1. proc'[r] = proc[r]
      BY <1>1, <1>10, Typed DEF Moves
    <3>. QED
      BY <1>1, <3>1 DEF PlacesInv
  <2>. QED
    BY <2>2, <2>3 DEF PlacesInv
<1>12. ASSUME NEW r \in States \ {s} PROVE Untouched(r)
  <2>1. \A q \in Procs : proc[q].state = r \/ proc'[q].state = r => proc'[q] = proc[q]
    BY <1>1, <1>5, <1>6, <1>7, <1>10, Typed, Calls DEF InFuture, Moves
  <2>2. ASSUME NEW u \in Threads, NEW i \in 1 .. Len(inside'[u]), inside'[u][i] = r
        PROVE  \E j \in 1 .. Len(inside[u]) : inside[u][j] = r
    BY <1>6, <2>2, Typed
  <2>. QED
    BY <1>1, <1>6, <2>1, <2>2, Typed DEF Untouched
<1>13. PromiseInv(s)'
  <2>1. prom'[s] => kind'[s] # "async"
    BY <1>1, <1>5, <1>6, <1>7, <1>10, Typed DEF At1, PromiseInv, Moves
  <2>2. ASSUME NEW u \in Threads, NEW i \in 1 .. Len(inside'[u]), inside'[u][i] = s
        PROVE  prom'[s]
    BY <1>1, <1>6, <2>2 DEF At1, PromiseInv
  <2>3. \A u \in Threads : proc'[u].state = s /\ proc'[u].next = "user" => prom'[s]
    BY <1>1, <1>5, <1>6, <1>7, <1>10, Typed, Calls DEF At1, PromiseInv, Moves
  <2>4. proc'[s].pc \in {"function", "caught"} => kind'[s] = "async" /\ ~ready'[s]
    BY <1>1, <1>5, <1>6, <1>7, <1>10, Typed, Calls DEF At1, PromiseInv, Moves
  <2>5. ~ready'[s] => ~error'[s] /\ ~exception'[s]
    BY <1>1, <1>5, <1>6, <1>7, <1>10, Typed DEF At1, PromiseInv, FutureInv, Destructs,
       Moves
  <2>. QED
    BY <2>1, <2>2, <2>3, <2>4, <2>5 DEF PromiseInv
<1>14. FutureInv(s)'
  BY <1>1, <1>5, <1>6, <1>7, <1>10, Typed, Calls DEF At1, PromiseInv, FutureInv, Moves,
     InFuture, Destructs
<1>15. Counted(s)'
  <2>1. Releasing(s)' = Releasing(s)
    BY <1>1, <1>5, <1>6, <1>7, <1>10, Typed, Calls DEF Releasing, Moves
  <2>. QED
    BY <1>1, <1>5, <1>6, <1>7, <1>10, <2>1, Typed, Calls DEF At1, Counted, PromiseInv,
       FutureInv, Moves
<1>16. Stored(s)'
  BY <1>1, <1>5, <1>6, <1>7, <1>10, Typed, Calls DEF At1, Stored, PromiseInv,
     FutureInv, Counted, Moves, Destructs
<1>17. Notified(s)'
  BY <1>1, <1>5, <1>6, <1>7, <1>10, Typed, Calls DEF At1, Notified, Moves
<1>. QED
  BY <1>1, <1>9, <1>11, <1>12, <1>13, <1>14, <1>15, <1>16, <1>17, Elsewhere DEF FInv,
     At1

-----------------------------------------------------------------------------
(* What get does without the lock *)

\* get without the lock: the future lets go of its state.
LEMMA TakeKeeps ==
  ASSUME FInv, NEW t \in Threads, NEW s \in States, s = proc[t].state, Take(t)
  PROVE  FInv'
<1> DEFINE c == proc'[t]
<1>1. TypeOK /\ PlacesInv /\ \A r \in States : At1(r)
  BY DEF FInv
<1> DEFINE d == At("release", s, "none")
           e == At("destroy", s, "none")
<1>2. /\ d \in Call /\ d.pc = "release" /\ d.state = s /\ d.next = "none"
      /\ e \in Call /\ e.pc = "destroy" /\ e.state = s /\ e.next = "none"
  BY AtCall
<1>3. /\ proc[t].pc = "take"
      /\ \/ proc' = [proc EXCEPT ![t] = d] /\ storage' = storage
         \/ /\ ~error[s] /\ ~exception[s] /\ hasValue[s]
            /\ proc' = [proc EXCEPT ![t] = e]
            /\ storage' = [storage EXCEPT ![s] = "moved"]
  BY DEF Take
<1> HIDE DEF d, e
<1>4. c \in Call /\ c.state = s /\ c.next = "none" /\ c.pc \in {"release", "destroy"}
  BY <1>1, <1>2, <1>3, Typed
<1>5. /\ proc[t].pc = "take"
      /\ fut' = [fut EXCEPT ![s] = FALSE]
      /\ \/ c.pc = "release" /\ storage' = storage
         \/ /\ ~error[s] /\ ~exception[s] /\ hasValue[s] /\ c.pc = "destroy"
            /\ storage' = [storage EXCEPT ![s] = "moved"]
      /\ proc' = [proc EXCEPT ![t] = c]
      /\ UNCHANGED <<alive, kind, hasValue, references, ready, future_retrieved,
                     error, exception, prom, waiting, inside>>
  BY <1>1, <1>2, <1>3, Typed DEF Take
<1> HIDE DEF c
<1>6. /\ fut[s] /\ ready[s] /\ alive[s] /\ t \in Procs /\ proc[t].next = "get"
      /\ \A u \in Threads : proc[u].state = s /\ proc[u].pc \in InFuture => u = t
      /\ future_retrieved[s] \/ kind[s] = "async"
  <2>1. proc[t].next = "get"
    BY <1>1, <1>5, Calls DEF PlacesInv, ThreadCall
  <2>. QED
    BY <1>1, <1>5, <2>1, Typed DEF At1, FutureInv, Counted, InFuture
<1>7. TypeOK'
  <2>1. storage' \in [States -> {"raw", "built", "moved"}]
    BY <1>1, <1>4, <1>5, Typed
  <2>2. fut' \in [States -> BOOLEAN]
    BY <1>1, <1>4, <1>5, Typed
  <2>3. proc' \in [Procs -> Call]
    BY <1>1, <1>4, <1>5, Typed
  <2>. QED
    BY <1>1, <1>5, <2>1, <2>2, <2>3, Typed DEF TypeOK
<1>8. Moves(t, c)
  BY <1>1, <1>4, <1>5, Typed DEF Moves
<1>9. PlacesInv'
  <2>1. ThreadCall(c)
    BY <1>1, <1>4, <1>5, Calls DEF ThreadCall, AsyncCall
  <2>2. \A u \in Threads : ThreadCall(proc'[u])
    <3>1. ASSUME NEW u \in Threads \ {t} PROVE ThreadCall(proc'[u])
      <4>1. proc'[u] = proc[u]
        BY <1>1, <1>8, Typed DEF Moves
      <4>. QED
        BY <1>1, <4>1 DEF PlacesInv
    <3>. QED
      BY <1>8, <2>1, <3>1 DEF Moves
  <2>3. ASSUME NEW r \in States PROVE AsyncCall(r, proc'[r])
    <3>1. proc'[r] = proc[r]
      BY <1>1, <1>8, Typed DEF Moves
    <3>. QED
      BY <1>1, <3>1 DEF PlacesInv
  <2>. QED
    BY <2>2, <2>3 DEF PlacesInv
<1>10. ASSUME NEW r \in States \ {s} PROVE Untouched(r)
  <2>1. \A q \in Procs : proc[q].state = r \/ proc'[q].state = r => proc'[q] = proc[q]
    BY <1>1, <1>4, <1>5, <1>6, <1>8, Typed, Calls DEF InFuture, Moves
  <2>2. ASSUME NEW u \in Threads, NEW i \in 1 .. Len(inside'[u]), inside'[u][i] = r
        PROVE  \E j \in 1 .. Len(inside[u]) : inside[u][j] = r
    BY <1>5, <2>2, Typed
  <2>. QED
    BY <1>1, <1>5, <2>1, <2>2, Typed DEF Untouched
<1>11. PromiseInv(s)'
  <2>1. prom'[s] => kind'[s] # "async"
    BY <1>1, <1>4, <1>5, <1>6, <1>8, Typed DEF At1, PromiseInv, Moves
  <2>2. ASSUME NEW u \in Threads, NEW i \in 1 .. Len(inside'[u]), inside'[u][i] = s
        PROVE  prom'[s]
    BY <1>1, <1>5, <2>2 DEF At1, PromiseInv
  <2>3. \A u \in Threads : proc'[u].state = s /\ proc'[u].next = "user" => prom'[s]
    BY <1>1, <1>4, <1>5, <1>6, <1>8, Typed, Calls DEF At1, PromiseInv, Moves
  <2>4. proc'[s].pc \in {"function", "caught"} => kind'[s] = "async" /\ ~ready'[s]
    BY <1>1, <1>4, <1>5, <1>6, <1>8, Typed, Calls DEF At1, PromiseInv, Moves
  <2>5. ~ready'[s] => ~error'[s] /\ ~exception'[s]
    BY <1>1, <1>4, <1>5, <1>6, <1>8, Typed DEF At1, PromiseInv, FutureInv, Destructs,
       Moves
  <2>. QED
    BY <2>1, <2>2, <2>3, <2>4, <2>5 DEF PromiseInv
<1>12. FutureInv(s)'
  BY <1>1, <1>4, <1>5, <1>6, <1>8, Typed, Calls DEF At1, PromiseInv, FutureInv, Moves,
     InFuture, Destructs
<1>13. Counted(s)'
  <2>1. t \notin Releasing(s) /\ Releasing(s)' = Releasing(s) \cup {t}
    BY <1>1, <1>4, <1>5, <1>6, <1>8, Typed, Calls DEF Releasing, Moves
  <2>2. Cardinality(Releasing(s)') = Cardinality(Releasing(s)) + 1
    BY <1>1, <2>1, Releasers, FS_AddElement
  <2>. QED
    BY <1>1, <1>4, <1>5, <1>6, <1>8, <2>2, Typed, Calls, Releasers DEF At1, Counted,
       PromiseInv, FutureInv, Moves
<1>14. Stored(s)'
  <2>1. Destructs(s)' = Destructs(s) /\ alive'[s] = alive[s]
    BY <1>5 DEF Destructs
  <2>2. \A u \in Threads : proc[u].state = s => proc[u].pc # "reset"
    BY <1>5, <1>6 DEF InFuture
  <2>3. \A u \in Threads : proc'[u].state = s => proc'[u].pc # "reset"
    BY <1>4, <1>5, <1>6, <1>8, <2>2 DEF Moves
  <2>4. storage[s] # "raw" <=> Destructs(s)
    BY <1>1, <1>6, <2>2 DEF At1, Stored
  <2>5. storage'[s] # "raw" <=> storage[s] # "raw"
    BY <1>1, <1>5, <1>6, <2>4, Typed DEF Destructs
  <2>. QED
    BY <1>6, <2>1, <2>3, <2>4, <2>5 DEF Stored
<1>15. Notified(s)'
  BY <1>1, <1>4, <1>5, <1>6, <1>8, Typed, Calls DEF At1, Notified, Moves
<1>. QED
  BY <1>1, <1>7, <1>9, <1>10, <1>11, <1>12, <1>13, <1>14, <1>15, Elsewhere DEF FInv, At1

\* The value that get has moved out is destroyed.
LEMMA DestroyValueKeeps ==
  ASSUME FInv, NEW t \in Threads, NEW s \in States, s = proc[t].state, DestroyValue(t)
  PROVE  FInv'
<1> DEFINE c == [proc[t] EXCEPT !.pc = "reset"]
<1>1. TypeOK /\ PlacesInv /\ \A r \in States : At1(r)
  BY DEF FInv
<1>2. c \in Call /\ c.state = s /\ c.next = "none" /\ c.pc = "reset"
  <2>1. proc[t] \in Call /\ proc[t].pc \in {"destroy", "reset"}
    BY <1>1, Typed DEF DestroyValue
  <2>2. proc[t].next = "none"
    BY <1>1, <2>1, Calls DEF PlacesInv, ThreadCall
  <2>. QED
    BY <2>1, <2>2, AtCall DEF Call
<1>3. /\ proc[t].pc = "destroy"
      /\ storage' = [storage EXCEPT ![s] = "raw"]
      /\ proc' = [proc EXCEPT ![t] = c]
      /\ UNCHANGED <<alive, kind, hasValue, references, ready, future_retrieved,
                     error, exception, prom, fut, waiting, inside>>
  BY <1>1, Typed DEF DestroyValue
<1> HIDE DEF c
<1>4. /\ ~fut[s] /\ Destructs(s) /\ alive[s] /\ t \in Procs /\ proc[t].next = "none"
      /\ future_retrieved[s] \/ kind[s] = "async"
      /\ \A u \in Threads : proc[u].state = s /\ proc[u].pc \in InFuture => u = t
  <2>1. proc[t].next = "none"
    BY <1>1, <1>3, Calls DEF PlacesInv, ThreadCall
  <2>. QED
    BY <1>1, <1>3, <2>1, Typed DEF At1, FutureInv, Counted, InFuture
<1>5. TypeOK'
  <2>1. storage' \in [States -> {"raw", "built", "moved"}]
    BY <1>1, <1>2, <1>3, Typed
  <2>2. proc' \in [Procs -> Call]
    BY <1>1, <1>2, <1>3, Typed
  <2>. QED
    BY <1>1, <1>3, <2>1, <2>2, Typed DEF TypeOK
<1>6. Moves(t, c)
  BY <1>1, <1>2, <1>3, Typed DEF Moves
<1>7. PlacesInv'
  <2>1. ThreadCall(c)
    BY <1>1, <1>2, <1>3, Calls DEF ThreadCall, AsyncCall
  <2>2. \A u \in Threads : ThreadCall(proc'[u])
    <3>1. ASSUME NEW u \in Threads \ {t} PROVE ThreadCall(proc'[u])
      <4>1. proc'[u] = proc[u]
        BY <1>1, <1>6, Typed DEF Moves
      <4>. QED
        BY <1>1, <4>1 DEF PlacesInv
    <3>. QED
      BY <1>6, <2>1, <3>1 DEF Moves
  <2>3. ASSUME NEW r \in States PROVE AsyncCall(r, proc'[r])
    <3>1. proc'[r] = proc[r]
      BY <1>1, <1>6, Typed DEF Moves
    <3>. QED
      BY <1>1, <3>1 DEF PlacesInv
  <2>. QED
    BY <2>2, <2>3 DEF PlacesInv
<1>8. ASSUME NEW r \in States \ {s} PROVE Untouched(r)
  <2>1. \A q \in Procs : proc[q].state = r \/ proc'[q].state = r => proc'[q] = proc[q]
    BY <1>1, <1>2, <1>3, <1>4, <1>6, Typed, Calls DEF InFuture, Moves
  <2>2. ASSUME NEW u \in Threads, NEW i \in 1 .. Len(inside'[u]), inside'[u][i] = r
        PROVE  \E j \in 1 .. Len(inside[u]) : inside[u][j] = r
    BY <1>3, <2>2, Typed
  <2>. QED
    BY <1>1, <1>3, <2>1, <2>2, Typed DEF Untouched
<1>9. PromiseInv(s)'
  <2>1. prom'[s] => kind'[s] # "async"
    BY <1>1, <1>2, <1>3, <1>4, <1>6, Typed DEF At1, PromiseInv, Moves
  <2>2. ASSUME NEW u \in Threads, NEW i \in 1 .. Len(inside'[u]), inside'[u][i] = s
        PROVE  prom'[s]
    BY <1>1, <1>3, <2>2 DEF At1, PromiseInv
  <2>3. \A u \in Threads : proc'[u].state = s /\ proc'[u].next = "user" => prom'[s]
    BY <1>1, <1>2, <1>3, <1>4, <1>6, Typed, Calls DEF At1, PromiseInv, Moves
  <2>4. proc'[s].pc \in {"function", "caught"} => kind'[s] = "async" /\ ~ready'[s]
    BY <1>1, <1>2, <1>3, <1>4, <1>6, Typed, Calls DEF At1, PromiseInv, Moves
  <2>5. ~ready'[s] => ~error'[s] /\ ~exception'[s]
    BY <1>1, <1>2, <1>3, <1>4, <1>6, Typed DEF At1, PromiseInv, FutureInv, Destructs,
       Moves
  <2>. QED
    BY <2>1, <2>2, <2>3, <2>4, <2>5 DEF PromiseInv
<1>10. FutureInv(s)'
  BY <1>1, <1>2, <1>3, <1>4, <1>6, Typed, Calls DEF At1, PromiseInv, FutureInv, Moves,
     InFuture, Destructs
<1>11. Counted(s)'
  <2>1. Releasing(s)' = Releasing(s)
    BY <1>1, <1>2, <1>3, <1>4, <1>6, Typed, Calls DEF Releasing, Moves
  <2>. QED
    BY <1>1, <1>2, <1>3, <1>4, <1>6, <2>1, Typed, Calls DEF At1, Counted, PromiseInv,
       FutureInv, Moves
<1>12. Stored(s)'
  BY <1>1, <1>2, <1>3, <1>4, <1>6, Typed, Calls DEF At1, Stored, PromiseInv, FutureInv,
     Counted, Moves, Destructs
<1>13. Notified(s)'
  BY <1>1, <1>2, <1>3, <1>4, <1>6, Typed, Calls DEF At1, Notified, Moves
<1>. QED
  BY <1>1, <1>5, <1>7, <1>8, <1>9, <1>10, <1>11, <1>12, <1>13, Elsewhere DEF FInv, At1

\* get leaves nothing for ~__state to destroy.
LEMMA ResetReadyKeeps ==
  ASSUME FInv, NEW t \in Threads, NEW s \in States, s = proc[t].state, ResetReady(t)
  PROVE  FInv'
<1> DEFINE c == At("release", s, "none")
<1>1. TypeOK /\ PlacesInv /\ \A r \in States : At1(r)
  BY DEF FInv
<1>2. c \in Call /\ c.state = s /\ c.next = "none" /\ c.pc = "release"
  <2>1. proc[t] \in Call /\ proc[t].pc \in {"destroy", "reset"}
    BY <1>1, Typed DEF ResetReady
  <2>2. proc[t].next = "none"
    BY <1>1, <2>1, Calls DEF PlacesInv, ThreadCall
  <2>. QED
    BY <2>1, <2>2, AtCall DEF Call
<1>3. /\ proc[t].pc = "reset"
      /\ ready' = [ready EXCEPT ![s] = FALSE]
      /\ proc' = [proc EXCEPT ![t] = c]
      /\ UNCHANGED <<alive, kind, hasValue, references, future_retrieved, error,
                     exception, storage, prom, fut, waiting, inside>>
  BY <1>1, Typed DEF ResetReady, AfterTake
<1> HIDE DEF c
<1>4. /\ ~fut[s] /\ Destructs(s) /\ alive[s] /\ t \in Procs /\ proc[t].next = "none"
      /\ future_retrieved[s] \/ kind[s] = "async"
      /\ \A u \in Threads : proc[u].state = s /\ proc[u].pc \in InFuture => u = t
  <2>1. proc[t].next = "none"
    BY <1>1, <1>3, Calls DEF PlacesInv, ThreadCall
  <2>. QED
    BY <1>1, <1>3, <2>1, Typed DEF At1, FutureInv, Counted, InFuture
<1>5. storage[s] = "raw" /\ waiting[s] = {} /\ proc[s].pc \notin {"function", "caught"}
  <2>1. storage[s] = "raw"
    BY <1>1, <1>3 DEF At1, Stored
  <2>2. \A u \in Threads : u \notin waiting[s]
    BY <1>1, <1>3, <1>4 DEF At1, FutureInv, InFuture
  <2>3. proc[s].pc \notin {"function", "caught"}
    BY <1>1, <1>4 DEF At1, PromiseInv, Destructs
  <2>4. waiting[s] = {}
    BY <1>1, <2>2, Typed
  <2>. QED
    BY <2>1, <2>3, <2>4
<1>6. TypeOK'
  <2>1. ready' \in [States -> BOOLEAN]
    BY <1>1, <1>2, <1>3, Typed
  <2>2. proc' \in [Procs -> Call]
    BY <1>1, <1>2, <1>3, Typed
  <2>. QED
    BY <1>1, <1>3, <2>1, <2>2, Typed DEF TypeOK
<1>7. Moves(t, c)
  BY <1>1, <1>2, <1>3, Typed DEF Moves
<1>8. PlacesInv'
  <2>1. ThreadCall(c)
    BY <1>1, <1>2, <1>3, Calls DEF ThreadCall, AsyncCall
  <2>2. \A u \in Threads : ThreadCall(proc'[u])
    <3>1. ASSUME NEW u \in Threads \ {t} PROVE ThreadCall(proc'[u])
      <4>1. proc'[u] = proc[u]
        BY <1>1, <1>7, Typed DEF Moves
      <4>. QED
        BY <1>1, <4>1 DEF PlacesInv
    <3>. QED
      BY <1>7, <2>1, <3>1 DEF Moves
  <2>3. ASSUME NEW r \in States PROVE AsyncCall(r, proc'[r])
    <3>1. proc'[r] = proc[r]
      BY <1>1, <1>7, Typed DEF Moves
    <3>. QED
      BY <1>1, <3>1 DEF PlacesInv
  <2>. QED
    BY <2>2, <2>3 DEF PlacesInv
<1>9. ASSUME NEW r \in States \ {s} PROVE Untouched(r)
  <2>1. \A q \in Procs : proc[q].state = r \/ proc'[q].state = r => proc'[q] = proc[q]
    BY <1>1, <1>2, <1>3, <1>4, <1>5, <1>7, Typed, Calls DEF InFuture, Moves
  <2>2. ASSUME NEW u \in Threads, NEW i \in 1 .. Len(inside'[u]), inside'[u][i] = r
        PROVE  \E j \in 1 .. Len(inside[u]) : inside[u][j] = r
    BY <1>3, <2>2, Typed
  <2>. QED
    BY <1>1, <1>3, <2>1, <2>2, Typed DEF Untouched
<1>10. PromiseInv(s)'
  <2>1. prom'[s] => kind'[s] # "async"
    BY <1>1, <1>2, <1>3, <1>4, <1>5, <1>7, Typed DEF At1, PromiseInv, Moves
  <2>2. ASSUME NEW u \in Threads, NEW i \in 1 .. Len(inside'[u]), inside'[u][i] = s
        PROVE  prom'[s]
    BY <1>1, <1>3, <2>2 DEF At1, PromiseInv
  <2>3. \A u \in Threads : proc'[u].state = s /\ proc'[u].next = "user" => prom'[s]
    BY <1>1, <1>2, <1>3, <1>4, <1>5, <1>7, Typed, Calls DEF At1, PromiseInv, Moves
  <2>4. proc'[s].pc \in {"function", "caught"} => kind'[s] = "async" /\ ~ready'[s]
    BY <1>1, <1>2, <1>3, <1>4, <1>5, <1>7, Typed, Calls DEF At1, PromiseInv, Moves
  <2>5. ~ready'[s] => ~error'[s] /\ ~exception'[s]
    BY <1>1, <1>2, <1>3, <1>4, <1>5, <1>7, Typed DEF At1, PromiseInv, FutureInv,
       Destructs, Moves
  <2>. QED
    BY <2>1, <2>2, <2>3, <2>4, <2>5 DEF PromiseInv
<1>11. FutureInv(s)'
  BY <1>1, <1>2, <1>3, <1>4, <1>5, <1>7, Typed, Calls DEF At1, PromiseInv, FutureInv,
     Moves, InFuture, Destructs
<1>12. Counted(s)'
  <2>1. Releasing(s)' = Releasing(s)
    BY <1>1, <1>2, <1>3, <1>4, <1>5, <1>7, Typed, Calls DEF Releasing, Moves
  <2>. QED
    BY <1>1, <1>2, <1>3, <1>4, <1>5, <1>7, <2>1, Typed, Calls DEF At1, Counted,
       PromiseInv, FutureInv, Moves
<1>13. Stored(s)'
  BY <1>1, <1>2, <1>3, <1>4, <1>5, <1>7, Typed, Calls DEF At1, Stored, PromiseInv,
     FutureInv, Counted, Moves, Destructs
<1>14. Notified(s)'
  BY <1>1, <1>2, <1>3, <1>4, <1>5, <1>7, Typed, Calls DEF At1, Notified, Moves
<1>. QED
  BY <1>1, <1>6, <1>8, <1>9, <1>10, <1>11, <1>12, <1>13, <1>14, Elsewhere DEF FInv, At1

-----------------------------------------------------------------------------
(* Waking the others, and the reference a call gives back *)

\* A thread that is woken stays in its call.
LEMMA WokenCall ==
  ASSUME NEW d \in Call
  PROVE  LET e == [d EXCEPT !.pc = "woken"] IN
         e \in Call /\ e.pc = "woken" /\ e.state = d.state /\ e.next = d.next
  BY DEF Call

\* Every thread that waits for the state is awake afterwards.
LEMMA NotifyKeeps ==
  ASSUME FInv, NEW p \in Procs, NEW s \in States, s = proc[p].state, Notify(p)
  PROVE  FInv'
<1> DEFINE c == IF proc[p].next = "release" THEN At("release", s, "none") ELSE User
           woken(q) == [proc[q] EXCEPT !.pc = "woken"]
<1>1. TypeOK /\ PlacesInv /\ \A r \in States : At1(r)
  BY DEF FInv
<1>2. /\ proc[p].pc = "notify"
      /\ waiting' = [waiting EXCEPT ![s] = {}]
      /\ proc' = [q \in Procs |-> IF q = p THEN c
                                  ELSE IF q \in waiting[s] THEN woken(q) ELSE proc[q]]
      /\ UNCHANGED <<alive, kind, hasValue, references, ready, future_retrieved, error,
                     exception, storage, prom, fut, inside>>
  BY DEF Notify
<1>3. /\ c \in Call
      /\ proc[p].next = "release" => c.pc = "release" /\ c.state = s /\ c.next = "none"
      /\ proc[p].next # "release" => c = User
  BY AtCall, Calls
<1>4. /\ p \in Threads => proc[p].next \in {"user", "release"}
      /\ p \notin Threads => p = s /\ proc[p].next = "release"
  <2>1. CASE p \in Threads
    BY <1>1, <1>2, <2>1, Calls DEF PlacesInv, ThreadCall
  <2>2. CASE p \in States
    BY <1>1, <1>2, <2>2, Calls, Typed DEF PlacesInv, AsyncCall
  <2>. QED
    BY <2>1, <2>2 DEF Procs
<1>5. ASSUME NEW q \in waiting[s]
      PROVE  /\ q \in Threads /\ q \in Procs /\ q # p /\ proc[q].pc = "wait" /\ proc[q].state = s
             /\ proc[q].next \in {"get", "wait", "timed"} /\ fut[s]
  <2>1. q \in Threads /\ q \in Procs
    BY <1>1, Typed
  <2>2. proc[q].state = s /\ proc[q].pc = "wait" /\ fut[s]
    BY <1>1, <2>1 DEF At1, FutureInv
  <2>3. proc[q].next \in {"get", "wait", "timed"}
    BY <1>1, <2>1, <2>2, Calls DEF PlacesInv, ThreadCall
  <2>. QED
    BY <1>2, <2>1, <2>2, <2>3
<1> HIDE DEF c
<1>6. proc'[p] = c
  BY <1>2
<1>7. ASSUME NEW q \in waiting[s]
      PROVE  /\ proc'[q] \in Call /\ proc'[q].pc = "woken" /\ proc'[q].state = s
             /\ proc'[q].next = proc[q].next
  <2>1. proc'[q] = woken(q) /\ proc[q] \in Call
    BY <1>1, <1>2, <1>5, Typed
  <2>. QED
    BY <1>5, <2>1, WokenCall
<1>8. \A q \in Procs : q # p /\ q \notin waiting[s] => proc'[q] = proc[q]
  BY <1>2
<1>9. \A q \in Procs \ Threads : q # p => proc'[q] = proc[q]
  BY <1>5, <1>8
<1>10. TypeOK'
  <2>1. \A q \in Procs : proc'[q] \in Call
    BY <1>1, <1>3, <1>6, <1>7, <1>8, Typed
  <2>2. proc' \in [Procs -> Call]
    BY <1>2, <2>1
  <2>3. waiting' \in [States -> SUBSET Threads]
    BY <1>1, <1>2, Typed
  <2>. QED
    BY <1>1, <1>2, <2>2, <2>3, Typed DEF TypeOK
<1>11. PlacesInv'
  <2>1. ASSUME NEW u \in Threads PROVE ThreadCall(proc'[u])
    <3>1. CASE u = p
      BY <1>3, <1>4, <1>6, <3>1 DEF ThreadCall
    <3>2. CASE u \in waiting[s]
      BY <1>5, <1>7, <3>2 DEF ThreadCall
    <3>3. CASE u # p /\ u \notin waiting[s]
      <4>1. proc'[u] = proc[u]
        BY <1>1, <1>8, <3>3, Typed
      <4>. QED
        BY <1>1, <4>1 DEF PlacesInv
    <3>. QED
      BY <3>1, <3>2, <3>3
  <2>2. ASSUME NEW r \in States PROVE AsyncCall(r, proc'[r])
    <3>1. CASE r = p
      BY <1>1, <1>3, <1>4, <1>6, <3>1, Typed DEF AsyncCall
    <3>2. CASE r # p
      <4>1. proc'[r] = proc[r]
        BY <1>1, <1>9, <3>2, Typed
      <4>. QED
        BY <1>1, <4>1 DEF PlacesInv
    <3>. QED
      BY <3>1, <3>2
  <2>. QED
    BY <2>1, <2>2 DEF PlacesInv
<1>12. ASSUME NEW r \in States \ {s} PROVE Untouched(r)
  <2>1. ASSUME NEW q \in Procs, proc[q].state = r \/ proc'[q].state = r
        PROVE  proc'[q] = proc[q]
    <3>1. q # p
      BY <1>1, <1>3, <1>6, <2>1, Typed, Calls
    <3>2. q \notin waiting[s]
      BY <1>5, <1>7, <2>1
    <3>. QED
      BY <1>8, <3>1, <3>2
  <2>. QED
    BY <1>1, <1>2, <2>1, Typed DEF Untouched
<1>13. PromiseInv(s)'
  <2>1. ASSUME NEW u \in Threads, proc'[u].state = s, proc'[u].next = "user"
        PROVE  proc[u].state = s /\ proc[u].next = "user"
    <3>1. u # p
      BY <1>3, <1>6, <2>1, Calls
    <3>2. u \notin waiting[s]
      BY <1>5, <1>7, <2>1
    <3>. QED
      BY <1>1, <1>8, <2>1, <3>1, <3>2, Typed
  <2>2. proc'[s].pc \in {"function", "caught"} => proc'[s] = proc[s]
    BY <1>1, <1>3, <1>6, <1>9, Typed, Calls
  <2>. QED
    BY <1>1, <1>2, <2>1, <2>2 DEF At1, PromiseInv
<1>14. FutureInv(s)'
  <2>1. waiting'[s] = {}
    BY <1>1, <1>2, Typed
  <2>2. ASSUME NEW u \in Threads, proc'[u].state = s, proc'[u].pc \in InFuture
        PROVE  /\ proc[u].state = s /\ proc[u].pc \in InFuture
               /\ proc'[u].pc = "woken" \/ (proc'[u] = proc[u] /\ u \notin waiting[s])
    <3>1. u # p
      BY <1>3, <1>6, <2>2, Calls DEF InFuture
    <3>2. CASE u \in waiting[s]
      BY <1>5, <1>7, <3>2 DEF InFuture
    <3>3. CASE u \notin waiting[s]
      BY <1>1, <1>8, <2>2, <3>1, <3>3, Typed
    <3>. QED
      BY <3>2, <3>3
  <2>3. Destructs(s)' = Destructs(s)
    BY <1>2 DEF Destructs
  <2>4. fut'[s] => future_retrieved'[s] \/ kind'[s] = "async"
    BY <1>1, <1>2 DEF At1, FutureInv
  <2>5. ASSUME NEW u \in Threads, proc'[u].state = s
        PROVE  /\ proc'[u].pc \in {"wait", "woken", "take"} => fut'[s]
               /\ proc'[u].pc = "take" => ready'[s]
               /\ proc'[u].pc \in {"destroy", "reset"} =>
                    /\ ~fut'[s] /\ (future_retrieved'[s] \/ kind'[s] = "async")
                    /\ Destructs(s)'
               /\ u \in waiting'[s] <=> proc'[u].pc = "wait"
    <3>1. CASE proc'[u].pc \notin InFuture
      BY <2>1, <3>1 DEF InFuture
    <3>2. CASE proc'[u].pc = "woken"
      <4>1. proc[u].state = s /\ proc[u].pc \in {"wait", "woken"}
        <5>1. CASE u \in waiting[s]
          BY <1>5, <5>1
        <5>2. CASE u \notin waiting[s]
          <6>1. u # p
            BY <1>3, <1>6, <3>2, Calls
          <6>2. proc'[u] = proc[u]
            BY <1>1, <1>8, <5>2, <6>1, Typed
          <6>. QED
            BY <2>5, <3>2, <6>2
        <5>. QED
          BY <5>1, <5>2
      <4>. QED
        BY <1>1, <1>2, <2>1, <3>2, <4>1 DEF At1, FutureInv
    <3>3. CASE proc'[u].pc \in InFuture /\ proc'[u] = proc[u] /\ u \notin waiting[s]
      BY <1>1, <1>2, <2>1, <2>3, <2>5, <3>3 DEF At1, FutureInv
    <3>. QED
      BY <2>2, <2>5, <3>1, <3>2, <3>3
  <2>6. ASSUME NEW t \in Threads, NEW u \in Threads, proc'[t].state = s, proc'[u].state = s,
               proc'[t].pc \in InFuture, proc'[u].pc \in InFuture
        PROVE  t = u
    <3>1. /\ proc[t].state = s /\ proc[t].pc \in InFuture
          /\ proc[u].state = s /\ proc[u].pc \in InFuture
      BY <2>2, <2>6
    <3>. QED
      BY <1>1, <3>1 DEF At1, FutureInv
  <2>. QED
    BY <2>1, <2>4, <2>5, <2>6 DEF FutureInv
<1>15. Counted(s)'
  <2>1. ASSUME NEW q \in Procs
        PROVE  /\ proc'[q].state = s => proc[q].state = s
               /\ q \in Releasing(s)' <=> q \in Releasing(s)
    <3>1. CASE q = p
      BY <1>1, <1>2, <1>3, <1>4, <1>6, <3>1, Calls, Typed DEF Releasing
    <3>2. CASE q \in waiting[s]
      BY <1>1, <1>5, <1>7, <3>2, Typed DEF Releasing
    <3>3. CASE q # p /\ q \notin waiting[s]
      BY <1>8, <3>3 DEF Releasing
    <3>. QED
      BY <3>1, <3>2, <3>3
  <2>2. Releasing(s)' = Releasing(s)
    BY <2>1 DEF Releasing
  <2>. QED
    BY <1>1, <1>2, <2>1, <2>2 DEF At1, Counted
<1>16. Stored(s)'
  <2>1. Destructs(s)' = Destructs(s)
    BY <1>2 DEF Destructs
  <2>2. ASSUME NEW u \in Threads
        PROVE  (proc'[u].pc = "reset" /\ proc'[u].state = s)
                 <=> (proc[u].pc = "reset" /\ proc[u].state = s)
    <3>1. CASE u = p
      BY <1>2, <1>3, <1>6, <3>1, Calls
    <3>2. CASE u \in waiting[s]
      BY <1>5, <1>7, <3>2
    <3>3. CASE u # p /\ u \notin waiting[s]
      BY <1>1, <1>8, <3>3, Typed
    <3>. QED
      BY <3>1, <3>2, <3>3
  <2>. QED
    BY <1>1, <1>2, <2>1, <2>2 DEF At1, Stored
<1>17. Notified(s)'
  BY <1>1, <1>2, Typed DEF Notified
<1>. QED
  BY <1>1, <1>10, <1>11, <1>12, <1>13, <1>14, <1>15, <1>16, <1>17, Elsewhere DEF FInv,
     At1

\* A call gives its reference back; the last one deletes the state.
LEMMA ReleaseKeeps ==
  ASSUME FInv, NEW p \in Procs, NEW s \in States, s = proc[p].state, Release(p)
  PROVE  FInv'
<1> DEFINE c == Back(p)
<1>1. TypeOK /\ PlacesInv /\ \A r \in States : At1(r)
  BY DEF FInv
<1>2. /\ c \in Call /\ c.state = None /\ c.pc \in {"none", "user"} /\ c.next = "none"
      /\ p \in Threads => c = User
      /\ p \notin Threads => c = Ended
  BY Calls DEF Back
<1>3. /\ proc[p].pc = "release"
      /\ references' = [references EXCEPT ![s] = @ - 1]
      /\ alive' = [alive EXCEPT ![s] = @ /\ references[s] # 1]
      /\ storage' = [storage EXCEPT ![s] = IF references[s] = 1 /\ Destructs(s) THEN "raw" ELSE @]
      /\ proc' = [proc EXCEPT ![p] = c]
      /\ UNCHANGED <<kind, hasValue, ready, future_retrieved, error, exception,
                     prom, fut, waiting, inside>>
  BY DEF Release
<1> HIDE DEF c
<1>4. /\ p \in Releasing(s) /\ alive[s] /\ references[s] \in Nat
      /\ p \in Threads \/ p = s
  BY <1>1, <1>3, Releasers, Typed DEF At1, Counted, Releasing
<1>5. Cardinality(Releasing(s) \ {p}) = Cardinality(Releasing(s)) - 1
      /\ Cardinality(Releasing(s) \ {p}) \in Nat /\ Cardinality(Releasing(s)) \in Nat
  BY <1>1, <1>4, Releasers, FS_RemoveElement, FS_CardinalityType, FS_Subset
<1>6. references[s] > 0
  BY <1>1, <1>4 DEF At1, Counted
<1>7. ASSUME references[s] = 1
      PROVE  ~prom[s] /\ ~fut[s] /\ \A q \in Procs \ {p} : proc[q].state # s
  <2>1. ~prom[s] /\ ~fut[s] /\ Cardinality(Releasing(s) \ {p}) = 0
    BY <1>1, <1>5, <1>7 DEF At1, Counted
  <2>2. Releasing(s) \ {p} = {}
    BY <1>1, <2>1, Releasers, FS_Subset, FS_EmptySet
  <2>3. ASSUME NEW q \in Procs \ {p}, proc[q].state = s
        PROVE  FALSE
    <3>1. q \notin Releasing(s)
      BY <2>2
    <3>2. q \in Threads
      BY <2>3, <3>1 DEF Releasing, Procs
    <3>3. proc[q].next # "user" /\ proc[q].pc \notin {"wait", "woken", "take"}
      BY <1>1, <2>1, <2>3, <3>2 DEF At1, PromiseInv, FutureInv
    <3>. QED
      BY <1>1, <2>3, <3>1, <3>2, <3>3, Calls, Typed DEF PlacesInv, ThreadCall, Releasing
  <2>. QED
    BY <2>1, <2>3
<1>8. TypeOK'
  <2>1. alive' \in [States -> BOOLEAN]
    BY <1>1, <1>2, <1>3, Typed
  <2>2. references' \in [States -> Nat]
    BY <1>1, <1>3, <1>6, Typed
  <2>3. storage' \in [States -> {"raw", "built", "moved"}]
    BY <1>1, <1>2, <1>3, Typed
  <2>4. proc' \in [Procs -> Call]
    BY <1>1, <1>2, <1>3, Typed
  <2>. QED
    BY <1>1, <1>3, <2>1, <2>2, <2>3, <2>4, Typed DEF TypeOK
<1>9. Moves(p, c)
  BY <1>1, <1>2, <1>3, Typed DEF Moves
<1>10. PlacesInv'
  <2>1. IF p \in Threads THEN ThreadCall(c) ELSE AsyncCall(p, c)
    BY <1>2 DEF ThreadCall, AsyncCall
  <2>2. ASSUME NEW u \in Threads PROVE ThreadCall(proc'[u])
    <3>1. CASE u = p
      BY <1>9, <2>1, <3>1 DEF Moves
    <3>2. CASE u # p
      <4>1. proc'[u] = proc[u]
        BY <1>1, <1>9, <3>2, Typed DEF Moves
      <4>. QED
        BY <1>1, <4>1 DEF PlacesInv
    <3>. QED
      BY <3>1, <3>2
  <2>3. ASSUME NEW r \in States PROVE AsyncCall(r, proc'[r])
    <3>1. CASE r = p
      BY <1>1, <1>9, <2>1, <3>1, Typed DEF Moves
    <3>2. CASE r # p
      <4>1. proc'[r] = proc[r]
        BY <1>1, <1>9, <3>2, Typed DEF Moves
      <4>. QED
        BY <1>1, <4>1 DEF PlacesInv
    <3>. QED
      BY <3>1, <3>2
  <2>. QED
    BY <2>2, <2>3 DEF PlacesInv
<1>11. ASSUME NEW r \in States \ {s} PROVE Untouched(r)
  <2>1. \A q \in Procs : proc[q].state = r \/ proc'[q].state = r => proc'[q] = proc[q]
    BY <1>1, <1>2, <1>3, <1>4, <1>9, Typed, Calls DEF InFuture, Moves
  <2>2. ASSUME NEW u \in Threads, NEW i \in 1 .. Len(inside'[u]), inside'[u][i] = r
        PROVE  \E j \in 1 .. Len(inside[u]) : inside[u][j] = r
    BY <1>3, <2>2, Typed
  <2>. QED
    BY <1>1, <1>3, <2>1, <2>2, Typed DEF Untouched
<1>12. PromiseInv(s)'
  <2>1. prom'[s] => kind'[s] # "async"
    BY <1>1, <1>2, <1>3, <1>4, <1>9, Typed DEF At1, PromiseInv, Moves
  <2>2. ASSUME NEW u \in Threads, NEW i \in 1 .. Len(inside'[u]), inside'[u][i] = s
        PROVE  prom'[s]
    BY <1>1, <1>3, <2>2 DEF At1, PromiseInv
  <2>3. \A u \in Threads : proc'[u].state = s /\ proc'[u].next = "user" => prom'[s]
    BY <1>1, <1>2, <1>3, <1>4, <1>9, Typed, Calls DEF At1, PromiseInv, Moves
  <2>4. proc'[s].pc \in {"function", "caught"} => kind'[s] = "async" /\ ~ready'[s]
    BY <1>1, <1>2, <1>3, <1>4, <1>9, Typed, Calls DEF At1, PromiseInv, Moves
  <2>5. ~ready'[s] => ~error'[s] /\ ~exception'[s]
    BY <1>1, <1>2, <1>3, <1>4, <1>9, Typed DEF At1, PromiseInv, FutureInv, Destructs,
       Moves
  <2>. QED
    BY <2>1, <2>2, <2>3, <2>4, <2>5 DEF PromiseInv
<1>13. FutureInv(s)'
  BY <1>1, <1>2, <1>3, <1>4, <1>9, Typed, Calls DEF At1, PromiseInv, FutureInv, Moves,
     InFuture, Destructs
<1>14. Counted(s)'
  <2>1. Releasing(s)' = Releasing(s) \ {p}
    BY <1>1, <1>2, <1>3, <1>4, <1>9, Typed DEF Releasing, Moves
  <2>2. references'[s] = references[s] - 1 /\ (alive'[s] <=> references[s] # 1)
    BY <1>1, <1>3, <1>4, Typed
  <2>3. references'[s] = Cardinality(Releasing(s)') + (IF prom'[s] THEN 1 ELSE 0)
                                                  + (IF fut'[s] THEN 1 ELSE 0)
    BY <1>1, <1>3, <1>4, <1>5, <2>1, <2>2 DEF At1, Counted
  <2>4. alive'[s] <=> references'[s] > 0
    <3>1. references[s] # 1 <=> references'[s] > 0
      BY <1>4, <1>6, <2>2
    <3>. QED
      BY <2>2, <3>1
  <2>5. prom'[s] \/ fut'[s] \/ (\E q \in Procs : proc'[q].state = s) => alive'[s]
    <3>1. \A q \in Procs : proc'[q].state = s => q # p /\ proc[q].state = s
      BY <1>1, <1>2, <1>9, Typed DEF Moves
    <3>. QED
      BY <1>3, <1>7, <2>2, <3>1
  <2>. QED
    BY <2>3, <2>4, <2>5 DEF Counted
<1>15. Stored(s)'
  <2>1. Destructs(s)' = Destructs(s)
    BY <1>3 DEF Destructs
  <2>2. \A u \in Threads : (proc'[u].pc = "reset" /\ proc'[u].state = s)
                             <=> (proc[u].pc = "reset" /\ proc[u].state = s)
    BY <1>1, <1>2, <1>3, <1>4, <1>9, Typed DEF Moves
  <2>3. CASE references[s] = 1
    <3>1. storage'[s] = (IF Destructs(s) THEN "raw" ELSE storage[s]) /\ ~alive'[s]
      BY <1>1, <1>3, <2>3, Typed
    <3>. QED
      BY <1>1, <3>1 DEF At1, Stored
  <2>4. CASE references[s] # 1
    <3>1. storage'[s] = storage[s] /\ alive'[s] = alive[s]
      BY <1>1, <1>3, <1>4, <2>4, Typed
    <3>. QED
      BY <1>1, <2>1, <2>2, <3>1 DEF At1, Stored
  <2>. QED
    BY <2>3, <2>4
<1>16. Notified(s)'
  BY <1>1, <1>2, <1>3, <1>4, <1>9, Typed, Calls DEF At1, Notified, Moves
<1>. QED
  BY <1>1, <1>8, <1>10, <1>11, <1>12, <1>13, <1>14, <1>15, <1>16, Elsewhere DEF FInv,
     At1

-----------------------------------------------------------------------------
(* The theorems *)

\* Nothing is allocated at first.
LEMMA FInitially ==
  ASSUME Init
  PROVE  FInv
<1>1. TypeOK
  <2>1. proc \in [Procs -> Call]
    BY Calls DEF Init
  <2>2. inside \in [Threads -> Seq(States)] /\ waiting \in [States -> SUBSET Threads]
    BY DEF Init
  <2>. QED
    BY <2>1, <2>2 DEF Init, TypeOK
<1>2. PlacesInv
  BY <1>1, Typed DEF Init, PlacesInv, ThreadCall, AsyncCall
<1>3. ASSUME NEW s \in States PROVE At1(s)
  <2>1. /\ ~prom[s] /\ ~fut[s] /\ ~alive[s] /\ references[s] = 0 /\ storage[s] = "raw"
        /\ ~ready[s] /\ ~error[s] /\ ~exception[s] /\ waiting[s] = {}
        /\ \A t \in Threads : Len(inside[t]) = 0
    BY DEF Init
  <2>2. \A p \in Procs : proc[p].state # s /\ proc[p].pc \in {"none", "user"}
    BY <1>1, Typed, Calls DEF Init
  <2>3. Releasing(s) = {}
    BY <2>2 DEF Releasing
  <2>4. Cardinality(Releasing(s)) = 0
    BY <2>3, FS_EmptySet
  <2>5. PromiseInv(s)
    <3>1. \A t \in Threads : 1 .. Len(inside[t]) = {}
      BY <2>1
    <3>2. \A t \in Threads : proc[t].state # s
      BY <1>1, <2>2, Typed
    <3>3. proc[s].pc \in {"none", "user"}
      BY <1>1, <2>2, Typed
    <3>. QED
      BY <2>1, <3>1, <3>2, <3>3 DEF PromiseInv
  <2>6. FutureInv(s)
    BY <1>1, <2>1, <2>2, Typed DEF FutureInv
  <2>7. Counted(s) /\ Stored(s) /\ Notified(s)
    BY <2>1, <2>2, <2>4 DEF Counted, Stored, Notified, Destructs
  <2>. QED
    BY <2>5, <2>6, <2>7 DEF At1
<1>. QED
  BY <1>1, <1>2, <1>3 DEF FInv

\* A thread that is in a call is in a call of some state.
LEMMA InACall ==
  ASSUME FInv, NEW p \in Procs, proc[p].pc \notin {"none", "user"}
  PROVE  proc[p].state \in States
<1>1. CASE p \in Threads
  BY <1>1, Calls DEF FInv, PlacesInv, ThreadCall
<1>2. CASE p \in States
  BY <1>2, Calls DEF FInv, PlacesInv, AsyncCall
<1>. QED
  BY <1>1, <1>2 DEF Procs

\* Every step keeps the invariant.
LEMMA FStep ==
  ASSUME FInv, [Next]_vars
  PROVE  FInv'
<1>1. CASE UNCHANGED vars
  <2>1. TypeOK' /\ PlacesInv'
    BY <1>1 DEF FInv, vars, TypeOK, PlacesInv
  <2>2. ASSUME NEW s \in States PROVE At1(s)'
    <3>1. Untouched(s)
      BY <1>1 DEF vars, Untouched
    <3>. QED
      BY <2>1, <3>1, Elsewhere DEF FInv
  <2>. QED
    BY <2>1, <2>2 DEF FInv
<1>2. CASE Next
  <2>1. ASSUME NEW t \in Threads, UserCall(t)
        PROVE  FInv'
    <3>1. CASE TaskReturn(t)
      BY <3>1, TaskReturnKeeps
    <3>2. ASSUME NEW s \in States,
                 \/ NewPromise(t, s) \/ Async(t, s) \/ GetFuture(t, s)
                 \/ Set(t, s) \/ TaskCall(t, s) \/ DropPromise(t, s) \/ DropFuture(t, s)
          PROVE  FInv'
      BY <3>2, NewPromiseKeeps, AsyncKeeps, GetFutureKeeps, SetKeeps, TaskCallKeeps,
         DropPromiseKeeps, DropFutureKeeps
    <3>3. ASSUME NEW s \in States, NEW op \in {"get", "wait", "timed"}, Wait(t, s, op)
          PROVE  FInv'
      BY <3>3, WaitKeeps
    <3>. QED
      BY <2>1, <3>1, <3>2, <3>3 DEF UserCall
  <2>2. ASSUME NEW t \in Threads, WakeUnasked(t) \/ ProceedFuture(t)
        PROVE  FInv'
    <3>1. /\ t \in Procs /\ proc[t].pc \notin {"none", "user"}
      BY <2>2 DEF Procs, WakeUnasked, ProceedFuture, LookAgain, Take, DestroyValue,
         ResetReady
    <3>2. proc[t].state \in States
      BY <3>1, InACall
    <3>. QED
      BY <2>2, <3>2, WakeUnaskedKeeps, LookAgainKeeps, TakeKeeps, DestroyValueKeeps,
         ResetReadyKeeps DEF ProceedFuture
  <2>3. ASSUME NEW p \in Procs, Proceed(p)
        PROVE  FInv'
    <3>1. proc[p].pc \notin {"none", "user"}
      BY <2>3 DEF Proceed, Caught, Notify, Release
    <3>2. proc[p].state \in States
      BY <3>1, InACall
    <3>. QED
      BY <2>3, <3>2, CaughtKeeps, NotifyKeeps, ReleaseKeeps DEF Proceed
  <2>4. ASSUME NEW s \in States, AsyncReturn(s)
        PROVE  FInv'
    BY <2>4, AsyncReturnKeeps
  <2>. QED
    BY <1>2, <2>1, <2>2, <2>3, <2>4 DEF Next
<1>. QED
  BY <1>1, <1>2

\* The invariant holds.
LEMMA FInvariant == Spec => []FInv
<1>1. Init => FInv
  BY FInitially
<1>2. FInv /\ [Next]_vars => FInv'
  BY FStep
<1>. QED
  BY <1>1, <1>2, PTL DEF Spec

\* StatesExact, for any number of threads and shared states: the reference count of
\* a __state is the number of its handles and of the calls that have yet to release
\* it; the T in its storage is destroyed once, by get or by ~__state; and a thread that
\* sleeps on a state that is ready is about to be notified.
THEOREM FuturesAreExact == Spec => []StatesExact
<1>1. FInv => StatesExact
  <2>1. FInv => RefsExact
    BY DEF FInv, At1, Counted, RefsExact
  <2>2. FInv => StorageExact
    BY DEF FInv, At1, Stored, StorageExact
  <2>3. FInv => NoLostWakeup
    BY DEF FInv, At1, Notified, NoLostWakeup
  <2>. QED
    BY <2>1, <2>2, <2>3 DEF FInv, StatesExact
<1>. QED
  BY <1>1, FInvariant, PTL

\* The outcome of one state in one step.
LEMMA OutcomeStep ==
  ASSUME FInv, [Next]_vars, NEW s \in States, ready[s], ready'[s], alive'[s]
  PROVE  /\ error'[s] = error[s]
         /\ exception'[s] = exception[s]
         /\ storage'[s] # storage[s] => \E t \in Threads : proc[t].pc \in {"take", "destroy"}
<1> DEFINE Goal == /\ error'[s] = error[s] /\ exception'[s] = exception[s]
                   /\ \/ storage'[s] = storage[s]
                      \/ \E t \in Threads : proc[t].pc \in {"take", "destroy"}
<1>. SUFFICES Goal
  OBVIOUS
<1>1. TypeOK
  BY DEF FInv
<1>2. ASSUME NEW r \in States, StoreValue(r) \/ StoreException(r)
      PROVE  Goal
  <2>1. r # s
    BY <1>2 DEF StoreValue, StoreException, MaySatisfy
  <2>. QED
    BY <1>1, <1>2, <2>1, Typed DEF StoreValue, StoreException
<1>3. ASSUME UNCHANGED <<error, exception, storage>>
      PROVE  Goal
  BY <1>3
<1>4. ASSUME NEW r \in States, NEW k, NEW v, NEW n, New(r, k, v, n)
      PROVE  Goal
  <2>1. r # s
    BY <1>1, <1>4, Typed DEF New
  <2>. QED
    BY <1>1, <1>4, <2>1, Typed DEF New
<1>5. ASSUME NEW t \in Threads, UserCall(t)
      PROVE  Goal
  <2>1. CASE TaskReturn(t)
    <3>1. Head(inside[t]) \in States
      BY <2>1, Innermost DEF TaskReturn
    <3>. QED
      BY <1>2, <1>3, <2>1, <3>1 DEF TaskReturn, FunctionEnds
  <2>2. ASSUME NEW r \in States, NewPromise(t, r) \/ Async(t, r)
        PROVE  Goal
    BY <1>4, <2>2 DEF NewPromise, Async
  <2>3. ASSUME NEW r \in States, Set(t, r)
        PROVE  Goal
    BY <1>2, <2>3 DEF Set
  <2>4. ASSUME NEW r \in States, DropPromise(t, r)
        PROVE  Goal
    <3>1. error'[s] = error[s]
      BY <1>1, <2>4, Typed DEF DropPromise
    <3>. QED
      BY <2>4, <3>1 DEF DropPromise
  <2>5. ASSUME NEW r \in States,
               \/ GetFuture(t, r) \/ TaskCall(t, r) \/ DropFuture(t, r)
               \/ \E op \in {"get", "wait", "timed"} : Wait(t, r, op)
        PROVE  Goal
    BY <1>3, <2>5 DEF GetFuture, TaskCall, DropFuture, Wait
  <2>. QED
    BY <1>5, <2>1, <2>2, <2>3, <2>4, <2>5 DEF UserCall
<1>6. ASSUME NEW t \in Threads, WakeUnasked(t) \/ LookAgain(t) \/ ResetReady(t)
      PROVE  Goal
  BY <1>3, <1>6 DEF WakeUnasked, LookAgain, ResetReady
<1>7. ASSUME NEW t \in Threads, Take(t) \/ DestroyValue(t)
      PROVE  Goal
  BY <1>7 DEF Take, DestroyValue
<1>8. ASSUME NEW p \in Procs, Proceed(p)
      PROVE  Goal
  <2>1. CASE Caught(p)
    <3>1. proc[p].state \in States
      BY <2>1, InACall DEF Caught
    <3>. QED
      BY <1>2, <1>3, <2>1, <3>1 DEF Caught
  <2>2. CASE Notify(p)
    BY <1>3, <2>2 DEF Notify
  <2>3. CASE Release(p)
    <3>1. proc[p].state \in States
      BY <2>3, InACall DEF Release
    <3>2. storage'[s] = storage[s]
      BY <1>1, <2>3, <3>1, Typed DEF Release
    <3>. QED
      BY <2>3, <3>2 DEF Release
  <2>. QED
    BY <1>8, <2>1, <2>2, <2>3 DEF Proceed
<1>9. ASSUME NEW r \in States, AsyncReturn(r)
      PROVE  Goal
  BY <1>2, <1>3, <1>9 DEF AsyncReturn, FunctionEnds
<1>10. CASE UNCHANGED vars
  BY <1>3, <1>10 DEF vars
<1>11. CASE Next
  BY <1>5, <1>6, <1>7, <1>8, <1>9, <1>11 DEF Next, ProceedFuture
<1>. QED
  BY <1>10, <1>11

\* OutcomeStable, for any number of threads and shared states: once a state is ready,
\* no set_value, exception or ~promise that comes late changes its outcome.
THEOREM OutcomesAreStable == Spec => OutcomeStable
<1> DEFINE Stable == \A s \in States : ready[s] /\ ready'[s] /\ alive'[s] =>
       /\ error'[s] = error[s]
       /\ exception'[s] = exception[s]
       /\ storage'[s] # storage[s] => \E t \in Threads : proc[t].pc \in {"take", "destroy"}
<1>1. FInv /\ [Next]_vars => Stable
  BY OutcomeStep
<1>2. FInv /\ [Next]_vars => [Stable]_vars
  BY <1>1
<1>. QED
  BY <1>2, FInvariant, PTL DEF Spec, OutcomeStable

=============================================================================
