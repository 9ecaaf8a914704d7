------------------------------ MODULE SharedPtr ------------------------------
(***************************************************************************)
(* shared_ptr, weak_ptr and enable_shared_from_this (include/memory): the  *)
(* control block's two counts, which threads change one atomic operation   *)
(* at a time, and the destruction of an object, which releases the         *)
(* pointers the object holds and so may destroy more objects.              *)
(*                                                                         *)
(* Every thread has its own strong and weak pointer variables ("individual *)
(* pointer objects still must not be concurrently mutated"); one more      *)
(* strong pointer is shared and reached by atomic_load and atomic_store    *)
(* only.  An object has one shared_ptr member, set when it is built, and   *)
(* derives from enable_shared_from_this.  An object and its control block  *)
(* have one name, which is free again when the control block is deleted.   *)
(*                                                                         *)
(* dec sets a variable to null when the release it calls is back, so the   *)
(* destructors of that release run while the variable still shows the      *)
(* pointer it has given up.  They may make shared_ptrs of what they find:  *)
(* of other variables, of weak_ptrs and of their own object.               *)
(***************************************************************************)
EXTENDS Integers, Sequences, FiniteSets

CONSTANTS
  Threads,
  Ctrls,      \* names of objects and their control blocks
  None,       \* the null pointer
  NumStrong,  \* shared_ptr variables of each thread
  NumWeak,    \* weak_ptr variables of each thread
  SelfOwned,  \* may the right side of an assignment be inside an object that
              \* is reached through the left side alone, as in head = head->next?
  ReadsReleased  \* may a destructor copy the variable whose release has started it?

ASSUME SharedPtrAssumption ==
  /\ None \notin Threads \cup Ctrls
  /\ IsFiniteSet(Threads) /\ IsFiniteSet(Ctrls)
  /\ NumStrong \in Nat \ {0}
  /\ NumWeak \in Nat
  /\ SelfOwned \in BOOLEAN
  /\ ReadsReleased \in BOOLEAN

VARIABLES
  count,       \* [Ctrls -> Nat]  __sp_ctrl::count
  weak_count,  \* [Ctrls -> Nat]  __sp_ctrl::weak_count
  life,        \* [Ctrls -> "none": no block | "live": the object too |
               \*           "dying": in its destructor | "dead": block only]
  member,      \* [Ctrls -> Ctrls or None]  the object's shared_ptr member
  esft,        \* [Ctrls -> BOOLEAN]  its enable_shared_from_this::ctrl_ is set
  sp,          \* [Threads -> [1..NumStrong -> Ctrls or None]]  shared_ptr::ctrl_
  wp,          \* [Threads -> [1..NumWeak -> Ctrls or None]]    weak_ptr::ctrl_
  slot,        \* the shared_ptr that all threads share
  spin,        \* the thread that holds __shared_ptr_atomic_lock, or None
  dec,         \* [Threads -> Dec]  the dec of a variable under way
  call,        \* [Threads -> Call]  the other call the thread is in
  stack        \* [Threads -> Seq(Destruction)]  the destructors it runs, innermost first

vars == <<count, weak_count, life, member, esft, sp, wp, slot, spin, dec, call, stack>>

Strong == 1 .. NumStrong
Weak == 1 .. NumWeak
Ptr == Ctrls \cup {None}

\* Where a shared_ptr is: a variable of the thread, or the member of an object.
Place == [object : Ptr, var : Strong \cup {0}]

\* reset, or the half of an assignment from "from" that comes before it is read.
Dec == [kind : {"none", "reset", "assign", "move"}, to : Strong \cup {0}, from : Place]

NoDec == [kind |-> "none", to |-> 0, from |-> [object |-> None, var |-> 0]]

Call == [pc : {"idle", "cas", "convert", "load", "inc", "store", "drop"},
         to : Strong \cup {0}, ctrl : Ptr, seen : Nat]

Idle == [pc |-> "idle", to |-> 0, ctrl |-> None, seen |-> 0]

Destruction == [ctrl : Ctrls, stage : {"members", "base", "weak"}]

TypeOK ==
  /\ count \in [Ctrls -> Nat]
  /\ weak_count \in [Ctrls -> Nat]
  /\ life \in [Ctrls -> {"none", "live", "dying", "dead"}]
  /\ member \in [Ctrls -> Ptr]
  /\ esft \in [Ctrls -> BOOLEAN]
  /\ sp \in [Threads -> [Strong -> Ptr]]
  /\ wp \in [Threads -> [Weak -> Ptr]]
  /\ slot \in Ptr
  /\ spin \in Threads \cup {None}
  /\ dec \in [Threads -> Dec]
  /\ call \in [Threads -> Call]
  /\ stack \in [Threads -> Seq(Destruction)]

-----------------------------------------------------------------------------
(* The counts. *)

\* MUTANT: fetch_sub, which gives the old value, in the place of sub_fetch.
StrongReleaseFetchSub(t, c, below) ==
  /\ count' = [count EXCEPT ![c] = @ - 1]
  /\ IF count[c] = 0
     THEN /\ life' = [life EXCEPT ![c] = "dying"]
          /\ stack' = [stack EXCEPT ![t] = <<[ctrl |-> c, stage |-> "members"]>> \o below]
     ELSE /\ stack' = [stack EXCEPT ![t] = below]
          /\ UNCHANGED life

\* __sp_strong_release, one atomic step: the last owner starts the destructor.
StrongRelease(t, c, below) ==
  /\ count' = [count EXCEPT ![c] = @ - 1]
  /\ IF count[c] = 1
     THEN /\ life' = [life EXCEPT ![c] = "dying"]
          /\ stack' = [stack EXCEPT ![t] = <<[ctrl |-> c, stage |-> "members"]>> \o below]
     ELSE /\ stack' = [stack EXCEPT ![t] = below]
          /\ UNCHANGED life

\* __sp_weak_release: the last one deletes the control block.
WeakRelease(c) ==
  /\ weak_count' = [weak_count EXCEPT ![c] = @ - 1]
  /\ life' = IF weak_count[c] = 1 THEN [life EXCEPT ![c] = "none"] ELSE life

\* The thread is between two calls, and not in a destructor.
IsIdle(t) == call[t].pc = "idle" /\ dec[t].kind = "none" /\ stack[t] = <<>>

\* The thread is in the body of a destructor, whose object has its member still.
InBody(t) == /\ call[t].pc = "idle"
             /\ stack[t] # <<>> /\ Head(stack[t]).stage = "members"

Var(v) == [object |-> None, var |-> v]
MemberOf(c) == [object |-> c, var |-> 0]

Value(t, p) == IF p.object = None THEN sp[t][p.var] ELSE member[p.object]

\* The variable shows a pointer that it does not own any more.
Released(t, v) == dec[t].kind # "none" /\ dec[t].to = v

\* Objects that the thread keeps alive through a variable.
Pinned(t) == {sp[t][v] : v \in {w \in Strong : ~Released(t, w)}} \ {None}

\* Objects that lead from the variables in V over members of any number of objects.
Closed(S) == \A c \in S : member[c] # None => member[c] \in S

Reachable(t, V) ==
  {c \in Ctrls : \A S \in SUBSET Ctrls :
                  ({sp[t][v] : v \in V} \ {None}) \subseteq S /\ Closed(S) => c \in S}

Others(v) == Strong \ {v}

-----------------------------------------------------------------------------
(* Making, copying, assigning and dropping shared_ptrs *)

\* shared_ptr(new T): the object's member takes over a variable of the thread
\* or is null; __accept records the control block in the object.
Make(t, v, w) ==
  /\ IsIdle(t)
  /\ sp[t][v] = None
  /\ \E c \in Ctrls :
       /\ life[c] = "none"
       /\ life' = [life EXCEPT ![c] = "live"]
       /\ count' = [count EXCEPT ![c] = 1]
       /\ weak_count' = [weak_count EXCEPT ![c] = 2]
       /\ esft' = [esft EXCEPT ![c] = TRUE]
       /\ member' = [member EXCEPT ![c] = sp[t][w]]
       /\ sp' = [sp EXCEPT ![t] = [@ EXCEPT ![w] = None, ![v] = c]]
  /\ UNCHANGED <<wp, slot, spin, dec, call, stack>>

\* The copy constructor: inc.  A destructor may copy what it finds.
Copy(t, v, p) ==
  /\ IsIdle(t) \/ InBody(t)
  /\ sp[t][v] = None
  /\ \/ p.object = None /\ (ReadsReleased \/ ~Released(t, p.var))
     \/ p.object \in Reachable(t, {w \in Strong : ~Released(t, w)})
     \/ InBody(t) /\ p.object = Head(stack[t]).ctrl
  /\ Value(t, p) # None
  /\ sp' = [sp EXCEPT ![t][v] = Value(t, p)]
  /\ count' = [count EXCEPT ![Value(t, p)] = @ + 1]
  /\ UNCHANGED <<weak_count, life, member, esft, wp, slot, spin, dec, call, stack>>

\* dec until the release is back.  The variable still shows the pointer.
BeginDec(t, v, kind, p) ==
  /\ \/ sp[t][v] # None /\ StrongRelease(t, sp[t][v], <<>>)
     \/ sp[t][v] = None /\ UNCHANGED <<count, life, stack>>
  /\ dec' = [dec EXCEPT ![t] = [kind |-> kind, to |-> v, from |-> p]]

\* reset, operator=(nullptr_t) and the destructor.
Drop(t, v) ==
  /\ IsIdle(t)
  /\ sp[t][v] # None
  /\ BeginDec(t, v, "reset", NoDec.from)
  /\ UNCHANGED <<weak_count, member, esft, sp, wp, slot, spin, call>>

\* The release and its destructors are back: the variable is set to null.
DropDone(t) ==
  /\ dec[t].kind = "reset"
  /\ stack[t] = <<>>
  /\ sp' = [sp EXCEPT ![t][dec[t].to] = None]
  /\ dec' = [dec EXCEPT ![t] = NoDec]
  /\ UNCHANGED <<count, weak_count, life, member, esft, wp, slot, spin, call, stack>>

\* operator=(const shared_ptr&), first half: dec of the old value.
Assign(t, v, p) ==
  /\ IsIdle(t)
  /\ sp[t][v] # None
  /\ p # Var(v)
  /\ \/ p.object = None
     \/ p.object \in Reachable(t, Others(v))
     \/ SelfOwned /\ p.object \in Reachable(t, Strong)
  /\ BeginDec(t, v, "assign", p)
  /\ UNCHANGED <<weak_count, member, esft, sp, wp, slot, spin, call>>

\* Second half, when dec is back: the right side is read, and inc.
AssignRead(t) ==
  LET c == Value(t, dec[t].from) IN
  /\ dec[t].kind = "assign"
  /\ stack[t] = <<>>
  /\ sp' = [sp EXCEPT ![t][dec[t].to] = c]
  /\ count' = IF c = None THEN count ELSE [count EXCEPT ![c] = @ + 1]
  /\ dec' = [dec EXCEPT ![t] = NoDec]
  /\ UNCHANGED <<weak_count, life, member, esft, wp, slot, spin, call, stack>>

\* operator=(shared_ptr&&): dec, without a test for self-assignment.  Moving out
\* of an object's member is left to the owner of the only pointer to it.
MoveAssign(t, v, p) ==
  /\ IsIdle(t)
  /\ p.object = None \/ (SelfOwned /\ p.object \in Reachable(t, Strong))
  /\ BeginDec(t, v, "move", p)
  /\ UNCHANGED <<weak_count, member, esft, sp, wp, slot, spin, call>>

\* The right side is read and set to null.  By then dec has set the left side to
\* null, so that a variable assigned to itself is null.
MoveRead(t) ==
  LET v == dec[t].to
      p == dec[t].from
  IN
  /\ dec[t].kind = "move"
  /\ stack[t] = <<>>
  /\ IF p.object = None
     THEN /\ sp' = [sp EXCEPT ![t] = [[@ EXCEPT ![v] = sp[t][p.var]] EXCEPT ![p.var] = None]]
          /\ UNCHANGED member
     ELSE /\ sp' = [sp EXCEPT ![t][v] = member[p.object]]
          /\ member' = [member EXCEPT ![p.object] = None]
  /\ dec' = [dec EXCEPT ![t] = NoDec]
  /\ UNCHANGED <<count, weak_count, life, esft, wp, slot, spin, call, stack>>

-----------------------------------------------------------------------------
(* Destruction of an object: its destructor's body and its member, its base *)
(* enable_shared_from_this, then the weak reference of the strong owners.   *)

DestroyMembers(t) ==
  /\ stack[t] # <<>>
  /\ call[t].pc # "cas"
  /\ LET c == Head(stack[t]).ctrl
         below == <<[ctrl |-> c, stage |-> "base"]>> \o Tail(stack[t])
     IN
     /\ Head(stack[t]).stage = "members"
     /\ \/ /\ member[c] # None
           /\ StrongRelease(t, member[c], below)
        \/ /\ member[c] = None
           /\ stack' = [stack EXCEPT ![t] = below]
           /\ UNCHANGED <<count, life>>
     /\ member' = [member EXCEPT ![c] = None]
  /\ UNCHANGED <<weak_count, esft, sp, wp, slot, spin, dec, call>>

DestroyBase(t) ==
  /\ stack[t] # <<>>
  /\ LET c == Head(stack[t]).ctrl IN
     /\ Head(stack[t]).stage = "base"
     /\ weak_count' = [weak_count EXCEPT ![c] = @ - 1]
     /\ esft' = [esft EXCEPT ![c] = FALSE]
     /\ life' = [life EXCEPT ![c] = "dead"]
     /\ stack' = [stack EXCEPT ![t] =
                    <<[ctrl |-> c, stage |-> "weak"]>> \o Tail(@)]
  /\ UNCHANGED <<count, member, sp, wp, slot, spin, dec, call>>

DestroyWeak(t) ==
  /\ stack[t] # <<>>
  /\ Head(stack[t]).stage = "weak"
  /\ WeakRelease(Head(stack[t]).ctrl)
  /\ stack' = [stack EXCEPT ![t] = Tail(@)]
  /\ UNCHANGED <<count, member, esft, sp, wp, slot, spin, dec, call>>

-----------------------------------------------------------------------------
(* weak_ptr *)

MakeWeak(t, k, v) ==
  /\ IsIdle(t)
  /\ wp[t][k] = None
  /\ sp[t][v] # None
  /\ wp' = [wp EXCEPT ![t][k] = sp[t][v]]
  /\ weak_count' = [weak_count EXCEPT ![sp[t][v]] = @ + 1]
  /\ UNCHANGED <<count, life, member, esft, sp, slot, spin, dec, call, stack>>

DropWeak(t, k) ==
  /\ IsIdle(t)
  /\ wp[t][k] # None
  /\ WeakRelease(wp[t][k])
  /\ wp' = [wp EXCEPT ![t][k] = None]
  /\ UNCHANGED <<count, member, esft, sp, slot, spin, dec, call, stack>>

\* __sp_strong_add_if_live reads the count before it tries to raise it.
BeginAdd(t, v, c) ==
  call' = [call EXCEPT ![t] =
             [Idle EXCEPT !.pc = "cas", !.to = v, !.ctrl = c, !.seen = count[c]]]

Lock(t, k, v) ==
  /\ IsIdle(t) \/ InBody(t)
  /\ sp[t][v] = None
  /\ wp[t][k] # None
  /\ BeginAdd(t, v, wp[t][k])
  /\ UNCHANGED <<count, weak_count, life, member, esft, sp, wp, slot, spin, dec, stack>>

\* On an object the thread holds, or from the body of the object's destructor.
SharedFromThis(t, c, v) ==
  /\ IsIdle(t) \/ InBody(t)
  /\ sp[t][v] = None
  /\ c \in Pinned(t) \/ (InBody(t) /\ c = Head(stack[t]).ctrl)
  /\ esft[c]
  /\ BeginAdd(t, v, c)
  /\ UNCHANGED <<count, weak_count, life, member, esft, sp, wp, slot, spin, dec, stack>>

\* weak_ptr<T>(weak_ptr<U>), assigned to the variable it is made from: a weak
\* reference, and a strong one while the pointer is adjusted ("to" is 0).
Convert(t, k) ==
  /\ IsIdle(t)
  /\ wp[t][k] # None
  /\ weak_count' = [weak_count EXCEPT ![wp[t][k]] = @ + 1]
  /\ BeginAdd(t, 0, wp[t][k])
  /\ UNCHANGED <<count, life, member, esft, sp, wp, slot, spin, dec, stack>>

\* compare_exchange: is the count still the one that was seen?
\* MUTANT: the count is raised whatever it is by now.
CountIsSeenAlways(t) == TRUE

CountIsSeen(t) == count[call[t].ctrl] = call[t].seen

\* It is: raise it.  Zero is never raised.
CasSucceeds(t) ==
  LET c == call[t].ctrl  v == call[t].to IN
  /\ call[t].pc = "cas"
  /\ call[t].seen # 0
  /\ CountIsSeen(t)
  /\ count' = [count EXCEPT ![c] = @ + 1]
  /\ \/ /\ v # 0
        /\ sp' = [sp EXCEPT ![t][v] = c]
        /\ call' = [call EXCEPT ![t] = Idle]
     \/ /\ v = 0
        /\ call' = [call EXCEPT ![t].pc = "convert"]
        /\ UNCHANGED sp
  /\ UNCHANGED <<weak_count, life, member, esft, wp, slot, spin, dec, stack>>

\* Another thread changed it in between: try again with what it is now.
CasFails(t) ==
  /\ call[t].pc = "cas"
  /\ call[t].seen # 0
  /\ ~CountIsSeen(t)
  /\ call' = [call EXCEPT ![t].seen = count[call[t].ctrl]]
  /\ UNCHANGED <<count, weak_count, life, member, esft, sp, wp, slot, spin, dec, stack>>

\* MUTANT: a lock that fails gives back a weak reference it never took.
AddFailsReleases(t) ==
  /\ call[t].pc = "cas"
  /\ call[t].seen = 0
  /\ call' = [call EXCEPT ![t] = Idle]
  /\ WeakRelease(call[t].ctrl)
  /\ UNCHANGED <<count, member, esft, sp, wp, slot, spin, dec, stack>>

\* The object is gone: lock gives a null pointer, shared_from_this throws.
AddFails(t) ==
  LET c == call[t].ctrl IN
  /\ call[t].pc = "cas"
  /\ call[t].seen = 0
  /\ call' = [call EXCEPT ![t] = Idle]
  /\ \/ call[t].to # 0 /\ UNCHANGED <<weak_count, life>>
     \/ call[t].to = 0 /\ WeakRelease(c)
  /\ UNCHANGED <<count, member, esft, sp, wp, slot, spin, dec, stack>>

\* The conversion gives its strong reference back, maybe as the last owner.
ConvertRelease(t) ==
  LET c == call[t].ctrl IN
  /\ call[t].pc = "convert"
  /\ stack[t] = <<>>
  /\ \/ /\ call[t].seen # 0
        /\ StrongRelease(t, c, <<>>)
        /\ call' = [call EXCEPT ![t].seen = 0]
        /\ UNCHANGED weak_count
     \/ /\ call[t].seen = 0
        /\ WeakRelease(c)
        /\ call' = [call EXCEPT ![t] = Idle]
        /\ UNCHANGED <<count, stack>>
  /\ UNCHANGED <<member, esft, sp, wp, slot, spin, dec>>

-----------------------------------------------------------------------------
(* atomic_load and atomic_store on the shared pointer *)

\* MUTANT: atomic_load and atomic_store do not take the lock.
AcquireNot(t) == spin' = spin

Acquire(t) == spin = None /\ spin' = t
Release(t) == spin' = None

AtomicLoad(t, v) ==
  /\ IsIdle(t)
  /\ sp[t][v] = None
  /\ Acquire(t)
  /\ call' = [call EXCEPT ![t] = [Idle EXCEPT !.pc = "load", !.to = v]]
  /\ UNCHANGED <<count, weak_count, life, member, esft, sp, wp, slot, dec, stack>>

\* The copy constructor reads the pointer and then raises the count.
LoadRead(t) ==
  /\ call[t].pc = "load"
  /\ call' = [call EXCEPT ![t].pc = "inc", ![t].ctrl = slot]
  /\ UNCHANGED <<count, weak_count, life, member, esft, sp, wp, slot, spin, dec, stack>>

LoadInc(t) ==
  LET c == call[t].ctrl IN
  /\ call[t].pc = "inc"
  /\ count' = IF c = None THEN count ELSE [count EXCEPT ![c] = @ + 1]
  /\ sp' = [sp EXCEPT ![t][call[t].to] = c]
  /\ Release(t)
  /\ call' = [call EXCEPT ![t] = Idle]
  /\ UNCHANGED <<weak_count, life, member, esft, wp, slot, dec, stack>>

\* The value to store is moved into the parameter: variable v.
AtomicStore(t, v) ==
  /\ IsIdle(t)
  /\ Acquire(t)
  /\ call' = [call EXCEPT ![t] = [Idle EXCEPT !.pc = "store", !.to = v]]
  /\ UNCHANGED <<count, weak_count, life, member, esft, sp, wp, slot, dec, stack>>

StoreSwap(t) ==
  LET v == call[t].to IN
  /\ call[t].pc = "store"
  /\ slot' = sp[t][v]
  /\ sp' = [sp EXCEPT ![t][v] = slot]
  /\ Release(t)
  /\ call' = [call EXCEPT ![t].pc = "drop"]
  /\ UNCHANGED <<count, weak_count, life, member, esft, wp, dec, stack>>

\* The parameter, which holds the old value now, is destroyed without the lock.
StoreDrop(t) ==
  LET c == sp[t][call[t].to] IN
  /\ call[t].pc = "drop"
  /\ call' = [call EXCEPT ![t] = Idle]
  /\ sp' = [sp EXCEPT ![t][call[t].to] = None]
  /\ \/ c # None /\ StrongRelease(t, c, <<>>)
     \/ c = None /\ UNCHANGED <<count, life, stack>>
  /\ UNCHANGED <<weak_count, member, esft, wp, slot, spin, dec>>

-----------------------------------------------------------------------------
Init ==
  /\ count = [c \in Ctrls |-> 0]
  /\ weak_count = [c \in Ctrls |-> 0]
  /\ life = [c \in Ctrls |-> "none"]
  /\ member = [c \in Ctrls |-> None]
  /\ esft = [c \in Ctrls |-> FALSE]
  /\ sp = [t \in Threads |-> [v \in Strong |-> None]]
  /\ wp = [t \in Threads |-> [k \in Weak |-> None]]
  /\ slot = None
  /\ spin = None
  /\ call = [t \in Threads |-> Idle]
  /\ dec = [t \in Threads |-> NoDec]
  /\ stack = [t \in Threads |-> <<>>]

Places(t) == {Var(v) : v \in Strong} \cup {MemberOf(c) : c \in Ctrls}

UserCall(t) ==
  \/ \E v \in Strong :
       \/ \E w \in Strong : Make(t, v, w)
       \/ Drop(t, v)
       \/ \E p \in Places(t) : Copy(t, v, p) \/ Assign(t, v, p) \/ MoveAssign(t, v, p)
       \/ \E c \in Ctrls : SharedFromThis(t, c, v)
       \/ AtomicLoad(t, v)
       \/ AtomicStore(t, v)
       \/ \E k \in Weak : MakeWeak(t, k, v) \/ Lock(t, k, v)
  \/ \E k \in Weak : DropWeak(t, k) \/ Convert(t, k)

Proceed(t) ==
  \/ DropDone(t) \/ AssignRead(t) \/ MoveRead(t)
  \/ DestroyMembers(t) \/ DestroyBase(t) \/ DestroyWeak(t)
  \/ CasSucceeds(t) \/ CasFails(t) \/ AddFails(t)
  \/ ConvertRelease(t)
  \/ LoadRead(t) \/ LoadInc(t) \/ StoreSwap(t) \/ StoreDrop(t)

Next == \E t \in Threads : UserCall(t) \/ Proceed(t)

Spec == Init /\ [][Next]_vars

-----------------------------------------------------------------------------
(* What makes it correct. *)

Owners(c) ==
  Cardinality({tv \in Threads \X Strong : sp[tv[1]][tv[2]] = c /\ ~Released(tv[1], tv[2])})
  + Cardinality({d \in Ctrls : member[d] = c})
  + Cardinality({t \in Threads : /\ call[t].pc = "convert"
                                 /\ call[t].ctrl = c /\ call[t].seen # 0})
  + (IF slot = c THEN 1 ELSE 0)

Observers(c) ==
  Cardinality({tk \in Threads \X Weak : wp[tk[1]][tk[2]] = c})
  + Cardinality({t \in Threads : /\ call[t].pc \in {"cas", "convert"}
                                 /\ call[t].to = 0 /\ call[t].ctrl = c})
  + (IF esft[c] THEN 1 ELSE 0)

\* The one weak reference that all strong owners have together.
HasImplicit(c) ==
  \/ count[c] > 0
  \/ \E t \in Threads : \E i \in 1 .. Len(stack[t]) : stack[t][i].ctrl = c

\* The two counts are exact at every moment, with the pointers in flight inside
\* a call: an object is destroyed, and a control block deleted, by the thread
\* that gives back the last reference and no earlier, and nothing leaks.
CountsExact == TypeOK /\ \A c \in Ctrls :
    /\ count[c] = Owners(c)
    /\ weak_count[c] = Observers(c) + (IF HasImplicit(c) THEN 1 ELSE 0)
    /\ (life[c] = "live") <=> (count[c] > 0)
    /\ (life[c] = "none") <=> (weak_count[c] = 0)

\* Whatever a thread is about to touch is still there: the control block of a
\* weak_ptr and of a lock under way, the one atomic_load has read and not yet
\* counted, the object and block a destructor works on; and one thread only
\* runs the destructor of an object.
NoUseAfterFree ==
  /\ \A t \in Threads : call[t].pc \in {"cas", "convert"} => life[call[t].ctrl] # "none"
  /\ \A t \in Threads : call[t].pc = "inc" /\ call[t].ctrl # None => life[call[t].ctrl] = "live"
  /\ \A t \in Threads : \A i \in 1 .. Len(stack[t]) :
       life[stack[t][i].ctrl] = IF stack[t][i].stage = "weak" THEN "dead" ELSE "dying"
  /\ \A t, u \in Threads : \A i \in 1 .. Len(stack[t]), j \in 1 .. Len(stack[u]) :
       stack[t][i].ctrl = stack[u][j].ctrl => t = u /\ i = j

\* A lock, a conversion or shared_from_this that races with the last owner
\* never brings an object back: once its destructor has started, nobody owns it
\* until the block is deleted.
NoResurrection ==
  [][\A c \in Ctrls : life[c] \in {"dying", "dead"} =>
       /\ count'[c] = 0
       /\ life'[c] \in {"dying", "dead", "none"}
       /\ life[c] = "dead" => life'[c] # "dying"]_vars

\* An assignment reads its right side from an object that still exists.
AssignReadsLive ==
  \A t \in Threads :
    (dec[t].kind \in {"assign", "move"} /\ stack[t] = <<>> /\ dec[t].from.object # None) =>
    life[dec[t].from.object] = "live"

\* A shared_ptr points to an object that is not destroyed: what a destructor copies
\* is not the object that it destroys.
OwnedIsAlive ==
  \A t \in Threads : \A v \in Strong :
    (sp[t][v] # None /\ ~Released(t, v)) => life[sp[t][v]] = "live"

=============================================================================
