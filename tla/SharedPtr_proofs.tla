-------------------------- MODULE SharedPtr_proofs --------------------------
(***************************************************************************)
(* Theorems about SharedPtr, for any finite sets of threads and objects    *)
(* and any number of pointer variables: the counts are exact, nothing is   *)
(* used after it is freed and no object comes back to life.                *)
(*                                                                         *)
(* Inv, the inductive invariant, has six parts: the types; StackOK, that   *)
(* an object is in the hands of at most one destructor, at the stage its   *)
(* life says; LifeInv, what the two counts say of the object and its       *)
(* block; CountInv, that the counts are those of the pointers there are,   *)
(* where the pointers that calls in progress hold count too; CallOK, what  *)
(* keeps the object alive that a call is about; and DecOK, what a dec      *)
(* under way knows.  CountInv is the heart: a pointer that something holds *)
(* is counted, so the count is not zero, so the object is live.  A         *)
(* variable that shows a pointer it has released does not hold it: the     *)
(* lemmas speak of own, not of sp.  Lemmas on Refs, the number of places   *)
(* that hold a pointer, say how a step changes that number.                *)
(*                                                                         *)
(* The theorems have two hypotheses, without which runs show that they are *)
(* false of the code.  SelfOwned = FALSE: the right side of an assignment  *)
(* is another variable or is reached from one (and a member is not moved   *)
(* from).  ReadsReleased = FALSE: no destructor copies the variable whose  *)
(* release has started it.                                                 *)
(***************************************************************************)
EXTENDS SharedPtr, FiniteSetTheorems, TLAPS

-----------------------------------------------------------------------------
(* Counting the pointers to a control block. *)

Refs(f, H, c) == Cardinality({x \in H : f[x] = c})

Is(x, c) == IF x = c THEN 1 ELSE 0

\* A pointer is counted once or not at all.
LEMMA IsOneOrZero == \A x, c : /\ Is(x, c) \in {0, 1}
                               /\ x = c => Is(x, c) = 1
                               /\ x # c => Is(x, c) = 0
  BY DEF Is

\* Finitely many places hold finitely many pointers.
LEMMA RefsNat ==
  ASSUME NEW H, IsFiniteSet(H), NEW f, NEW c
  PROVE  Refs(f, H, c) \in Nat
<1>1. IsFiniteSet({x \in H : f[x] = c})
  BY FS_Subset
<1> QED
  BY <1>1, FS_CardinalityType DEF Refs

\* A place that holds the pointer is counted.
LEMMA RefsFound ==
  ASSUME NEW H, IsFiniteSet(H), NEW f, NEW c, NEW h \in H, f[h] = c
  PROVE  Refs(f, H, c) > 0
<1> DEFINE S == {x \in H : f[x] = c}
<1>1. IsFiniteSet(S) /\ S # {}
  BY FS_Subset
<1>2. Cardinality(S) # 0 /\ Cardinality(S) \in Nat
  BY <1>1, FS_EmptySet, FS_CardinalityType
<1> QED
  BY <1>2 DEF Refs

\* The count depends on which places hold the pointer, and on nothing else.
LEMMA RefsSame ==
  ASSUME NEW H, NEW f, NEW g, NEW c, \A x \in H : (g[x] = c) <=> (f[x] = c)
  PROVE  Refs(g, H, c) = Refs(f, H, c)
<1>1. {x \in H : g[x] = c} = {x \in H : f[x] = c}
  OBVIOUS
<1> QED
  BY <1>1 DEF Refs

\* One place changes: it is counted after the step if it holds the pointer then,
\* and before it if it held the pointer then.
LEMMA RefsMove ==
  ASSUME NEW H, IsFiniteSet(H), NEW f, NEW g, NEW c, NEW h \in H,
         \A x \in H : x # h => g[x] = f[x]
  PROVE  Refs(g, H, c) = Refs(f, H, c) + Is(g[h], c) - Is(f[h], c)
<1> DEFINE F == {x \in H : f[x] = c}
           G == {x \in H : g[x] = c}
<1>1. IsFiniteSet(F) /\ IsFiniteSet(G) /\ Cardinality(F) \in Nat /\ Cardinality(G) \in Nat
  BY FS_Subset, FS_CardinalityType
<1>2. CASE (f[h] = c) <=> (g[h] = c)
  <2>1. F = G
    BY <1>2
  <2>2. Is(g[h], c) = Is(f[h], c) /\ Is(f[h], c) \in {0, 1}
    BY <1>2, IsOneOrZero
  <2>3. Refs(g, H, c) = Refs(f, H, c) /\ Refs(f, H, c) \in Nat
    BY <2>1, RefsNat DEF Refs
  <2> QED
    BY <2>2, <2>3
<1>3. CASE f[h] = c /\ g[h] # c
  <2>1. F = G \cup {h} /\ h \notin G
    BY <1>3
  <2> HIDE DEF F, G
  <2>2. Cardinality(F) = Cardinality(G) + 1
    BY <1>1, <2>1, FS_AddElement
  <2>3. Is(g[h], c) = 0 /\ Is(f[h], c) = 1
    BY <1>3, IsOneOrZero
  <2> QED
    BY <1>1, <2>2, <2>3 DEF Refs, F, G
<1>4. CASE f[h] # c /\ g[h] = c
  <2>1. G = F \cup {h} /\ h \notin F
    BY <1>4
  <2> HIDE DEF F, G
  <2>2. Cardinality(G) = Cardinality(F) + 1
    BY <1>1, <2>1, FS_AddElement
  <2>3. Is(g[h], c) = 1 /\ Is(f[h], c) = 0
    BY <1>4, IsOneOrZero
  <2> QED
    BY <1>1, <2>2, <2>3 DEF Refs, F, G
<1> QED
  BY <1>2, <1>3, <1>4

\* What the variables of a thread own: one that is being reset owns nothing more.
own == [t \in Threads |-> [v \in Strong |-> IF Released(t, v) THEN None ELSE sp[t][v]]]

\* The pointers of the threads, and those that a call under way holds.
Vars    == Threads \X Strong
WeakVars == Threads \X Weak
Held    == [x \in Vars |-> own[x[1]][x[2]]]
Watched == [x \in WeakVars |-> wp[x[1]][x[2]]]
Lent    == [t \in Threads |->
              IF call[t].pc = "convert" /\ call[t].seen # 0 THEN call[t].ctrl ELSE None]
Looking == [t \in Threads |->
              IF call[t].pc \in {"cas", "convert"} /\ call[t].to = 0 THEN call[t].ctrl ELSE None]

Attached == [c \in Ctrls |-> IF esft[c] THEN c ELSE None]

\* All the places where a pointer to a control block can be are finite sets.
LEMMA FiniteHolders ==
  /\ IsFiniteSet(Threads) /\ IsFiniteSet(Ctrls) /\ IsFiniteSet(Vars) /\ IsFiniteSet(WeakVars)
<1>1. IsFiniteSet(Strong) /\ IsFiniteSet(Weak)
  BY SharedPtrAssumption, FS_Interval DEF Strong, Weak
<1> QED
  BY <1>1, SharedPtrAssumption, FS_Product DEF Vars, WeakVars

\* Owners, which the count is compared with, place by place.
LEMMA OwnersAre ==
  \A c \in Ctrls : Owners(c) = Refs(Held, Vars, c) + Refs(member, Ctrls, c)
                                 + Refs(Lent, Threads, c) + Is(slot, c)
<1> SUFFICES ASSUME NEW c \in Ctrls
             PROVE  Owners(c) = Refs(Held, Vars, c) + Refs(member, Ctrls, c)
                                 + Refs(Lent, Threads, c) + Is(slot, c)
  OBVIOUS
<1>1. {tv \in Threads \X Strong : sp[tv[1]][tv[2]] = c /\ ~Released(tv[1], tv[2])}
        = {x \in Vars : Held[x] = c}
  BY SharedPtrAssumption DEF Held, Vars, own
<1>2. {t \in Threads : call[t].pc = "convert" /\ call[t].ctrl = c /\ call[t].seen # 0}
        = {t \in Threads : Lent[t] = c}
  BY SharedPtrAssumption DEF Lent
<1> QED
  BY <1>1, <1>2 DEF Owners, Refs, Is

\* Observers, place by place.
LEMMA ObserversAre ==
  \A c \in Ctrls : Observers(c) = Refs(Watched, WeakVars, c) + Refs(Looking, Threads, c)
                                    + Is(Attached[c], c)
<1> SUFFICES ASSUME NEW c \in Ctrls
             PROVE  Observers(c) = Refs(Watched, WeakVars, c) + Refs(Looking, Threads, c)
                                    + Is(Attached[c], c)
  OBVIOUS
<1>1. {tk \in Threads \X Weak : wp[tk[1]][tk[2]] = c} = {x \in WeakVars : Watched[x] = c}
  BY DEF Watched, WeakVars
<1>2. {t \in Threads : call[t].pc \in {"cas", "convert"} /\ call[t].to = 0 /\ call[t].ctrl = c}
        = {t \in Threads : Looking[t] = c}
  BY SharedPtrAssumption DEF Looking
<1>3. (IF esft[c] THEN 1 ELSE 0) = Is(Attached[c], c)
  BY SharedPtrAssumption DEF Attached, Is
<1> QED
  BY <1>1, <1>2, <1>3 DEF Observers, Refs

\* The null pointer names no object and no thread.
LEMMA NullPointer == /\ None \notin Ctrls /\ None \notin Threads /\ None \in Ptr
                     /\ \A x \in Ptr : x # None <=> x \in Ctrls
  BY SharedPtrAssumption DEF Ptr

-----------------------------------------------------------------------------
(* The destructors that threads are in. *)

\* Some thread is in the destructor of the object, or about to release its block.
InStack(st, c) == \E t \in Threads : \E i \in 1 .. Len(st[t]) : st[t][i].ctrl = c

\* An object is in the hands of one destructor at most.
OnceEach(st) ==
  \A t, u \in Threads : \A i \in 1 .. Len(st[t]), j \in 1 .. Len(st[u]) :
    st[t][i].ctrl = st[u][j].ctrl => t = u /\ i = j

\* The stage a destructor is at is what the life of its object says; once the
\* members are destroyed, the object points to nothing.
StackOK(st, li, me) ==
  /\ \A t \in Threads : \A i \in 1 .. Len(st[t]) :
       /\ li[st[t][i].ctrl] = IF st[t][i].stage = "weak" THEN "dead" ELSE "dying"
       /\ st[t][i].stage = "base" => me[st[t][i].ctrl] = None
  /\ OnceEach(st)

Stacks == [Threads -> Seq(Destruction)]

\* A sequence with a new first element.
LEMMA Pushed ==
  ASSUME NEW S, NEW e \in S, NEW s \in Seq(S)
  PROVE  /\ <<e>> \o s \in Seq(S) /\ Len(<<e>> \o s) = Len(s) + 1 /\ (<<e>> \o s)[1] = e
         /\ \A i \in 2..Len(s)+1 : (<<e>> \o s)[i] = s[i-1]
OBVIOUS

\* A sequence with another first element.
LEMMA Replaced ==
  ASSUME NEW S, NEW e \in S, NEW s \in Seq(S), s # << >>
  PROVE  /\ <<e>> \o Tail(s) \in Seq(S) /\ Len(<<e>> \o Tail(s)) = Len(s)
         /\ (<<e>> \o Tail(s))[1] = e
         /\ \A i \in 2..Len(s) : (<<e>> \o Tail(s))[i] = s[i]
<1> DEFINE r == <<e>> \o Tail(s)
<1>1. /\ Tail(s) \in Seq(S) /\ Len(Tail(s)) = Len(s) - 1 /\ Len(s) \in Nat
      /\ \A i \in 1..Len(s)-1 : Tail(s)[i] = s[i+1]
  OBVIOUS
<1>2. r \in Seq(S) /\ Len(r) = Len(Tail(s)) + 1 /\ r[1] = e /\ \A i \in 2..Len(Tail(s))+1 : r[i] = Tail(s)[i-1]
  BY <1>1, Pushed
<1>3. ASSUME NEW i \in 2..Len(s) PROVE r[i] = s[i]
  <2>1. i - 1 \in 1..Len(s)-1 /\ i \in 2..Len(Tail(s))+1 /\ (i - 1) + 1 = i
    BY <1>1
  <2>2. r[i] = Tail(s)[i-1] /\ Tail(s)[i-1] = s[(i-1)+1]
    BY <1>1, <1>2, <2>1
  <2> QED
    BY <2>1, <2>2
<1> QED
  BY <1>1, <1>2, <1>3

\* A destructor destroys an object.
LEMMA EntriesTyped ==
  ASSUME NEW st \in Stacks
  PROVE  \A u \in Threads : \A i \in 1..Len(st[u]) : st[u][i].ctrl \in Ctrls
<1> SUFFICES ASSUME NEW u \in Threads, NEW i \in 1..Len(st[u]) PROVE st[u][i].ctrl \in Ctrls
  OBVIOUS
<1>1. st[u] \in Seq(Destruction)
  BY DEF Stacks
<1>2. st[u][i] \in Destruction
  BY <1>1
<1> QED
  BY <1>2 DEF Destruction

\* The innermost destructor of a thread that is in one.
LEMMA HeadTyped ==
  ASSUME NEW st \in Stacks, NEW t \in Threads, st[t] # << >>
  PROVE  /\ st[t] \in Seq(Destruction) /\ Len(st[t]) \in Nat /\ 1 \in 1..Len(st[t])
         /\ Head(st[t]) = st[t][1] /\ Head(st[t]) \in Destruction /\ Head(st[t]).ctrl \in Ctrls
<1>1. st[t] \in Seq(Destruction)
  BY DEF Stacks
<1>2. /\ Len(st[t]) \in Nat /\ 1 \in 1..Len(st[t])
      /\ Head(st[t]) = st[t][1] /\ Head(st[t]) \in Destruction
  BY <1>1
<1> QED
  BY <1>1, <1>2 DEF Destruction

Lives == {"none", "live", "dying", "dead"}

\* On a stack with a new innermost destructor, an object still has one only.
LEMMA PushUnique ==
  ASSUME NEW st, NEW st2, NEW t \in Threads, OnceEach(st),
         \A u \in Threads : \A i \in 1..Len(st[u]) : st[u][i].ctrl # st2[t][1].ctrl,
         \A u \in Threads \ {t} : st2[u] = st[u],
         \A k \in 1..Len(st2[t]) : k = 1 \/ k \in 2..Len(st2[t]),
         \A i \in 2..Len(st2[t]) : i - 1 \in 1..Len(st[t]) /\ st2[t][i] = st[t][i-1]
  PROVE  OnceEach(st2)
<1> SUFFICES ASSUME NEW u \in Threads, NEW w \in Threads,
                    NEW i \in 1..Len(st2[u]), NEW j \in 1..Len(st2[w]),
                    st2[u][i].ctrl = st2[w][j].ctrl
             PROVE  u = w /\ i = j
  BY DEF OnceEach
<1> DEFINE r == st2[t]
           c == st2[t][1].ctrl
<1>0. \A x, y \in Threads : \A k \in 1 .. Len(st[x]), l \in 1 .. Len(st[y]) :
        st[x][k].ctrl = st[y][l].ctrl => x = y /\ k = l
  BY DEF OnceEach
<1>1. ASSUME NEW x \in Threads, NEW k \in 1..Len(st2[x]), x # t \/ k # 1
      PROVE  st2[x][k].ctrl # c
  <2>1. CASE x # t
    BY <2>1
  <2>2. CASE x = t
    <3>1. k \in 2..Len(r) /\ k - 1 \in 1..Len(st[t]) /\ st2[x][k] = st[t][k-1]
      BY <1>1, <2>2
    <3> QED
      BY <3>1
  <2> QED
    BY <2>1, <2>2
<1>2. CASE (u = t /\ i = 1) \/ (w = t /\ j = 1)
  BY <1>1, <1>2
<1>3. CASE u # t /\ w # t
  BY <1>0, <1>3
<1>4. CASE u = t /\ i # 1 /\ w # t
  <2>1. i \in 2..Len(r) /\ i - 1 \in 1..Len(st[t]) /\ st2[u][i] = st[t][i-1]
    BY <1>4
  <2>2. j \in 1..Len(st[w]) /\ st[t][i-1].ctrl = st[w][j].ctrl
    BY <1>4, <2>1
  <2> QED
    BY <1>0, <1>4, <2>1, <2>2
<1>5. CASE w = t /\ j # 1 /\ u # t
  <2>1. j \in 2..Len(r) /\ j - 1 \in 1..Len(st[t]) /\ st2[w][j] = st[t][j-1]
    BY <1>5
  <2>2. i \in 1..Len(st[u]) /\ st[u][i].ctrl = st[t][j-1].ctrl
    BY <1>5, <2>1
  <2> QED
    BY <1>0, <1>5, <2>1, <2>2
<1>6. CASE u = t /\ i # 1 /\ w = t /\ j # 1
  <2>1. /\ i \in 2..Len(r) /\ i - 1 \in 1..Len(st[t]) /\ st2[u][i] = st[t][i-1]
        /\ j \in 2..Len(r) /\ j - 1 \in 1..Len(st[t]) /\ st2[w][j] = st[t][j-1]
    BY <1>6
  <2>2. PICK x \in 1..Len(st[t]) : x = i - 1 /\ st2[u][i] = st[t][x]
    BY <2>1
  <2>3. PICK y \in 1..Len(st[t]) : y = j - 1 /\ st2[w][j] = st[t][y]
    BY <2>1
  <2>4. st[t][x].ctrl = st[t][y].ctrl
    BY <2>2, <2>3
  <2>5. \A k, l \in 1 .. Len(st[t]) : st[t][k].ctrl = st[t][l].ctrl => k = l
    BY <1>0
  <2>6. x = y
    BY ONLY <2>4, <2>5, x \in 1..Len(st[t]), y \in 1..Len(st[t])
  <2> QED
    BY <1>6, <2>1, <2>2, <2>3, <2>6
<1> QED
  BY <1>2, <1>3, <1>4, <1>5, <1>6

\* A destructor starts, of an object that was alive.
PushDestructor(st, t, c) ==
  [st EXCEPT ![t] = <<[ctrl |-> c, stage |-> "members"]>> \o st[t]]

\* The last owner starts the destructor of a live object: every object is still in
\* the hands of one destructor at most.
LEMMA StackPush ==
  ASSUME NEW st \in Stacks, NEW li \in [Ctrls -> Lives], NEW me,
         StackOK(st, li, me), NEW t \in Threads, NEW c \in Ctrls, li[c] = "live"
  PROVE  /\ PushDestructor(st, t, c) \in Stacks
         /\ StackOK(PushDestructor(st, t, c), [li EXCEPT ![c] = "dying"], me)
         /\ \A d : InStack(PushDestructor(st, t, c), d) <=> InStack(st, d) \/ d = c
<1> SUFFICES ASSUME NEW st2, st2 = PushDestructor(st, t, c),
                    NEW li2, li2 = [li EXCEPT ![c] = "dying"]
             PROVE  /\ st2 \in Stacks /\ StackOK(st2, li2, me)
                    /\ \A d : InStack(st2, d) <=> InStack(st, d) \/ d = c
  OBVIOUS
<1>0. st2 = [st EXCEPT ![t] = <<[ctrl |-> c, stage |-> "members"]>> \o st[t]]
  BY DEF PushDestructor
<1>8. \A d \in Ctrls \ {c} : li2[d] = li[d]
  OBVIOUS
<1>9. li2[c] = "dying"
  OBVIOUS
<1> DEFINE e == [ctrl |-> c, stage |-> "members"]
           r == <<e>> \o st[t]
<1>1. e \in Destruction /\ e.ctrl = c /\ e.stage = "members" /\ st[t] \in Seq(Destruction)
  BY DEF Destruction, Stacks
<1> HIDE DEF e
<1>2. /\ r \in Seq(Destruction) /\ Len(r) = Len(st[t]) + 1 /\ r[1] = e /\ Len(st[t]) \in Nat
      /\ \A i \in 2..Len(st[t])+1 : r[i] = st[t][i-1]
  BY <1>1, Pushed
<1>3. st2[t] = r /\ \A u \in Threads \ {t} : st2[u] = st[u]
  BY <1>0 DEF Stacks, e
<1> HIDE DEF r
<1>4. st2 \in Stacks
  BY <1>0, <1>2 DEF Stacks, r, e
<1>5. \A i \in 2..Len(r) : i - 1 \in 1..Len(st[t]) /\ r[i] = st[t][i-1]
  BY <1>2
<1>6. \A u \in Threads : \A i \in 1..Len(st[u]) : st[u][i].ctrl \in Ctrls
  BY EntriesTyped
<1>7. \A u \in Threads : \A i \in 1..Len(st[u]) : st[u][i].ctrl # c
  BY DEF StackOK, OnceEach
<1>10. \A i \in 1..Len(r) : i = 1 \/ i \in 2..Len(r)
  BY <1>2
<1>11. 1 \in 1..Len(r) /\ \A i \in 1..Len(st[t]) : i + 1 \in 2..Len(r) /\ (i + 1) - 1 = i /\ i + 1 \in 1..Len(r)
  BY <1>2
<1>12. \A i \in 1..Len(st[t]) : r[i + 1] = st[t][i]
  BY <1>5, <1>11
<1>13. \A u \in Threads : \A i \in 1 .. Len(st2[u]) :
       /\ li2[st2[u][i].ctrl] = IF st2[u][i].stage = "weak" THEN "dead" ELSE "dying"
       /\ st2[u][i].stage = "base" => me[st2[u][i].ctrl] = None
  <2> TAKE u \in Threads
  <2> TAKE i \in 1 .. Len(st2[u])
  <2>1. CASE u # t
    BY <1>3, <1>6, <1>7, <1>8, <2>1 DEF StackOK, OnceEach
  <2>2. CASE u = t /\ i = 1
    BY <1>1, <1>2, <1>3, <1>9, <2>2
  <2>3. CASE u = t /\ i \in 2..Len(r)
    BY <1>3, <1>5, <1>6, <1>7, <1>8, <2>3 DEF StackOK, OnceEach
  <2> QED
    BY <1>3, <1>10, <2>1, <2>2, <2>3
<1>14. OnceEach(st2)
  <2>1. OnceEach(st)
    BY DEF StackOK
  <2>2. st2[t][1].ctrl = c
    BY <1>1, <1>2, <1>3
  <2>3. \A i \in 2..Len(st2[t]) : i - 1 \in 1..Len(st[t]) /\ st2[t][i] = st[t][i-1]
    BY ONLY <1>3, <1>5
  <2>4. \A i \in 1..Len(st2[t]) : i = 1 \/ i \in 2..Len(st2[t])
    BY ONLY <1>3, <1>10
  <2>5. \A u \in Threads : \A i \in 1..Len(st[u]) : st[u][i].ctrl # st2[t][1].ctrl
    BY ONLY <1>7, <2>2
  <2> QED
    BY ONLY <2>1, <2>3, <2>4, <2>5, <1>3, t \in Threads, PushUnique
<1>15. ASSUME NEW d PROVE InStack(st2, d) <=> InStack(st, d) \/ d = c
  <2>1. ASSUME InStack(st2, d) PROVE InStack(st, d) \/ d = c
    <3>1. PICK u \in Threads : \E i \in 1..Len(st2[u]) : st2[u][i].ctrl = d
      BY <2>1 DEF InStack
    <3>2. PICK i \in 1..Len(st2[u]) : st2[u][i].ctrl = d
      BY <3>1
    <3>3. CASE u # t
      BY ONLY <1>3, <3>2, <3>3 DEF InStack
    <3>4. CASE u = t /\ i = 1
      BY ONLY <1>1, <1>2, <1>3, <3>2, <3>4
    <3>5. CASE u = t /\ i # 1
      <4>1. i - 1 \in 1..Len(st[t]) /\ st2[u][i] = st[t][i-1]
        BY ONLY <1>3, <1>5, <1>10, <3>2, <3>5
      <4> QED
        BY ONLY <4>1, <3>2, t \in Threads DEF InStack
    <3> QED
      BY <3>3, <3>4, <3>5
  <2>2. ASSUME InStack(st, d) PROVE InStack(st2, d)
    <3>1. PICK u \in Threads : \E i \in 1..Len(st[u]) : st[u][i].ctrl = d
      BY <2>2 DEF InStack
    <3>2. PICK i \in 1..Len(st[u]) : st[u][i].ctrl = d
      BY <3>1
    <3>3. CASE u # t
      BY ONLY <1>3, <3>2, <3>3 DEF InStack
    <3>4. CASE u = t
      <4>1. i + 1 \in 1..Len(st2[t]) /\ st2[t][i+1] = st[t][i]
        BY ONLY <1>3, <1>11, <1>12, <3>2, <3>4
      <4> QED
        BY ONLY <4>1, <3>2, <3>4, t \in Threads DEF InStack
    <3> QED
      BY <3>3, <3>4
  <2>3. d = c => InStack(st2, d)
    BY <1>1, <1>2, <1>3, <1>11 DEF InStack
  <2> QED
    BY <2>1, <2>2, <2>3
<1>17. StackOK(st2, li2, me)
  BY <1>13, <1>14, Zenon DEF StackOK, OnceEach
<1> QED
  BY <1>4, <1>15, <1>17

\* The innermost destructor goes on to another stage.
Advance(st, t, g) ==
  [st EXCEPT ![t] = <<[ctrl |-> Head(st[t]).ctrl, stage |-> g]>> \o Tail(st[t])]

\* A destructor goes on to its next stage.
LEMMA StackAdvance ==
  ASSUME NEW st \in Stacks, NEW li, NEW me, StackOK(st, li, me),
         NEW t \in Threads, st[t] # <<>>, NEW g, g \in {"members", "base", "weak"}, NEW li2, NEW me2,
         \A d \in Ctrls \ {Head(st[t]).ctrl} : li2[d] = li[d] /\ me2[d] = me[d],
         li2[Head(st[t]).ctrl] = IF g = "weak" THEN "dead" ELSE "dying",
         g = "base" => me2[Head(st[t]).ctrl] = None
  PROVE  /\ Advance(st, t, g) \in Stacks
         /\ StackOK(Advance(st, t, g), li2, me2)
         /\ \A d : InStack(Advance(st, t, g), d) <=> InStack(st, d)
<1> SUFFICES ASSUME NEW st2, st2 = Advance(st, t, g), NEW c, c = Head(st[t]).ctrl
             PROVE  /\ st2 \in Stacks /\ StackOK(st2, li2, me2)
                    /\ \A d : InStack(st2, d) <=> InStack(st, d)
  OBVIOUS
<1>0. st2 = [st EXCEPT ![t] = <<[ctrl |-> c, stage |-> g]>> \o Tail(st[t])]
  BY DEF Advance
<1>0a. /\ \A d \in Ctrls \ {c} : li2[d] = li[d] /\ me2[d] = me[d]
       /\ li2[c] = IF g = "weak" THEN "dead" ELSE "dying"
       /\ g = "base" => me2[c] = None
  OBVIOUS
<1> DEFINE e == [ctrl |-> c, stage |-> g]
           r == <<e>> \o Tail(st[t])
<1>1. /\ e \in Destruction /\ e.ctrl = c /\ e.stage = g /\ st[t] \in Seq(Destruction)
      /\ c = st[t][1].ctrl /\ 1 \in 1..Len(st[t])
  BY HeadTyped DEF Destruction
<1> HIDE DEF e
<1>2. /\ r \in Seq(Destruction) /\ Len(r) = Len(st[t]) /\ r[1] = e /\ Len(st[t]) \in Nat
      /\ \A i \in 2..Len(st[t]) : r[i] = st[t][i]
  BY <1>1, Replaced
<1>3. st2[t] = r /\ \A u \in Threads \ {t} : st2[u] = st[u]
  BY <1>0 DEF Stacks, e
<1> HIDE DEF r
<1>4. st2 \in Stacks
  BY <1>0, <1>2 DEF Stacks, r, e
<1>5. \A i \in 1..Len(r) : i \in 1..Len(st[t]) /\ (i # 1 => r[i] = st[t][i])
  BY <1>2
<1>6. \A u \in Threads : \A i \in 1..Len(st[u]) : st[u][i].ctrl \in Ctrls
  BY EntriesTyped
<1>7. \A u \in Threads : \A i \in 1..Len(st2[u]) :
        i \in 1..Len(st[u]) /\ st2[u][i].ctrl = st[u][i].ctrl /\ (u # t \/ i # 1 => st2[u][i] = st[u][i])
  BY <1>1, <1>2, <1>3, <1>5
<1>8. \A u \in Threads : \A i \in 1..Len(st[u]) : u # t \/ i # 1 => st[u][i].ctrl # c
  BY <1>1 DEF StackOK, OnceEach
<1>9. \A u \in Threads : \A i \in 1 .. Len(st2[u]) :
       /\ li2[st2[u][i].ctrl] = IF st2[u][i].stage = "weak" THEN "dead" ELSE "dying"
       /\ st2[u][i].stage = "base" => me2[st2[u][i].ctrl] = None
  <2> TAKE u \in Threads
  <2> TAKE i \in 1 .. Len(st2[u])
  <2>1. CASE u # t \/ i # 1
    <3>1. /\ i \in 1..Len(st[u]) /\ st2[u][i] = st[u][i]
          /\ st[u][i].ctrl \in Ctrls \ {c}
      BY <1>6, <1>7, <1>8, <2>1
    <3>2. /\ li[st[u][i].ctrl] = IF st[u][i].stage = "weak" THEN "dead" ELSE "dying"
          /\ st[u][i].stage = "base" => me[st[u][i].ctrl] = None
      BY <3>1 DEF StackOK
    <3>3. li2[st[u][i].ctrl] = li[st[u][i].ctrl] /\ me2[st[u][i].ctrl] = me[st[u][i].ctrl]
      BY <1>0a, <3>1
    <3> QED
      BY ONLY <3>1, <3>2, <3>3
  <2>2. CASE u = t /\ i = 1
    BY <1>0a, <1>1, <1>2, <1>3, <2>2
  <2> QED
    BY <2>1, <2>2
<1>10. \A u, w \in Threads : \A i \in 1 .. Len(st2[u]), j \in 1 .. Len(st2[w]) :
       st2[u][i].ctrl = st2[w][j].ctrl => u = w /\ i = j
  BY <1>7 DEF StackOK, OnceEach
<1>11. \A u \in Threads : \A i \in 1..Len(st[u]) : i \in 1..Len(st2[u])
  BY <1>2, <1>3
<1>12. ASSUME NEW d PROVE InStack(st2, d) <=> InStack(st, d)
  <2>1. ASSUME InStack(st2, d) PROVE InStack(st, d)
    <3>1. PICK u \in Threads : \E i \in 1..Len(st2[u]) : st2[u][i].ctrl = d
      BY <2>1 DEF InStack
    <3>2. PICK i \in 1..Len(st2[u]) : st2[u][i].ctrl = d
      BY <3>1
    <3>3. i \in 1..Len(st[u]) /\ st[u][i].ctrl = d
      BY <1>7, <3>2
    <3> QED
      BY ONLY <3>3, u \in Threads DEF InStack
  <2>2. ASSUME InStack(st, d) PROVE InStack(st2, d)
    <3>1. PICK u \in Threads : \E i \in 1..Len(st[u]) : st[u][i].ctrl = d
      BY <2>2 DEF InStack
    <3>2. PICK i \in 1..Len(st[u]) : st[u][i].ctrl = d
      BY <3>1
    <3>3. i \in 1..Len(st2[u]) /\ st2[u][i].ctrl = d
      BY <1>7, <1>11, <3>2
    <3> QED
      BY ONLY <3>3, u \in Threads DEF InStack
  <2> QED
    BY <2>1, <2>2
<1>13. OnceEach(st2)
  BY <1>10 DEF OnceEach
<1>14. StackOK(st2, li2, me2)
  BY <1>9, <1>13, Zenon DEF StackOK
<1> QED
  BY <1>4, <1>12, <1>14

\* A destructor ends; its control block may be gone with it.
LEMMA StackPop ==
  ASSUME NEW st \in Stacks, NEW li, NEW me, StackOK(st, li, me),
         NEW t \in Threads, st[t] # <<>>, NEW li2,
         \A d \in Ctrls \ {Head(st[t]).ctrl} : li2[d] = li[d]
  PROVE  /\ [st EXCEPT ![t] = Tail(st[t])] \in Stacks
         /\ StackOK([st EXCEPT ![t] = Tail(st[t])], li2, me)
         /\ \A d : InStack([st EXCEPT ![t] = Tail(st[t])], d)
                    <=> InStack(st, d) /\ d # Head(st[t]).ctrl
<1> SUFFICES ASSUME NEW st2, st2 = [st EXCEPT ![t] = Tail(st[t])], NEW c, c = Head(st[t]).ctrl
             PROVE  /\ st2 \in Stacks /\ StackOK(st2, li2, me)
                    /\ \A d : InStack(st2, d) <=> InStack(st, d) /\ d # c
  OBVIOUS
<1>0. \A d \in Ctrls \ {c} : li2[d] = li[d]
  OBVIOUS
<1>1. /\ st[t] \in Seq(Destruction) /\ Len(st[t]) \in Nat
      /\ c = st[t][1].ctrl /\ 1 \in 1..Len(st[t])
  BY HeadTyped DEF Destruction
<1> DEFINE r == Tail(st[t])
<1>2. /\ r \in Seq(Destruction) /\ Len(r) = Len(st[t]) - 1
      /\ \A i \in 1..Len(r) : r[i] = st[t][i+1]
  BY <1>1
<1>3. st2[t] = r /\ \A u \in Threads \ {t} : st2[u] = st[u]
  BY DEF Stacks
<1> HIDE DEF r
<1>4. st2 \in Stacks
  BY <1>2 DEF Stacks, r
<1>5. \A i \in 1..Len(r) : i + 1 \in 1..Len(st[t]) /\ i + 1 # 1 /\ r[i] = st[t][i+1]
  BY <1>1, <1>2
<1>6. \A u \in Threads : \A i \in 1..Len(st[u]) : st[u][i].ctrl \in Ctrls
  BY EntriesTyped
<1>8. \A u \in Threads : \A i \in 1..Len(st[u]) : u # t \/ i # 1 => st[u][i].ctrl # c
  BY <1>1 DEF StackOK, OnceEach
<1>9. \A u \in Threads : \A i \in 1 .. Len(st2[u]) :
       /\ li2[st2[u][i].ctrl] = IF st2[u][i].stage = "weak" THEN "dead" ELSE "dying"
       /\ st2[u][i].stage = "base" => me[st2[u][i].ctrl] = None
       /\ st2[u][i].ctrl # c
  <2> TAKE u \in Threads
  <2> TAKE i \in 1 .. Len(st2[u])
  <2>1. CASE u # t
    BY <1>3, <1>6, <1>8, <2>1 DEF StackOK, OnceEach
  <2>2. CASE u = t
    <3>1. i + 1 \in 1..Len(st[t]) /\ i + 1 # 1 /\ st2[u][i] = st[t][i+1]
      BY <1>3, <1>5, <2>2
    <3> QED
      BY <3>1, <1>6, <1>8, <2>2 DEF StackOK, OnceEach
  <2> QED
    BY <2>1, <2>2
<1>10. ASSUME NEW u \in Threads, NEW w \in Threads, NEW i \in 1 .. Len(st2[u]), NEW j \in 1 .. Len(st2[w]),
              st2[u][i].ctrl = st2[w][j].ctrl 
       PROVE  u = w /\ i = j
  <2>1. CASE u # t /\ w # t
    BY <1>3, <1>10, <2>1 DEF StackOK, OnceEach
  <2>2. CASE u = t /\ w # t
    BY <1>3, <1>5, <1>10, <2>2 DEF StackOK, OnceEach
  <2>3. CASE u # t /\ w = t
    BY <1>3, <1>5, <1>10, <2>3 DEF StackOK, OnceEach
  <2>4. CASE u = t /\ w = t
    <3>1. i + 1 = j + 1
      BY <1>3, <1>5, <1>10, <2>4 DEF StackOK, OnceEach
    <3>2. i \in Int /\ j \in Int
      BY <1>3, <1>2, <2>4
    <3> QED
      BY <2>4, <3>1, <3>2
  <2> QED
    BY <2>1, <2>2, <2>3, <2>4
<1>11. \A i \in 1..Len(st[t]) : i # 1 => i - 1 \in 1..Len(r) /\ r[i - 1] = st[t][i]
  <2> SUFFICES ASSUME NEW i \in 1..Len(st[t]), i # 1 PROVE i - 1 \in 1..Len(r) /\ r[i - 1] = st[t][i]
    OBVIOUS
  <2>1. i - 1 \in 1..Len(r) /\ (i - 1) + 1 = i
    BY <1>1, <1>2
  <2> QED
    BY <1>2, <2>1
<1>12. ASSUME NEW d PROVE InStack(st2, d) <=> InStack(st, d) /\ d # c
  <2>1. ASSUME InStack(st2, d) PROVE InStack(st, d) /\ d # c
    BY <1>3, <1>5, <1>9, <2>1 DEF InStack
  <2>2. ASSUME InStack(st, d), d # c PROVE InStack(st2, d)
    <3>1. PICK u \in Threads : \E i \in 1..Len(st[u]) : st[u][i].ctrl = d
      BY <2>2 DEF InStack
    <3>2. PICK i \in 1..Len(st[u]) : st[u][i].ctrl = d
      BY <3>1
    <3>3. CASE u # t
      BY <1>3, <3>2, <3>3 DEF InStack
    <3>4. CASE u = t
      BY <1>1, <1>3, <1>11, <2>2, <3>2, <3>4 DEF InStack
    <3> QED
      BY <3>3, <3>4
  <2> QED
    BY <2>1, <2>2
<1>13. \A u, w \in Threads : \A i \in 1 .. Len(st2[u]), j \in 1 .. Len(st2[w]) :
       st2[u][i].ctrl = st2[w][j].ctrl => u = w /\ i = j
  BY <1>10
<1>9a. \A u \in Threads : \A i \in 1 .. Len(st2[u]) :
       /\ li2[st2[u][i].ctrl] = IF st2[u][i].stage = "weak" THEN "dead" ELSE "dying"
       /\ st2[u][i].stage = "base" => me[st2[u][i].ctrl] = None
  BY <1>9
<1>14. StackOK(st2, li2, me)
  BY <1>9a, <1>13, Zenon DEF StackOK, OnceEach
<1> QED
  BY <1>4, <1>12, <1>14

-----------------------------------------------------------------------------
(* The counts and what they say of the object and its block. *)

\* The types of objects, blocks and destructors.
CoreTyped ==
  /\ count \in [Ctrls -> Nat] /\ weak_count \in [Ctrls -> Nat]
  /\ life \in [Ctrls -> Lives] /\ member \in [Ctrls -> Ptr]
  /\ esft \in [Ctrls -> BOOLEAN] /\ stack \in Stacks

\* The types of pointers and calls.
PointersTyped ==
  /\ sp \in [Threads -> [Strong -> Ptr]] /\ dec \in [Threads -> Dec]
  /\ wp \in [Threads -> [Weak -> Ptr]]
  /\ slot \in Ptr /\ spin \in Threads \cup {None} /\ call \in [Threads -> Call]

\* An object is live while it is owned, a block is there while it is observed, and
\* an object without a life has no members.
LifeInv == \A c \in Ctrls :
  /\ (life[c] = "live") <=> (count[c] > 0)
  /\ (life[c] = "none") <=> (weak_count[c] = 0)
  /\ esft[c] <=> life[c] \in {"live", "dying"}
  /\ life[c] \in {"none", "dead"} => member[c] = None

\* All owners together, and then the destructor, hold one weak reference.
Implied(c) == count[c] > 0 \/ InStack(stack, c)

\* The counts are the numbers of the pointers there are.
CountInv == \A c \in Ctrls :
  /\ count[c] = Owners(c)
  /\ Implied(c) => weak_count[c] = Observers(c) + 1
  /\ ~Implied(c) => weak_count[c] = Observers(c)

\* Objects, blocks and destructors.
Core == CoreTyped /\ StackOK(stack, life, member) /\ LifeInv /\ CountInv

\* The type invariant is one of objects and blocks, and one of pointers and calls.
LEMMA TypesAre == TypeOK <=> CoreTyped /\ PointersTyped
  BY DEF TypeOK, CoreTyped, PointersTyped, Lives, Stacks

\* Owners and observers are numbers.
LEMMA NumbersNat ==
  \A c \in Ctrls : Owners(c) \in Nat /\ Observers(c) \in Nat
<1> SUFFICES ASSUME NEW c \in Ctrls PROVE Owners(c) \in Nat /\ Observers(c) \in Nat
  OBVIOUS
<1>1. /\ Refs(Held, Vars, c) \in Nat /\ Refs(member, Ctrls, c) \in Nat /\ Refs(Lent, Threads, c) \in Nat
      /\ Refs(Watched, WeakVars, c) \in Nat /\ Refs(Looking, Threads, c) \in Nat
  BY FiniteHolders, RefsNat
<1>2. Is(slot, c) \in Nat /\ Is(Attached[c], c) \in Nat
  BY IsOneOrZero
<1>3. /\ Owners(c) = Refs(Held, Vars, c) + Refs(member, Ctrls, c)
                       + Refs(Lent, Threads, c) + Is(slot, c)
      /\ Observers(c) = Refs(Watched, WeakVars, c) + Refs(Looking, Threads, c)
                          + Is(Attached[c], c)
  BY OwnersAre, ObserversAre
<1> QED
  BY ONLY <1>1, <1>2, <1>3

\* The weak reference of the owners, after the step.
LEMMA ImpliedNext == \A d : Implied(d)' <=> count'[d] > 0 \/ InStack(stack', d)
  BY DEF Implied, InStack

\* What is in a destructor's hands is dying or dead, and no more alive.
LEMMA InStackIsDead ==
  ASSUME Core, NEW c \in Ctrls, InStack(stack, c)
  PROVE  life[c] \in {"dying", "dead"} /\ count[c] = 0
<1>1. life[c] \in {"dying", "dead"}
  BY DEF Core, StackOK, InStack
<1> QED
  BY <1>1 DEF Core, CoreTyped, LifeInv

\* The invariant of the destructors, after the step.
LEMMA StackOKNext == StackOK(stack, life, member)' <=> StackOK(stack', life', member')
  BY DEF StackOK

\* No owner and no observer more or less: a step that leaves the counts alone.
LEMMA NothingChanges ==
  ASSUME Core, UNCHANGED <<count, weak_count, life, member, esft, stack>>,
         \A d \in Ctrls : Owners(d)' = Owners(d) /\ Observers(d)' = Observers(d)
  PROVE  Core'
<1>1. CoreTyped' /\ StackOK(stack, life, member)' /\ LifeInv'
  BY DEF Core, CoreTyped, StackOK, LifeInv
<1>2. \A d : Implied(d)' <=> Implied(d)
  BY DEF Implied, InStack
<1>3. CountInv'
  BY <1>2 DEF Core, CountInv
<1> QED
  BY <1>1, <1>3 DEF Core

\* inc: one owner more of an object that has one.
LEMMA OwnerGained ==
  ASSUME Core, NEW c \in Ctrls, count[c] > 0, count' = [count EXCEPT ![c] = @ + 1],
         UNCHANGED <<weak_count, life, member, esft, stack>>,
         \A d \in Ctrls : Owners(d)' = Owners(d) + Is(c, d) /\ Observers(d)' = Observers(d)
  PROVE  Core'
<1>1. \A d \in Ctrls : /\ count[d] \in Nat /\ count'[d] = count[d] + Is(c, d)
                       /\ Is(c, d) \in {0, 1} /\ (count'[d] > 0 <=> count[d] > 0)
  BY IsOneOrZero DEF Core, CoreTyped
<1>2. CoreTyped'
  BY DEF Core, CoreTyped
<1>3. StackOK(stack, life, member)'
  BY DEF Core, StackOK
<1>4. LifeInv'
  BY <1>1 DEF Core, LifeInv
<1>5. \A d \in Ctrls : Implied(d)' <=> Implied(d)
  BY <1>1 DEF Implied, InStack
<1>6. CountInv'
  BY <1>1, <1>5 DEF Core, CountInv
<1> QED
  BY <1>2, <1>3, <1>4, <1>6 DEF Core

\* The last owner starts the destructor; what is below on the stack has been
\* dealt with, and with it the member of the object that it is about.
LEMMA OwnerLost ==
  ASSUME Core, NEW t \in Threads, NEW c \in Ctrls, NEW below \in Seq(Destruction),
         count[c] > 0, StrongRelease(t, c, below), UNCHANGED <<weak_count, esft>>,
         \A d \in Ctrls : Owners(d)' = Owners(d) - Is(c, d) /\ Observers(d)' = Observers(d),
         StackOK([stack EXCEPT ![t] = below], life, member'),
         \A d : InStack([stack EXCEPT ![t] = below], d) <=> InStack(stack, d),
         member' \in [Ctrls -> Ptr],
         \A d \in Ctrls : member'[d] \in {None, member[d]}
  PROVE  Core'
<1> DEFINE mid == [stack EXCEPT ![t] = below]
<1>1. mid \in Stacks /\ stack \in Stacks /\ mid[t] = below
  BY DEF Core, CoreTyped, Stacks
<1>1a. /\ StackOK(mid, life, member')
       /\ \A d : InStack(mid, d) <=> InStack(stack, d)
  OBVIOUS
<1>2. life[c] = "live" /\ life \in [Ctrls -> Lives]
  BY DEF Core, CoreTyped, LifeInv
<1>3. \A d \in Ctrls : /\ count[d] \in Nat /\ count'[d] = count[d] - Is(c, d)
                       /\ Is(c, d) \in {0, 1} /\ (d # c => Is(c, d) = 0)
                       /\ count'[d] \in Nat
  BY IsOneOrZero DEF Core, CoreTyped, StrongRelease
<1>4. count' \in [Ctrls -> Nat]
  BY DEF Core, CoreTyped, StrongRelease
<1>5. Is(c, c) = 1
  BY IsOneOrZero
<1>6. CASE count[c] = 1
  <2>1. /\ life' = [life EXCEPT ![c] = "dying"]
        /\ stack' = PushDestructor(mid, t, c)
    BY <1>1, <1>6 DEF PushDestructor, StrongRelease, Core, CoreTyped, Stacks
  <2> HIDE DEF mid
  <2>2. /\ stack' \in Stacks /\ StackOK(stack', life', member')
        /\ \A d : InStack(stack', d) <=> InStack(mid, d) \/ d = c
    BY ONLY <1>1, <1>1a, <1>2, <2>1, c \in Ctrls, t \in Threads, StackPush
  <2>3. CoreTyped'
    BY <1>2, <1>4, <2>1, <2>2 DEF Core, CoreTyped, Lives
  <2>4. ASSUME NEW d \in Ctrls
        PROVE  /\ (life'[d] = "live") <=> (count'[d] > 0)
               /\ (life'[d] = "none") <=> (weak_count[d] = 0)
               /\ esft[d] <=> life'[d] \in {"live", "dying"}
               /\ life'[d] \in {"none", "dead"} => member'[d] = None
    <3>1. CASE d = c
      <4>1. life'[d] = "dying" /\ count'[d] = 0 /\ life[d] = "live"
        BY <1>2, <1>3, <1>5, <1>6, <2>1, <3>1
      <4> QED
        BY <4>1 DEF Core, LifeInv
    <3>2. CASE d # c
      <4>1. life'[d] = life[d] /\ count'[d] = count[d]
        BY <1>2, <1>3, <2>1, <3>2
      <4> QED
        BY <4>1 DEF Core, LifeInv
    <3> QED
      BY <3>1, <3>2
  <2>5. LifeInv'
    BY <2>4 DEF LifeInv
  <2>6. ASSUME NEW d \in Ctrls PROVE Implied(d)' <=> Implied(d)
    <3>1. CASE d = c
      BY <1>6, <2>2, <3>1, ImpliedNext DEF Implied
    <3>2. CASE d # c
      <4>1. count'[d] = count[d]
        BY <1>3, <3>2
      <4>2. InStack(stack', d) <=> InStack(stack, d)
        BY <1>1a, <2>2, <3>2
      <4> QED
        BY <4>1, <4>2, ImpliedNext DEF Implied
    <3> QED
      BY <3>1, <3>2
  <2>7. CountInv'
    BY <1>3, <2>6 DEF Core, CountInv
  <2> QED
    BY <2>2, <2>3, <2>5, <2>7, StackOKNext DEF Core
<1>7. CASE count[c] # 1
  <2>1. life' = life /\ stack' = mid
    BY <1>7 DEF StrongRelease
  <2>2. CoreTyped'
    BY <1>1, <1>4, <2>1 DEF Core, CoreTyped
  <2>3. \A d \in Ctrls : count'[d] > 0 <=> count[d] > 0
    <3>1. count[c] > 1
      BY <1>3, <1>7
    <3> QED
      BY <1>3, <3>1
  <2>4. LifeInv'
    BY <2>1, <2>3 DEF Core, LifeInv
  <2> HIDE DEF mid
  <2>5. \A d \in Ctrls : Implied(d)' <=> Implied(d)
    BY <1>1a, <2>1, <2>3, ImpliedNext DEF Implied
  <2>6. CountInv'
    BY <1>3, <2>5 DEF Core, CountInv
  <2>7. StackOK(stack, life, member)'
    BY <1>1a, <2>1, StackOKNext
  <2> QED
    BY <2>2, <2>4, <2>6, <2>7 DEF Core
<1> QED
  BY <1>6, <1>7

\* One observer more of a block that is there: weak_ptr's constructors.
LEMMA ObserverGained ==
  ASSUME Core, NEW c \in Ctrls, weak_count[c] > 0, weak_count' = [weak_count EXCEPT ![c] = @ + 1],
         UNCHANGED <<count, life, member, esft, stack>>,
         \A d \in Ctrls : Owners(d)' = Owners(d) /\ Observers(d)' = Observers(d) + Is(c, d)
  PROVE  Core'
<1>1. \A d \in Ctrls : /\ weak_count[d] \in Nat /\ weak_count'[d] = weak_count[d] + Is(c, d)
                       /\ Is(c, d) \in {0, 1} /\ (weak_count'[d] = 0 <=> weak_count[d] = 0)
  BY IsOneOrZero DEF Core, CoreTyped
<1>2. CoreTyped'
  BY DEF Core, CoreTyped
<1>3. StackOK(stack, life, member)'
  BY DEF Core, StackOK
<1>4. LifeInv'
  BY <1>1 DEF Core, LifeInv
<1>5. \A d \in Ctrls : Implied(d)' <=> Implied(d)
  BY DEF Implied, InStack
<1>6. CountInv'
  BY <1>1, <1>5, NumbersNat DEF Core, CountInv
<1> QED
  BY <1>2, <1>3, <1>4, <1>6 DEF Core

\* An object's enable_shared_from_this is an observer of its own block.
LEMMA EsftObserves == \A c \in Ctrls : Observers(c) = 0 => ~esft[c]
<1> SUFFICES ASSUME NEW c \in Ctrls, Observers(c) = 0, esft[c] PROVE FALSE
  OBVIOUS
<1>1. /\ Refs(Watched, WeakVars, c) \in Nat /\ Refs(Looking, Threads, c) \in Nat
      /\ Observers(c) = Refs(Watched, WeakVars, c) + Refs(Looking, Threads, c)
                          + Is(Attached[c], c)
  BY FiniteHolders, RefsNat, ObserversAre
<1>2. Is(Attached[c], c) = 1
  BY DEF Is, Attached
<1> QED
  BY <1>1, <1>2

\* The same, after the step.
LEMMA EsftObservesNext == (\A c \in Ctrls : Observers(c) = 0 => ~esft[c])'
  BY EsftObserves, PTL

\* The last reference deletes the control block.
LEMMA ObserverLost ==
  ASSUME Core, NEW c \in Ctrls, Observers(c) > 0, WeakRelease(c),
         UNCHANGED <<count, member, esft, stack>>,
         \A d \in Ctrls : Owners(d)' = Owners(d) /\ Observers(d)' = Observers(d) - Is(c, d)
  PROVE  Core'
<1>1. \A d \in Ctrls : Is(c, d) \in {0, 1} /\ (d # c => Is(c, d) = 0) /\ (d = c => Is(c, d) = 1)
  BY IsOneOrZero
<1>2. /\ \A d \in Ctrls : Observers(d) \in Nat /\ weak_count[d] \in Nat /\ count[d] \in Nat
      /\ weak_count[c] > 0
  BY NumbersNat DEF Core, CoreTyped, CountInv
<1>3. \A d \in Ctrls : /\ weak_count'[d] = weak_count[d] - Is(c, d)
                       /\ weak_count'[d] \in Nat
  BY <1>1, <1>2 DEF Core, CoreTyped, WeakRelease
<1>4. weak_count' \in [Ctrls -> Nat]
  BY <1>2 DEF Core, CoreTyped, WeakRelease
<1>5. life' \in [Ctrls -> Lives]
  BY DEF Core, CoreTyped, WeakRelease, Lives
<1>6. CoreTyped'
  BY <1>4, <1>5 DEF Core, CoreTyped
<1>7. \A d \in Ctrls : Implied(d)' <=> Implied(d)
  BY DEF Implied, InStack
<1>8. CountInv'
  BY <1>3, <1>7, <1>2, <1>1 DEF Core, CountInv
<1>9. CASE weak_count[c] = 1
  <2>1. ~Implied(c) /\ Observers(c) = 1
    BY <1>2, <1>9 DEF Core, CountInv
  <2>2. ~InStack(stack, c) /\ life[c] # "live" /\ ~(count[c] > 0)
    BY <2>1 DEF Implied, Core, LifeInv
  <2>3. life' = [life EXCEPT ![c] = "none"] /\ weak_count'[c] = 0 /\ Observers(c)' = 0
    BY <1>1, <1>3, <1>9, <2>1 DEF WeakRelease
  <2>4. ~esft[c]
    BY <2>3, EsftObservesNext
  <2>5. ASSUME NEW d \in Ctrls
        PROVE  /\ (life'[d] = "live") <=> (count[d] > 0)
               /\ (life'[d] = "none") <=> (weak_count'[d] = 0)
               /\ esft[d] <=> life'[d] \in {"live", "dying"}
               /\ life'[d] \in {"none", "dead"} => member[d] = None
    <3>1. CASE d = c
      <4>1. life'[c] = "none"
        BY <2>3 DEF Core, CoreTyped
      <4>2. life[c] \in {"none", "dead"}
        BY <2>2, <2>4 DEF Core, CoreTyped, LifeInv, Lives
      <4> QED
        BY <2>2, <2>3, <2>4, <3>1, <4>1, <4>2 DEF Core, LifeInv
    <3>2. CASE d # c
      <4>1. life'[d] = life[d] /\ weak_count'[d] = weak_count[d]
        BY <1>1, <1>2, <1>3, <2>3, <3>2 DEF Core, CoreTyped
      <4> QED
        BY <4>1 DEF Core, LifeInv
    <3> QED
      BY <3>1, <3>2
  <2>6. LifeInv'
    BY <2>5 DEF LifeInv
  <2>7. \A t \in Threads : \A i \in 1..Len(stack[t]) :
           stack[t][i].ctrl # c /\ stack[t][i].ctrl \in Ctrls
    BY <2>2, EntriesTyped DEF InStack, Core, CoreTyped
  <2>8. \A d \in Ctrls \ {c} : life'[d] = life[d]
    BY <2>3 DEF Core, CoreTyped
  <2>9. StackOK(stack, life, member)'
    BY <2>7, <2>8 DEF Core, StackOK
  <2> QED
    BY <1>6, <1>8, <2>6, <2>9 DEF Core
<1>10. CASE weak_count[c] # 1
  <2>1. life' = life /\ \A d \in Ctrls : weak_count'[d] = 0 <=> weak_count[d] = 0
    BY <1>1, <1>2, <1>3, <1>10 DEF WeakRelease
  <2>2. LifeInv'
    BY <2>1 DEF Core, LifeInv
  <2>3. StackOK(stack, life, member)'
    BY <2>1 DEF Core, StackOK
  <2> QED
    BY <1>6, <1>8, <2>2, <2>3 DEF Core
<1> QED
  BY <1>9, <1>10

-----------------------------------------------------------------------------
(* How a step changes the numbers of owners and observers. *)

\* Two pointers change at a time, as in a move.
LEMMA RefsMoveTwo ==
  ASSUME NEW H, IsFiniteSet(H), NEW f, NEW g, NEW c, NEW h \in H, NEW k \in H, h # k,
         \A x \in H : x # h /\ x # k => g[x] = f[x]
  PROVE  Refs(g, H, c) = Refs(f, H, c) + Is(g[h], c) - Is(f[h], c)
                                       + Is(g[k], c) - Is(f[k], c)
<1> DEFINE m == [x \in H |-> IF x = h THEN g[h] ELSE f[x]]
<1>1. /\ \A x \in H : x # h => m[x] = f[x]
      /\ \A x \in H : x # k => g[x] = m[x]
      /\ m[h] = g[h] /\ m[k] = f[k]
  OBVIOUS
<1> HIDE DEF m
<1>2. Refs(m, H, c) = Refs(f, H, c) + Is(m[h], c) - Is(f[h], c)
  BY <1>1, RefsMove
<1>3. Refs(g, H, c) = Refs(m, H, c) + Is(g[k], c) - Is(m[k], c)
  BY <1>1, RefsMove
<1>4. /\ Refs(f, H, c) \in Nat /\ Refs(g, H, c) \in Nat /\ Refs(m, H, c) \in Nat
      /\ Is(g[h], c) \in Nat /\ Is(f[h], c) \in Nat /\ Is(g[k], c) \in Nat /\ Is(f[k], c) \in Nat
  BY RefsNat, IsOneOrZero
<1> QED
  BY ONLY <1>1, <1>2, <1>3, <1>4

\* Owners, place by place, after the step.
LEMMA OwnersAreNext ==
  \A c \in Ctrls : Owners(c)' = Refs(Held', Vars, c) + Refs(member', Ctrls, c)
                                  + Refs(Lent', Threads, c) + Is(slot', c)
<1>1. (\A c \in Ctrls : Owners(c) = Refs(Held, Vars, c) + Refs(member, Ctrls, c)
                                  + Refs(Lent, Threads, c) + Is(slot, c))'
  BY OwnersAre, PTL
<1> QED
  BY <1>1

\* Observers, place by place, after the step.
LEMMA ObserversAreNext ==
  \A c \in Ctrls : Observers(c)' = Refs(Watched', WeakVars, c) + Refs(Looking', Threads, c)
                                     + Is(Attached'[c], c)
<1>1. (\A c \in Ctrls : Observers(c) = Refs(Watched, WeakVars, c) + Refs(Looking, Threads, c)
                                         + Is(Attached[c], c))'
  BY ObserversAre, PTL
<1> QED
  BY <1>1

\* What is owned is a pointer.
LEMMA OwnTyped == PointersTyped => own \in [Threads -> [Strong -> Ptr]]
  BY NullPointer DEF PointersTyped, own

\* It is one after the step.
LEMMA OwnTypedNext == PointersTyped' => own' \in [Threads -> [Strong -> Ptr]]
<1>1. (PointersTyped => own \in [Threads -> [Strong -> Ptr]])'
  BY OwnTyped, PTL
<1> QED
  BY <1>1

\* A step that changes no variable changes nothing that is owned.
LEMMA OwnSame == ASSUME sp' = sp, dec' = dec PROVE own' = own
  BY DEF own, Released

\* Nor does a step of another thread.
LEMMA OwnOthers ==
  ASSUME NEW u \in Threads, sp'[u] = sp[u], dec'[u] = dec[u]
  PROVE  own'[u] = own[u]
  BY DEF own, Released

\* A thread that is in no dec owns what its variables point to.
LEMMA OwnIsAll ==
  ASSUME PointersTyped, NEW t \in Threads, dec[t].kind = "none"
  PROVE  own[t] = sp[t]
  BY DEF PointersTyped, own, Released

\* It does after the step.
LEMMA OwnIsAllNext ==
  ASSUME NEW t \in Threads, sp'[t] \in [Strong -> Ptr], dec'[t].kind = "none"
  PROVE  own'[t] = sp'[t]
  BY DEF own, Released

\* A variable that is not being reset is set.
LEMMA OwnSet ==
  ASSUME PointersTyped, NEW t \in Threads, NEW v \in Strong, NEW c, ~Released(t, v),
         sp' = [sp EXCEPT ![t][v] = c], dec' = dec
  PROVE  own' = [own EXCEPT ![t][v] = c]
<1>1. /\ \A u \in Threads \ {t} : sp'[u] = sp[u]
      /\ sp'[t][v] = c /\ \A w \in Strong \ {v} : sp'[t][w] = sp[t][w]
  BY DEF PointersTyped
<1>2. \A u \in Threads, w \in Strong : Released(u, w)' <=> Released(u, w)
  BY DEF Released
<1>4. \A u \in Threads \ {t} : own'[u] = own[u]
  BY <1>1, OwnOthers
<1>5. own'[t] = [own[t] EXCEPT ![v] = c]
  <2>1. own[t] = [w \in Strong |-> IF Released(t, w) THEN None ELSE sp[t][w]]
    BY DEF own
  <2>2. own'[t] = [w \in Strong |-> IF Released(t, w) THEN None ELSE sp'[t][w]]
    BY <1>2 DEF own
  <2> HIDE DEF Released
  <2>3. ASSUME NEW w \in Strong
        PROVE  own'[t][w] = IF w = v THEN c ELSE own[t][w]
    BY <1>1, <2>1, <2>2
  <2> QED
    BY <2>1, <2>2, <2>3
<1>6. own' = [u \in Threads |-> own'[u]] /\ own = [u \in Threads |-> own[u]]
  BY DEF own
<1> QED
  BY <1>4, <1>5, <1>6

\* When a dec starts, its variable owns nothing more.
LEMMA OwnReleased ==
  ASSUME PointersTyped, NEW t \in Threads, NEW v \in Strong, NEW r, dec[t].kind = "none",
         r.kind # "none", r.to = v, sp' = sp, dec' = [dec EXCEPT ![t] = r]
  PROVE  own' = [own EXCEPT ![t][v] = None]
<1>1. dec'[t] = r /\ \A u \in Threads \ {t} : dec'[u] = dec[u]
  BY DEF PointersTyped
<1>2. \A u \in Threads \ {t} : own'[u] = own[u]
  BY <1>1, OwnOthers
<1>3. own'[t] = [own[t] EXCEPT ![v] = None]
  <2>1. own[t] = [w \in Strong |-> sp[t][w]]
    BY DEF own, Released
  <2>2. own'[t] = [w \in Strong |-> IF w = v THEN None ELSE sp[t][w]]
    BY <1>1 DEF own, Released
  <2> QED
    BY <2>1, <2>2
<1>4. own' = [u \in Threads |-> own'[u]] /\ own = [u \in Threads |-> own[u]]
  BY DEF own
<1> QED
  BY <1>2, <1>3, <1>4

\* When it is done, its variable owns what it is set to.
LEMMA OwnDone ==
  ASSUME PointersTyped, NEW t \in Threads, NEW v \in Strong, NEW c, dec[t].kind # "none",
         dec[t].to = v, sp' = [sp EXCEPT ![t][v] = c], dec' = [dec EXCEPT ![t] = NoDec]
  PROVE  own' = [own EXCEPT ![t][v] = c] /\ own[t][v] = None
<1>1. /\ dec'[t] = NoDec /\ \A u \in Threads \ {t} : dec'[u] = dec[u] /\ sp'[u] = sp[u]
      /\ sp'[t][v] = c /\ \A w \in Strong \ {v} : sp'[t][w] = sp[t][w]
  BY DEF PointersTyped
<1>2. \A u \in Threads \ {t} : own'[u] = own[u]
  BY <1>1, OwnOthers
<1>3. own[t] = [w \in Strong |-> IF w = v THEN None ELSE sp[t][w]]
  BY DEF own, Released
<1>4. own'[t] = [w \in Strong |-> sp'[t][w]]
  BY <1>1 DEF own, Released, NoDec
<1>5. own'[t] = [own[t] EXCEPT ![v] = c]
  BY <1>1, <1>3, <1>4
<1>6. own' = [u \in Threads |-> own'[u]] /\ own = [u \in Threads |-> own[u]]
  BY DEF own
<1> QED
  BY <1>2, <1>3, <1>5, <1>6

\* One shared_ptr variable of one thread changes.
LEMMA HeldChanges ==
  ASSUME NEW t \in Threads, NEW v \in Strong,
         \A u \in Threads \ {t} : own'[u] = own[u],
         \A w \in Strong \ {v} : own'[t][w] = own[t][w], NEW d
  PROVE  Refs(Held', Vars, d) = Refs(Held, Vars, d) + Is(own'[t][v], d) - Is(own[t][v], d)
<1>1. /\ <<t, v>> \in Vars
      /\ \A x \in Vars : Held[x] = own[x[1]][x[2]] /\ Held'[x] = own'[x[1]][x[2]]
      /\ \A x \in Vars : x = <<x[1], x[2]>> /\ x[1] \in Threads /\ x[2] \in Strong
  BY DEF Held, Vars
<1>2. \A x \in Vars : x # <<t, v>> => Held'[x] = Held[x]
  BY <1>1
<1>3. Held[<<t, v>>] = own[t][v] /\ Held'[<<t, v>>] = own'[t][v]
  BY <1>1
<1>4. Refs(Held', Vars, d) = Refs(Held, Vars, d) + Is(Held'[<<t, v>>], d) - Is(Held[<<t, v>>], d)
  BY ONLY <1>1, <1>2, FiniteHolders, RefsMove
<1> QED
  BY <1>3, <1>4

\* One weak_ptr variable of one thread changes.
LEMMA WatchedChanges ==
  ASSUME NEW t \in Threads, NEW k \in Weak,
         \A u \in Threads \ {t} : wp'[u] = wp[u],
         \A w \in Weak \ {k} : wp'[t][w] = wp[t][w], NEW d
  PROVE  Refs(Watched', WeakVars, d) = Refs(Watched, WeakVars, d) + Is(wp'[t][k], d) - Is(wp[t][k], d)
<1>1. /\ <<t, k>> \in WeakVars
      /\ \A x \in WeakVars : Watched[x] = wp[x[1]][x[2]] /\ Watched'[x] = wp'[x[1]][x[2]]
      /\ \A x \in WeakVars : x = <<x[1], x[2]>> /\ x[1] \in Threads /\ x[2] \in Weak
  BY DEF Watched, WeakVars
<1>2. \A x \in WeakVars : x # <<t, k>> => Watched'[x] = Watched[x]
  BY <1>1
<1>3. Watched[<<t, k>>] = wp[t][k] /\ Watched'[<<t, k>>] = wp'[t][k]
  BY <1>1
<1>4. Refs(Watched', WeakVars, d) = Refs(Watched, WeakVars, d) + Is(Watched'[<<t, k>>], d) - Is(Watched[<<t, k>>], d)
  BY ONLY <1>1, <1>2, FiniteHolders, RefsMove
<1> QED
  BY <1>3, <1>4

\* The call of one thread changes, and with it the reference it holds.
LEMMA InFlightChanges ==
  ASSUME NEW t \in Threads, \A u \in Threads \ {t} : call'[u] = call[u], NEW d
  PROVE  /\ Refs(Lent', Threads, d) = Refs(Lent, Threads, d) + Is(Lent'[t], d) - Is(Lent[t], d)
         /\ Refs(Looking', Threads, d) = Refs(Looking, Threads, d) + Is(Looking'[t], d) - Is(Looking[t], d)
<1>1. \A u \in Threads : u # t => Lent'[u] = Lent[u] /\ Looking'[u] = Looking[u]
  BY DEF Lent, Looking
<1> QED
  BY <1>1, FiniteHolders, RefsMove

\* The parts of Owners and Observers are numbers.
LEMMA SumsNat ==
  \A d : /\ Refs(Held, Vars, d) \in Nat /\ Refs(member, Ctrls, d) \in Nat
         /\ Refs(Lent, Threads, d) \in Nat /\ Refs(Watched, WeakVars, d) \in Nat
         /\ Refs(Looking, Threads, d) \in Nat
  BY FiniteHolders, RefsNat

\* A pointer's part in them is a number.
LEMMA IsNat == \A x, c : Is(x, c) \in Nat /\ Is(x, c) \in Int
  BY IsOneOrZero

\* A thread changes one of its variables, its call or the shared pointer.
LEMMA OwnersMove ==
  ASSUME NEW t \in Threads, NEW v \in Strong,
         \A u \in Threads \ {t} : own'[u] = own[u] /\ call'[u] = call[u],
         \A w \in Strong \ {v} : own'[t][w] = own[t][w],
         UNCHANGED member, NEW d \in Ctrls
  PROVE  Owners(d)' = Owners(d) + Is(own'[t][v], d) - Is(own[t][v], d)
                        + Is(Lent'[t], d) - Is(Lent[t], d) + Is(slot', d) - Is(slot, d)
<1>1. Refs(Held', Vars, d) = Refs(Held, Vars, d) + Is(own'[t][v], d) - Is(own[t][v], d)
  BY HeldChanges
<1>2. Refs(Lent', Threads, d) = Refs(Lent, Threads, d) + Is(Lent'[t], d) - Is(Lent[t], d)
  BY InFlightChanges
<1>3. Refs(member', Ctrls, d) = Refs(member, Ctrls, d)
  OBVIOUS
<1>4. /\ Owners(d) = Refs(Held, Vars, d) + Refs(member, Ctrls, d) + Refs(Lent, Threads, d) + Is(slot, d)
      /\ Owners(d)' = Refs(Held', Vars, d) + Refs(member', Ctrls, d) + Refs(Lent', Threads, d) + Is(slot', d)
  BY OwnersAre, OwnersAreNext
<1>5. /\ Refs(Held, Vars, d) \in Nat /\ Refs(member, Ctrls, d) \in Nat /\ Refs(Lent, Threads, d) \in Nat
      /\ Is(own'[t][v], d) \in Nat /\ Is(own[t][v], d) \in Nat /\ Is(Lent'[t], d) \in Nat
      /\ Is(Lent[t], d) \in Nat /\ Is(slot', d) \in Nat /\ Is(slot, d) \in Nat
  BY SumsNat, IsNat
<1> QED
  BY ONLY <1>1, <1>2, <1>3, <1>4, <1>5

\* A thread changes one of its weak pointers or its call.
LEMMA ObserversMove ==
  ASSUME NEW t \in Threads, NEW k \in Weak,
         \A u \in Threads \ {t} : wp'[u] = wp[u] /\ call'[u] = call[u],
         \A w \in Weak \ {k} : wp'[t][w] = wp[t][w],
         UNCHANGED esft, NEW d \in Ctrls
  PROVE  Observers(d)' = Observers(d) + Is(wp'[t][k], d) - Is(wp[t][k], d)
                           + Is(Looking'[t], d) - Is(Looking[t], d)
<1>1. Refs(Watched', WeakVars, d) = Refs(Watched, WeakVars, d) + Is(wp'[t][k], d) - Is(wp[t][k], d)
  BY WatchedChanges
<1>2. Refs(Looking', Threads, d) = Refs(Looking, Threads, d) + Is(Looking'[t], d) - Is(Looking[t], d)
  BY InFlightChanges
<1>3. Attached' = Attached
  BY DEF Attached
<1>4. /\ Observers(d) = Refs(Watched, WeakVars, d) + Refs(Looking, Threads, d) + Is(Attached[d], d)
      /\ Observers(d)' = Refs(Watched', WeakVars, d) + Refs(Looking', Threads, d) + Is(Attached'[d], d)
  BY ObserversAre, ObserversAreNext
<1>5. /\ Refs(Watched, WeakVars, d) \in Nat /\ Refs(Looking, Threads, d) \in Nat
      /\ Is(wp'[t][k], d) \in Nat /\ Is(wp[t][k], d) \in Nat /\ Is(Looking'[t], d) \in Nat
      /\ Is(Looking[t], d) \in Nat /\ Is(Attached[d], d) \in Nat
  BY SumsNat, IsNat
<1> QED
  BY ONLY <1>1, <1>2, <1>3, <1>4, <1>5

\* A thread changes its call only.
LEMMA ObserversCall ==
  ASSUME NEW t \in Threads, \A u \in Threads \ {t} : call'[u] = call[u],
         UNCHANGED <<wp, esft>>, NEW d \in Ctrls
  PROVE  Observers(d)' = Observers(d) + Is(Looking'[t], d) - Is(Looking[t], d)
<1>1. Watched' = Watched /\ Attached' = Attached
  BY DEF Watched, Attached
<1>2. Refs(Looking', Threads, d) = Refs(Looking, Threads, d) + Is(Looking'[t], d) - Is(Looking[t], d)
  BY InFlightChanges
<1>4. /\ Observers(d) = Refs(Watched, WeakVars, d) + Refs(Looking, Threads, d) + Is(Attached[d], d)
      /\ Observers(d)' = Refs(Watched', WeakVars, d) + Refs(Looking', Threads, d) + Is(Attached'[d], d)
  BY ObserversAre, ObserversAreNext
<1>5. /\ Refs(Watched, WeakVars, d) \in Nat /\ Refs(Looking, Threads, d) \in Nat
      /\ Is(Looking'[t], d) \in Nat
      /\ Is(Looking[t], d) \in Nat /\ Is(Attached[d], d) \in Nat
  BY SumsNat, IsNat
<1> QED
  BY ONLY <1>1, <1>2, <1>4, <1>5

-----------------------------------------------------------------------------
(* The inductive invariant. *)

\* What a call of thread t keeps: k is the call, s what the variables of the thread
\* own, w its weak pointers, st its destructors, sn the lock and sl the shared pointer.
CallOK(k, s, w, st, sn, sl, t) ==
  /\ k.pc \in {"load", "inc", "store", "drop"} => st = <<>>
  /\ k.pc = "convert" /\ k.seen # 0 => st = <<>>
  /\ k.pc \in {"cas", "convert"} => k.ctrl # None
  /\ k.pc = "convert" => k.to = 0
  /\ k.pc \in {"load", "inc", "store", "drop"} => k.to # 0
  /\ k.pc \in {"load", "inc"} => s[k.to] = None
  /\ k.pc = "cas" /\ k.to # 0 =>
       /\ s[k.to] = None
       /\ \/ \E j \in Weak : w[j] = k.ctrl
          \/ \E v \in Strong : s[v] = k.ctrl
          \/ st # <<>> /\ Head(st) = [ctrl |-> k.ctrl, stage |-> "members"]
  /\ k.pc = "cas" /\ st # <<>> => k.to # 0 /\ Head(st).stage = "members"
  /\ k.pc \in {"load", "inc", "store"} => sn = t
  /\ k.pc = "inc" => k.ctrl = sl

\* What a dec r under way keeps: k is the thread's call, s its variables and st its
\* destructors.  They run below the dec of a pointer only, and a lock in one of them
\* is for another variable.
DecOK(r, k, s, st) ==
  r.kind # "none" =>
    /\ r.to # 0
    /\ k.pc \in {"idle", "cas"}
    /\ k.pc = "cas" => st # <<>> /\ k.to # r.to
    /\ st # <<>> => s[r.to] # None
    /\ r.kind = "assign" /\ r.from.object = None => r.from.var \notin {0, r.to}
    /\ r.kind = "move" => r.from.object = None /\ r.from.var # 0

Inv == /\ PointersTyped
       /\ Core
       /\ \A t \in Threads : CallOK(call[t], own[t], wp[t], stack[t], spin, slot, t)
       /\ \A t \in Threads : DecOK(dec[t], call[t], sp[t], stack[t])

\* The invariant, after the step.
LEMMA InvNext ==
  Inv' <=> /\ PointersTyped' /\ Core'
           /\ \A t \in Threads : CallOK(call'[t], own'[t], wp'[t], stack'[t], spin', slot', t)
           /\ \A t \in Threads : DecOK(dec'[t], call'[t], sp'[t], stack'[t])
  BY DEF Inv, CallOK, DecOK

\* A step of one thread leaves the calls of the others as they are: they hold no
\* lock while it changes the shared pointer or the lock.
LEMMA OthersKeep ==
  ASSUME NEW k, NEW s, NEW w, NEW st, NEW sn, NEW sl, NEW sn2, NEW sl2, NEW u,
         CallOK(k, s, w, st, sn, sl, u), (sn2 = sn /\ sl2 = sl) \/ sn # u
  PROVE  CallOK(k, s, w, st, sn2, sl2, u)
<1>1. CASE sn2 = sn /\ sl2 = sl
  BY <1>1
<1>2. CASE sn # u
  <2>1. k.pc \notin {"load", "inc", "store"}
    BY <1>2 DEF CallOK
  <2> QED
    BY <2>1 DEF CallOK
<1> QED
  BY <1>1, <1>2

\* A step of thread t keeps the invariant when it keeps the counts and t's own call.
LEMMA InvStep ==
  ASSUME Inv, PointersTyped', Core', NEW t \in Threads,
         \A u \in Threads \ {t} : /\ call'[u] = call[u] /\ sp'[u] = sp[u] /\ dec'[u] = dec[u]
                                  /\ wp'[u] = wp[u] /\ stack'[u] = stack[u],
         (spin' = spin /\ slot' = slot) \/ spin \in {None, t},
         CallOK(call'[t], own'[t], wp'[t], stack'[t], spin', slot', t),
         DecOK(dec'[t], call'[t], sp'[t], stack'[t])
  PROVE  Inv'
<1>1. ASSUME NEW u \in Threads \ {t}
      PROVE  CallOK(call'[u], own'[u], wp'[u], stack'[u], spin', slot', u)
  <2>1. CallOK(call[u], own[u], wp[u], stack[u], spin, slot, u)
    BY DEF Inv
  <2>2. (spin' = spin /\ slot' = slot) \/ spin # u
    BY NullPointer
  <2>3. call'[u] = call[u] /\ own'[u] = own[u] /\ wp'[u] = wp[u] /\ stack'[u] = stack[u]
    BY OwnOthers
  <2>4. CallOK(call[u], own[u], wp[u], stack[u], spin', slot', u)
    BY <2>1, <2>2, OthersKeep
  <2> QED
    BY <2>3, <2>4
<1>2. ASSUME NEW u \in Threads \ {t}
      PROVE  DecOK(dec'[u], call'[u], sp'[u], stack'[u])
  <2>1. DecOK(dec[u], call[u], sp[u], stack[u])
    BY DEF Inv
  <2> QED
    BY <2>1
<1> QED
  BY <1>1, <1>2, InvNext

\* A thread that is in no dec keeps nothing for one.
LEMMA NoDecOK ==
  ASSUME NEW r, NEW k, NEW s, NEW st, r.kind = "none"
  PROVE  DecOK(r, k, s, st)
  BY DEF DecOK

\* The destructors of a dec go on.
LEMMA DecWaits ==
  ASSUME NEW r, NEW k, NEW s, NEW st, NEW st2, DecOK(r, k, s, st), st # <<>>, k.pc # "cas"
  PROVE  DecOK(r, k, s, st2)
  BY DEF DecOK

\* A thread between two calls keeps nothing.
LEMMA IdleOK ==
  ASSUME NEW k, NEW s, NEW w, NEW st, NEW sn, NEW sl, NEW u, k.pc = "idle"
  PROVE  CallOK(k, s, w, st, sn, sl, u)
  BY DEF CallOK

\* The call of a thread between two calls.
LEMMA IdleTyped == Idle \in Call /\ Idle.pc = "idle"
  BY NullPointer DEF Idle, Call

-----------------------------------------------------------------------------
(* What the counts say of a pointer. *)

\* An object with an owner is live, and its block is there.
LEMMA OwnedIsLive ==
  ASSUME Inv, NEW c \in Ctrls, Owners(c) > 0
  PROVE  count[c] > 0 /\ life[c] = "live" /\ weak_count[c] > 0
<1>1. count[c] > 0 /\ life[c] = "live"
  BY DEF Inv, Core, CountInv, LifeInv
<1>2. weak_count[c] \in Nat /\ weak_count[c] # 0
  BY <1>1 DEF Inv, Core, CoreTyped, LifeInv
<1> QED
  BY <1>1, <1>2

\* A block with an observer is not deleted.
LEMMA ObservedIsThere ==
  ASSUME Inv, NEW c \in Ctrls, Observers(c) > 0
  PROVE  weak_count[c] > 0 /\ life[c] # "none"
<1>1. weak_count[c] > 0
  BY NumbersNat DEF Inv, Core, CountInv
<1> QED
  BY <1>1 DEF Inv, Core, LifeInv

\* The object that a shared_ptr variable points to has an owner.
LEMMA HeldIsOwned ==
  ASSUME Inv, NEW t \in Threads, NEW v \in Strong, own[t][v] # None
  PROVE  own[t][v] \in Ctrls /\ Owners(own[t][v]) > 0
<1> DEFINE c == own[t][v]
<1>1. c \in Ctrls
  BY NullPointer, OwnTyped DEF Inv
<1>2. <<t, v>> \in Vars /\ Held[<<t, v>>] = c
  BY DEF Held, Vars
<1> HIDE DEF c
<1>3. Refs(Held, Vars, c) > 0
  BY ONLY <1>2, FiniteHolders, RefsFound
<1> QED
  BY ONLY <1>1, <1>3, OwnersAre, SumsNat, IsNat DEF c

\* The object that another object's member points to has an owner.
LEMMA MemberIsOwned ==
  ASSUME Inv, NEW o \in Ctrls, member[o] # None
  PROVE  member[o] \in Ctrls /\ Owners(member[o]) > 0
<1> DEFINE c == member[o]
<1>1. c \in Ctrls
  BY NullPointer DEF Inv, Core, CoreTyped
<1>2. member[o] = c
  OBVIOUS
<1> HIDE DEF c
<1>3. Refs(member, Ctrls, c) > 0
  BY ONLY <1>2, FiniteHolders, RefsFound, o \in Ctrls
<1> QED
  BY ONLY <1>1, <1>3, OwnersAre, SumsNat, IsNat DEF c

\* The object that the shared pointer points to has an owner.
LEMMA SlotIsOwned ==
  ASSUME Inv, slot # None
  PROVE  slot \in Ctrls /\ Owners(slot) > 0
<1>1. slot \in Ctrls
  BY NullPointer DEF Inv, PointersTyped
<1>2. Is(slot, slot) = 1
  BY IsOneOrZero
<1> QED
  BY ONLY <1>1, <1>2, OwnersAre, SumsNat, IsNat

\* The object that a conversion has locked has an owner.
LEMMA LentIsOwned ==
  ASSUME Inv, NEW t \in Threads, call[t].pc = "convert", call[t].seen # 0
  PROVE  call[t].ctrl \in Ctrls /\ Owners(call[t].ctrl) > 0
<1> DEFINE c == call[t].ctrl
<1>1. c \in Ctrls
  <2>1. c # None /\ call[t] \in Call
    BY DEF Inv, PointersTyped, CallOK
  <2> QED
    BY <2>1, NullPointer DEF Call
<1>2. Lent[t] = c
  BY DEF Lent
<1> HIDE DEF c
<1>3. Refs(Lent, Threads, c) > 0
  BY ONLY <1>2, FiniteHolders, RefsFound, t \in Threads
<1> QED
  BY ONLY <1>1, <1>3, OwnersAre, SumsNat, IsNat DEF c

\* The block that a weak_ptr variable points to has an observer.
LEMMA WatchedIsObserved ==
  ASSUME Inv, NEW t \in Threads, NEW k \in Weak, wp[t][k] # None
  PROVE  wp[t][k] \in Ctrls /\ Observers(wp[t][k]) > 0
<1> DEFINE c == wp[t][k]
<1>1. c \in Ctrls
  BY NullPointer DEF Inv, PointersTyped
<1>2. <<t, k>> \in WeakVars /\ Watched[<<t, k>>] = c
  BY DEF Watched, WeakVars
<1> HIDE DEF c
<1>3. Refs(Watched, WeakVars, c) > 0
  BY ONLY <1>2, FiniteHolders, RefsFound
<1> QED
  BY ONLY <1>1, <1>3, ObserversAre, SumsNat, IsNat DEF c

\* The block that a conversion or a nested lock looks at has an observer.
LEMMA LookingIsObserved ==
  ASSUME Inv, NEW t \in Threads, call[t].pc \in {"cas", "convert"}, call[t].to = 0
  PROVE  call[t].ctrl \in Ctrls /\ Observers(call[t].ctrl) > 0
<1> DEFINE c == call[t].ctrl
<1>1. c \in Ctrls
  <2>1. c # None /\ call[t] \in Call
    BY DEF Inv, PointersTyped, CallOK
  <2> QED
    BY <2>1, NullPointer DEF Call
<1>2. Looking[t] = c
  BY DEF Looking
<1> HIDE DEF c
<1>3. Refs(Looking, Threads, c) > 0
  BY ONLY <1>2, FiniteHolders, RefsFound, t \in Threads
<1> QED
  BY ONLY <1>1, <1>3, ObserversAre, SumsNat, IsNat DEF c

-----------------------------------------------------------------------------
(* One lemma for each kind of step. *)

\* The types of what a thread owns.
LEMMA Row ==
  ASSUME Inv, NEW t \in Threads
  PROVE  /\ call[t] \in Call /\ own[t] \in [Strong -> Ptr] /\ wp[t] \in [Weak -> Ptr]
         /\ sp[t] \in [Strong -> Ptr] /\ dec[t] \in Dec
         /\ stack[t] \in Seq(Destruction)
         /\ CallOK(call[t], own[t], wp[t], stack[t], spin, slot, t)
         /\ DecOK(dec[t], call[t], sp[t], stack[t])
         /\ 1 \in Strong
  BY SharedPtrAssumption, OwnTyped DEF Inv, PointersTyped, Core, CoreTyped, Stacks, Strong

\* The null pointer is not counted.
LEMMA IsNone == \A d \in Ctrls : Is(None, d) = 0
  BY NullPointer, IsOneOrZero

\* Only a conversion, or a lock without a variable, holds a reference of its own.
LEMMA NotInFlight ==
  ASSUME NEW t \in Threads
  PROVE  /\ call[t].pc # "convert" => Lent[t] = None
         /\ call[t].pc \notin {"cas", "convert"} \/ call[t].to # 0 => Looking[t] = None
         /\ call'[t].pc # "convert" => Lent'[t] = None
         /\ call'[t].pc \notin {"cas", "convert"} \/ call'[t].to # 0 => Looking'[t] = None
  BY DEF Lent, Looking

\* What a thread can copy or move from.
LEMMA PlacesAre ==
  \A t : \A p \in Places(t) : p \in Place /\ (p.object = None => p.var # 0)
  BY NullPointer DEF Places, Var, MemberOf, Place, Ptr, Strong

\* In a call that is neither a lock nor between two steps of dec, there is no dec.
LEMMA CallNoDec ==
  ASSUME Inv, NEW t \in Threads, call[t].pc \notin {"idle", "cas"}
  PROVE  dec[t].kind = "none"
  BY Row DEF DecOK

\* A null variable that a thread fills, between two calls or in the body of a
\* destructor, is not the one that is being reset.
LEMMA NullIsFree ==
  ASSUME Inv, NEW t \in Threads, NEW v \in Strong, sp[t][v] = None, IsIdle(t) \/ InBody(t)
  PROVE  ~Released(t, v) /\ own[t][v] = None
<1>1. ~Released(t, v)
  BY Row DEF DecOK, Released, IsIdle, InBody
<1> QED
  BY <1>1 DEF own

\* The object that the right side of a copy points to has an owner.
LEMMA PlaceIsOwned ==
  ASSUME Inv, NEW t \in Threads, NEW p \in Place,
         p.object = None => p.var # 0 /\ ~Released(t, p.var), Value(t, p) # None
  PROVE  Value(t, p) \in Ctrls /\ Owners(Value(t, p)) > 0
<1>1. CASE p.object = None
  <2>1. p.var \in Strong /\ Value(t, p) = own[t][p.var]
    BY <1>1 DEF Place, Value, own
  <2> QED
    BY <2>1, HeldIsOwned
<1>2. CASE p.object # None
  <2>1. p.object \in Ctrls /\ Value(t, p) = member[p.object]
    BY <1>2, NullPointer DEF Place, Value
  <2> QED
    BY <2>1, MemberIsOwned
<1> QED
  BY <1>1, <1>2

\* A null variable of the thread becomes one more pointer to a live object.
LEMMA VarGains ==
  ASSUME Inv, NEW t \in Threads, NEW v \in Strong, NEW c \in Ctrls, Owners(c) > 0,
         own[t][v] = None, own' = [own EXCEPT ![t][v] = c], count' = [count EXCEPT ![c] = @ + 1],
         UNCHANGED <<weak_count, life, member, esft, wp, slot, stack>>,
         \A u \in Threads \ {t} : call'[u] = call[u],
         Lent'[t] = Lent[t], Looking'[t] = Looking[t]
  PROVE  /\ Core' /\ own' \in [Threads -> [Strong -> Ptr]]
         /\ own'[t] = [own[t] EXCEPT ![v] = c] /\ \A u \in Threads \ {t} : own'[u] = own[u]
<1>1. count[c] > 0
  BY OwnedIsLive
<1>0. own \in [Threads -> [Strong -> Ptr]]
  BY OwnTyped DEF Inv
<1>2. own' \in [Threads -> [Strong -> Ptr]]
  BY <1>0 DEF Ptr
<1>3. /\ own'[t][v] = c /\ \A u \in Threads \ {t} : own'[u] = own[u]
      /\ \A w \in Strong \ {v} : own'[t][w] = own[t][w]
      /\ own'[t] = [own[t] EXCEPT ![v] = c]
  BY <1>0
<1>4. ASSUME NEW d \in Ctrls
      PROVE  Owners(d)' = Owners(d) + Is(c, d) /\ Observers(d)' = Observers(d)
  <2>1. Owners(d)' = Owners(d) + Is(own'[t][v], d) - Is(own[t][v], d)
                        + Is(Lent'[t], d) - Is(Lent[t], d) + Is(slot', d) - Is(slot, d)
    BY <1>3, OwnersMove
  <2>2. Observers(d)' = Observers(d) + Is(Looking'[t], d) - Is(Looking[t], d)
    BY ObserversCall
  <2> QED
    BY <1>3, <2>1, <2>2, IsNone, IsNat, NumbersNat
<1>5. Core'
  BY <1>1, <1>4, OwnerGained DEF Inv
<1> QED
  BY <1>2, <1>3, <1>5

\* A variable of the thread becomes null, and may have been the last owner.
LEMMA VarLoses ==
  ASSUME Inv, NEW t \in Threads, NEW v \in Strong, NEW c, c = own[t][v], c # None,
         own' = [own EXCEPT ![t][v] = None], StrongRelease(t, c, <<>>), stack[t] = <<>>,
         UNCHANGED <<weak_count, member, esft, wp, slot>>,
         \A u \in Threads \ {t} : call'[u] = call[u],
         Lent'[t] = Lent[t], Looking'[t] = Looking[t]
  PROVE  /\ Core' /\ own' \in [Threads -> [Strong -> Ptr]]
         /\ own'[t] = [own[t] EXCEPT ![v] = None]
         /\ \A u \in Threads \ {t} : own'[u] = own[u] /\ stack'[u] = stack[u]
<1>1. c \in Ctrls /\ count[c] > 0
  BY HeldIsOwned, OwnedIsLive
<1>0. own \in [Threads -> [Strong -> Ptr]]
  BY OwnTyped DEF Inv
<1>2. own' \in [Threads -> [Strong -> Ptr]]
  BY <1>0, NullPointer
<1>3. /\ own'[t][v] = None /\ \A u \in Threads \ {t} : own'[u] = own[u]
      /\ \A w \in Strong \ {v} : own'[t][w] = own[t][w]
      /\ own'[t] = [own[t] EXCEPT ![v] = None]
  BY <1>0
<1>4. ASSUME NEW d \in Ctrls
      PROVE  Owners(d)' = Owners(d) - Is(c, d) /\ Observers(d)' = Observers(d)
  <2>1. Owners(d)' = Owners(d) + Is(own'[t][v], d) - Is(own[t][v], d)
                        + Is(Lent'[t], d) - Is(Lent[t], d) + Is(slot', d) - Is(slot, d)
    BY <1>3, OwnersMove
  <2>2. Observers(d)' = Observers(d) + Is(Looking'[t], d) - Is(Looking[t], d)
    BY ObserversCall
  <2>3. /\ Is(own'[t][v], d) = 0 /\ Is(own[t][v], d) = Is(c, d)
        /\ Is(Lent'[t], d) = Is(Lent[t], d) /\ slot' = slot
        /\ Is(Looking'[t], d) = Is(Looking[t], d)
    BY <1>3, IsNone
  <2> QED
    BY ONLY <2>1, <2>2, <2>3, IsNat, NumbersNat, d \in Ctrls
<1>5. Core'
  <2> DEFINE below == <<>>
  <2>1. [stack EXCEPT ![t] = below] = stack
    BY DEF Inv, Core, CoreTyped, Stacks
  <2>2. /\ StackOK([stack EXCEPT ![t] = below], life, member')
        /\ \A d : InStack([stack EXCEPT ![t] = below], d) <=> InStack(stack, d)
        /\ member' \in [Ctrls -> Ptr] /\ \A d \in Ctrls : member'[d] \in {None, member[d]}
    BY <2>1 DEF Inv, Core, CoreTyped
  <2>3. below \in Seq(Destruction) /\ Core
    BY DEF Inv
  <2>4. StrongRelease(t, c, below) /\ UNCHANGED <<weak_count, esft>>
    OBVIOUS
  <2> HIDE DEF below
  <2> QED
    BY ONLY <1>1, <1>4, <2>2, <2>3, <2>4, t \in Threads, OwnerLost
<1>6. \A u \in Threads \ {t} : stack'[u] = stack[u]
  BY DEF StrongRelease, Inv, Core, CoreTyped, Stacks
<1> QED
  BY <1>2, <1>3, <1>5, <1>6

\* The call of the thread changes, and nothing that is counted.
LEMMA CallChanges ==
  ASSUME Inv, NEW t \in Threads,
         UNCHANGED <<count, weak_count, life, member, esft, own, wp, slot, stack>>,
         \A u \in Threads \ {t} : call'[u] = call[u],
         Lent'[t] = Lent[t], Looking'[t] = Looking[t]
  PROVE  Core'
<1>1. 1 \in Strong
  BY Row
<1>2. ASSUME NEW d \in Ctrls
      PROVE  Owners(d)' = Owners(d) /\ Observers(d)' = Observers(d)
  <2>1. Owners(d)' = Owners(d) + Is(own'[t][1], d) - Is(own[t][1], d)
                        + Is(Lent'[t], d) - Is(Lent[t], d) + Is(slot', d) - Is(slot, d)
    BY <1>1, OwnersMove
  <2>2. Observers(d)' = Observers(d) + Is(Looking'[t], d) - Is(Looking[t], d)
    BY ObserversCall
  <2> QED
    BY <2>1, <2>2, IsNat, NumbersNat
<1> QED
  BY <1>2, NothingChanges DEF Inv

\* The copy constructor keeps the invariant: the count is not zero when it is raised.
LEMMA CopyInv ==
  ASSUME Inv, ReadsReleased = FALSE, NEW t \in Threads, NEW v \in Strong, NEW p \in Places(t),
         Copy(t, v, p)
  PROVE  Inv'
<1> DEFINE c == Value(t, p)
<1>1. c \in Ctrls /\ Owners(c) > 0
  <2>1. p \in Place /\ (p.object = None => p.var # 0)
    BY PlacesAre
  <2>2. ASSUME p.object = None PROVE ~Released(t, p.var)
    <3>1. \A S : p.object \notin Reachable(t, S)
      BY <2>2, NullPointer DEF Reachable
    <3>2. InBody(t) => p.object # Head(stack[t]).ctrl
      BY <2>2, NullPointer, HeadTyped DEF InBody, Inv, Core, CoreTyped
    <3> QED
      BY <3>1, <3>2 DEF Copy
  <2> QED
    BY <2>1, <2>2, PlaceIsOwned DEF Copy
<1>2. /\ sp' = [sp EXCEPT ![t][v] = c] /\ count' = [count EXCEPT ![c] = @ + 1]
      /\ sp[t][v] = None /\ call[t].pc = "idle" /\ (IsIdle(t) \/ InBody(t))
      /\ UNCHANGED <<weak_count, life, member, esft, wp, slot, spin, dec, call, stack>>
  BY DEF Copy, IsIdle, InBody
<1> HIDE DEF c
<1>3. Lent' = Lent /\ Looking' = Looking
  BY <1>2 DEF Lent, Looking
<1>4. ~Released(t, v) /\ own[t][v] = None
  BY <1>2, NullIsFree
<1>5. own' = [own EXCEPT ![t][v] = c]
  BY <1>2, <1>4, OwnSet DEF Inv
<1>6. Core'
  BY <1>1, <1>2, <1>3, <1>4, <1>5, VarGains
<1>7. PointersTyped'
  BY <1>1, <1>2 DEF Inv, PointersTyped, Ptr
<1>8. /\ \A u \in Threads \ {t} : sp'[u] = sp[u]
      /\ \A w \in Strong \ {v} : sp'[t][w] = sp[t][w]
  BY <1>2 DEF Inv, PointersTyped
<1>9. CallOK(call'[t], own'[t], wp'[t], stack'[t], spin', slot', t)
  BY <1>2, IdleOK
<1>10. DecOK(dec'[t], call'[t], sp'[t], stack'[t])
  <2>1. CASE dec[t].kind = "none"
    BY <1>2, <2>1, NoDecOK
  <2>2. CASE dec[t].kind # "none"
    <3>1. /\ DecOK(dec[t], call[t], sp[t], stack[t]) /\ dec[t].to \in Strong \cup {0}
          /\ dec[t].to # v
      BY <1>4, <2>2, Row DEF Dec, Released
    <3>2. dec[t].to \in Strong /\ sp'[t][dec[t].to] = sp[t][dec[t].to]
      BY <1>8, <2>2, <3>1 DEF DecOK
    <3> QED
      BY <1>2, <2>2, <3>1, <3>2 DEF DecOK
  <2> QED
    BY <2>1, <2>2
<1> QED
  BY <1>2, <1>6, <1>7, <1>8, <1>9, <1>10, InvStep

\* So does the release in dec, which may start the destructor of the object.
LEMMA BeginDecInv ==
  ASSUME Inv, NEW t \in Threads, NEW v \in Strong, NEW kind \in {"reset", "assign", "move"},
         NEW p \in Place, IsIdle(t), BeginDec(t, v, kind, p),
         kind = "assign" /\ p.object = None => p.var \notin {0, v},
         kind = "move" => p.object = None /\ p.var # 0,
         UNCHANGED <<weak_count, member, esft, sp, wp, slot, spin, call>>
  PROVE  Inv'
<1> DEFINE c == sp[t][v]
           r == [kind |-> kind, to |-> v, from |-> p]
<1>1. /\ \/ c # None /\ StrongRelease(t, c, <<>>)
         \/ c = None /\ UNCHANGED <<count, life, stack>>
      /\ dec' = [dec EXCEPT ![t] = r] /\ dec[t].kind = "none"
      /\ c = sp[t][v] /\ call[t].pc = "idle" /\ stack[t] = <<>>
  BY DEF BeginDec, IsIdle
<1>2. r \in Dec /\ r.kind = kind /\ r.to = v /\ r.from = p /\ kind # "none" /\ v # 0
  BY DEF Dec, Strong
<1> HIDE DEF c, r
<1>3. /\ dec'[t] = r /\ \A u \in Threads \ {t} : dec'[u] = dec[u]
      /\ PointersTyped'
  BY <1>1, <1>2 DEF Inv, PointersTyped
<1>4. own' = [own EXCEPT ![t][v] = None] /\ own[t] = sp[t]
  BY <1>1, <1>2, OwnReleased, OwnIsAll DEF Inv
<1>5. Lent' = Lent /\ Looking' = Looking
  BY DEF Lent, Looking
<1>6. Core' /\ \A u \in Threads \ {t} : stack'[u] = stack[u]
  <2>1. CASE c # None /\ StrongRelease(t, c, <<>>)
    BY <1>1, <1>4, <1>5, <2>1, VarLoses
  <2>2. CASE c = None /\ UNCHANGED <<count, life, stack>>
    <3>1. own' = own
      BY <1>1, <1>4, <2>2, OwnTyped DEF Inv
    <3> QED
      BY <1>5, <2>2, <3>1, CallChanges
  <2> QED
    BY <1>1, <2>1, <2>2
<1>7. CallOK(call'[t], own'[t], wp'[t], stack'[t], spin', slot', t)
  BY <1>1, IdleOK
<1>8. DecOK(dec'[t], call'[t], sp'[t], stack'[t])
  BY <1>1, <1>2, <1>3 DEF DecOK
<1> QED
  BY <1>3, <1>6, <1>7, <1>8, InvStep

\* So does the destructor of a shared_ptr.
LEMMA DropInv ==
  ASSUME Inv, NEW t \in Threads, NEW v \in Strong, Drop(t, v)
  PROVE  Inv'
<1>1. NoDec.from \in Place
  BY DEF NoDec, Place, Ptr
<1> QED
  BY <1>1, BeginDecInv DEF Drop

\* So does reset when the release is back: the variable owns nothing by then.
LEMMA DropDoneInv ==
  ASSUME Inv, NEW t \in Threads, DropDone(t)
  PROVE  Inv'
<1> DEFINE v == dec[t].to
<1>1. /\ sp' = [sp EXCEPT ![t][v] = None] /\ dec' = [dec EXCEPT ![t] = NoDec]
      /\ dec[t].kind # "none" /\ stack[t] = <<>>
      /\ UNCHANGED <<count, weak_count, life, member, esft, wp, slot, spin, call, stack>>
  BY DEF DropDone
<1>2. /\ dec[t] \in Dec /\ DecOK(dec[t], call[t], sp[t], stack[t]) /\ v = dec[t].to
      /\ CallOK(call[t], own[t], wp[t], stack[t], spin, slot, t)
  BY Row
<1>3. v \in Strong /\ call[t].pc = "idle"
  BY <1>1, <1>2 DEF DecOK, Dec
<1> HIDE DEF v
<1>4. NoDec \in Dec /\ NoDec.kind = "none"
  BY DEF NoDec, Dec, Place, Ptr
<1>5. PointersTyped' /\ \A u \in Threads \ {t} : sp'[u] = sp[u] /\ dec'[u] = dec[u]
  BY <1>1, <1>3, <1>4, NullPointer DEF Inv, PointersTyped
<1>6. \A u \in Threads \ {t} : own'[u] = own[u]
  BY <1>5, OwnOthers
<1>7. own' = own
  <2>1. own[t] = [w \in Strong |-> IF w = v THEN None ELSE sp[t][w]]
    BY <1>1, <1>2 DEF own, Released
  <2>2. sp'[t] \in [Strong -> Ptr] /\ sp'[t][v] = None
        /\ \A w \in Strong \ {v} : sp'[t][w] = sp[t][w]
    BY <1>1, <1>3, <1>5 DEF Inv, PointersTyped
  <2>3. dec'[t] = NoDec
    BY <1>1 DEF Inv, PointersTyped
  <2>4. own'[t] = [w \in Strong |-> sp'[t][w]]
    BY <2>3, <1>4 DEF own, Released
  <2>5. own'[t] = own[t]
    BY <2>1, <2>2, <2>4
  <2>6. own' = [u \in Threads |-> own'[u]] /\ own = [u \in Threads |-> own[u]]
    BY DEF own
  <2> QED
    BY <1>6, <2>5, <2>6
<1>8. Lent' = Lent /\ Looking' = Looking
  BY <1>1 DEF Lent, Looking
<1>9. Core'
  BY <1>1, <1>7, <1>8, CallChanges
<1>10. CallOK(call'[t], own'[t], wp'[t], stack'[t], spin', slot', t)
  BY <1>1, <1>3, IdleOK
<1>11. DecOK(dec'[t], call'[t], sp'[t], stack'[t])
  BY <1>1, <1>4, NoDecOK DEF Inv, PointersTyped
<1> QED
  BY <1>1, <1>5, <1>9, <1>10, <1>11, InvStep

\* So does the release of the left side of an assignment.
LEMMA AssignInv ==
  ASSUME Inv, NEW t \in Threads, NEW v \in Strong, NEW p \in Places(t), Assign(t, v, p)
  PROVE  Inv'
<1>1. p \in Place /\ (p.object = None => p.var # 0)
  BY PlacesAre
<1>2. p.object = None => p.var \notin {0, v}
  BY <1>1, NullPointer DEF Assign, Places, Var, MemberOf
<1> QED
  BY <1>1, <1>2, BeginDecInv DEF Assign

\* So does the copy of its right side, which something still owns.
LEMMA AssignReadInv ==
  ASSUME Inv, NEW t \in Threads, AssignRead(t)
  PROVE  Inv'
<1> DEFINE v == dec[t].to
           p == dec[t].from
           c == Value(t, p)
<1>1. /\ sp' = [sp EXCEPT ![t][v] = c] /\ dec' = [dec EXCEPT ![t] = NoDec]
      /\ count' = IF c = None THEN count ELSE [count EXCEPT ![c] = @ + 1]
      /\ dec[t].kind = "assign" /\ stack[t] = <<>>
      /\ UNCHANGED <<weak_count, life, member, esft, wp, slot, spin, call, stack>>
  BY DEF AssignRead
<1>2. dec[t] \in Dec /\ DecOK(dec[t], call[t], sp[t], stack[t]) /\ v = dec[t].to
  BY Row
<1>3. /\ v \in Strong /\ call[t].pc = "idle"
      /\ p \in Place /\ (p.object = None => p.var \notin {0, v})
  BY <1>1, <1>2 DEF DecOK, Dec
<1>4. c # None => c \in Ctrls /\ Owners(c) > 0
  BY <1>3, PlaceIsOwned DEF Released
<1> HIDE DEF c, v, p
<1>5. NoDec \in Dec /\ NoDec.kind = "none"
  BY DEF NoDec, Dec, Place, Ptr
<1>6. PointersTyped' /\ \A u \in Threads \ {t} : sp'[u] = sp[u] /\ dec'[u] = dec[u]
  <2>1. c \in Ptr
    BY <1>4, NullPointer DEF Ptr
  <2>2. PointersTyped
    BY DEF Inv
  <2> QED
    BY <1>1, <1>3, <1>5, <2>1, <2>2 DEF PointersTyped
<1>7. own' = [own EXCEPT ![t][v] = c] /\ own[t][v] = None
  <2>1. PointersTyped /\ dec[t].kind # "none"
    BY <1>1 DEF Inv
  <2> QED
    BY ONLY <1>1, <1>2, <1>3, <2>1, t \in Threads, OwnDone
<1>8. Lent' = Lent /\ Looking' = Looking
  BY <1>1 DEF Lent, Looking
<1>9. Core'
  <2>1. CASE c # None
    BY <1>1, <1>3, <1>4, <1>7, <1>8, <2>1, VarGains
  <2>2. CASE c = None
    <3>1. own' = own /\ count' = count
      BY <1>1, <1>3, <1>7, <2>2, OwnTyped DEF Inv
    <3> QED
      BY <1>1, <1>8, <3>1, CallChanges
  <2> QED
    BY <2>1, <2>2
<1>10. CallOK(call'[t], own'[t], wp'[t], stack'[t], spin', slot', t)
  BY <1>1, <1>3, IdleOK
<1>11. DecOK(dec'[t], call'[t], sp'[t], stack'[t])
  BY <1>1, <1>5, NoDecOK DEF Inv, PointersTyped
<1> QED
  BY <1>1, <1>6, <1>9, <1>10, <1>11, InvStep

\* So does the release of the left side of a move assignment.
LEMMA MoveAssignInv ==
  ASSUME Inv, SelfOwned = FALSE, NEW t \in Threads, NEW v \in Strong, NEW p \in Places(t),
         MoveAssign(t, v, p)
  PROVE  Inv'
<1>1. p \in Place /\ p.object = None /\ p.var # 0
  BY PlacesAre DEF MoveAssign
<1> QED
  BY <1>1, BeginDecInv DEF MoveAssign

\* So does the first look at the count in weak_ptr::lock.
LEMMA LockInv ==
  ASSUME Inv, NEW t \in Threads, NEW j \in Weak, NEW v \in Strong, Lock(t, j, v)
  PROVE  Inv'
<1> DEFINE c == wp[t][j]
           k == [Idle EXCEPT !.pc = "cas", !.to = v, !.ctrl = c, !.seen = count[c]]
<1>s. sp' = sp /\ dec' = dec /\ own' = own
  BY OwnSame DEF Lock
<1>1. /\ sp[t][v] = None /\ own[t][v] = None /\ c # None /\ call[t].pc = "idle" /\ c = wp[t][j]
      /\ IsIdle(t) \/ InBody(t)
      /\ stack[t] = <<>> \/ Head(stack[t]).stage = "members"
      /\ call' = [call EXCEPT ![t] = k]
      /\ UNCHANGED <<count, weak_count, life, member, esft, own, wp, slot, spin, stack>>
  BY <1>s, NullIsFree DEF Lock, BeginAdd, IsIdle, InBody
<1>2. c \in Ctrls /\ count[c] \in Nat /\ 0 \notin Strong
  BY <1>1, WatchedIsObserved DEF Inv, Core, CoreTyped, Strong
<1>3. k \in Call /\ k.pc = "cas" /\ k.to = v /\ k.ctrl = c
  BY <1>2, IdleTyped DEF Call, Idle, Ptr
<1> HIDE DEF c, k
<1>4. /\ call'[t] = k /\ \A u \in Threads \ {t} : call'[u] = call[u]
      /\ call' \in [Threads -> Call]
  BY <1>1, <1>3 DEF Inv, PointersTyped
<1>5. Lent'[t] = Lent[t] /\ Looking'[t] = Looking[t]
  BY <1>1, <1>2, <1>3, <1>4, NotInFlight
<1>6. Core'
  BY <1>1, <1>4, <1>5, CallChanges
<1>7. PointersTyped'
  BY <1>s, <1>1, <1>4 DEF Inv, PointersTyped
<1>8. CallOK(call'[t], own'[t], wp'[t], stack'[t], spin', slot', t)
  BY <1>1, <1>2, <1>3, <1>4 DEF CallOK
<1>d. DecOK(dec'[t], call'[t], sp'[t], stack'[t])
  BY <1>s, <1>1, <1>3, <1>4, Row DEF DecOK, IsIdle, InBody
<1> QED
  BY <1>s, <1>d, <1>1, <1>4, <1>6, <1>7, <1>8, InvStep

\* So does the first look at the count in shared_from_this.
LEMMA SharedFromThisInv ==
  ASSUME Inv, NEW t \in Threads, NEW c \in Ctrls, NEW v \in Strong, SharedFromThis(t, c, v)
  PROVE  Inv'
<1> DEFINE k == [Idle EXCEPT !.pc = "cas", !.to = v, !.ctrl = c, !.seen = count[c]]
<1>s. sp' = sp /\ dec' = dec /\ own' = own
  BY OwnSame DEF SharedFromThis
<1>1. /\ sp[t][v] = None /\ own[t][v] = None /\ call[t].pc = "idle"
      /\ IsIdle(t) \/ InBody(t)
      /\ c \in Pinned(t) \/ (InBody(t) /\ c = Head(stack[t]).ctrl)
      /\ stack[t] = <<>> \/ Head(stack[t]).stage = "members"
      /\ call' = [call EXCEPT ![t] = k]
      /\ UNCHANGED <<count, weak_count, life, member, esft, own, wp, slot, spin, stack>>
  BY <1>s, NullIsFree DEF SharedFromThis, BeginAdd, IsIdle, InBody
<1>2. c # None /\ count[c] \in Nat /\ 0 \notin Strong
  BY NullPointer DEF Inv, Core, CoreTyped, Strong
<1>3. k \in Call /\ k.pc = "cas" /\ k.to = v /\ k.ctrl = c
  BY <1>2, IdleTyped DEF Call, Idle, Ptr
<1> HIDE DEF k
<1>4. /\ call'[t] = k /\ \A u \in Threads \ {t} : call'[u] = call[u]
      /\ call' \in [Threads -> Call]
  BY <1>1, <1>3 DEF Inv, PointersTyped
<1>5. Lent'[t] = Lent[t] /\ Looking'[t] = Looking[t]
  BY <1>1, <1>2, <1>3, <1>4, NotInFlight
<1>6. Core'
  BY <1>1, <1>4, <1>5, CallChanges
<1>7. PointersTyped'
  BY <1>s, <1>1, <1>4 DEF Inv, PointersTyped
<1>8. CallOK(call'[t], own'[t], wp'[t], stack'[t], spin', slot', t)
  <2>1. CASE c \in Pinned(t)
    <3>1. \E w \in Strong : own[t][w] = c
      BY <2>1 DEF Pinned, own
    <3> QED
      BY <1>s, <1>1, <1>2, <1>3, <1>4, <3>1 DEF CallOK
  <2>2. CASE InBody(t) /\ c = Head(stack[t]).ctrl
    <3>1. /\ stack[t] # <<>> /\ Head(stack[t]) \in Destruction
          /\ Head(stack[t]).stage = "members"
      BY <2>2, HeadTyped DEF InBody, Inv, Core, CoreTyped
    <3>2. Head(stack[t]) = [ctrl |-> c, stage |-> "members"]
      BY <2>2, <3>1 DEF Destruction
    <3> QED
      BY <1>s, <1>1, <1>2, <1>3, <1>4, <3>1, <3>2 DEF CallOK
  <2> QED
    BY <1>1, <2>1, <2>2
<1>d. DecOK(dec'[t], call'[t], sp'[t], stack'[t])
  BY <1>s, <1>1, <1>3, <1>4, Row DEF DecOK, IsIdle, InBody
<1> QED
  BY <1>s, <1>d, <1>1, <1>4, <1>6, <1>7, <1>8, InvStep

\* So does a compare-and-swap that finds another count, and looks again.
LEMMA CasFailsInv ==
  ASSUME Inv, NEW t \in Threads, CasFails(t)
  PROVE  Inv'
<1> DEFINE n == count[call[t].ctrl]
<1>s. sp' = sp /\ dec' = dec /\ own' = own
  BY OwnSame DEF CasFails
<1>1. /\ call[t].pc = "cas" /\ call' = [call EXCEPT ![t].seen = n]
      /\ UNCHANGED <<count, weak_count, life, member, esft, own, wp, slot, spin, stack>>
  BY <1>s DEF CasFails
<1>2. /\ call[t] \in Call /\ CallOK(call[t], own[t], wp[t], stack[t], spin, slot, t)
  BY Row
<1>3. n \in Nat
  <2>1. call[t].ctrl \in Ctrls
    BY <1>1, <1>2, NullPointer DEF CallOK, Call
  <2> QED
    BY <2>1 DEF Inv, Core, CoreTyped
<1> HIDE DEF n
<1>4. /\ call'[t] = [call[t] EXCEPT !.seen = n] /\ \A u \in Threads \ {t} : call'[u] = call[u]
      /\ call' \in [Threads -> Call]
  BY <1>1, <1>2, <1>3 DEF Inv, PointersTyped, Call
<1>5. /\ call'[t].pc = "cas" /\ call'[t].to = call[t].to /\ call'[t].ctrl = call[t].ctrl
  BY <1>1, <1>2, <1>4 DEF Call
<1>6. Lent'[t] = Lent[t] /\ Looking'[t] = Looking[t]
  BY <1>1, <1>5 DEF Lent, Looking
<1>7. Core'
  BY <1>1, <1>4, <1>6, CallChanges
<1>8. PointersTyped'
  BY <1>s, <1>1, <1>4 DEF Inv, PointersTyped
<1>9. CallOK(call'[t], own'[t], wp'[t], stack'[t], spin', slot', t)
  BY <1>1, <1>2, <1>5 DEF CallOK
<1>d. DecOK(dec'[t], call'[t], sp'[t], stack'[t])
  BY <1>s, <1>1, <1>5, Row DEF DecOK
<1> QED
  BY <1>s, <1>d, <1>1, <1>4, <1>7, <1>8, <1>9, InvStep

\* So does atomic_load when it takes the lock.
LEMMA AtomicLoadInv ==
  ASSUME Inv, NEW t \in Threads, NEW v \in Strong, AtomicLoad(t, v)
  PROVE  Inv'
<1> DEFINE k == [Idle EXCEPT !.pc = "load", !.to = v]
<1>s. sp' = sp /\ dec' = dec /\ own' = own /\ dec[t].kind = "none" /\ own[t] = sp[t]
  BY OwnSame, OwnIsAll DEF AtomicLoad, IsIdle, Inv
<1>1. /\ own[t][v] = None /\ call[t].pc = "idle" /\ stack[t] = <<>>
      /\ spin = None /\ spin' = t /\ call' = [call EXCEPT ![t] = k]
      /\ UNCHANGED <<count, weak_count, life, member, esft, own, wp, slot, stack>>
  BY <1>s DEF AtomicLoad, Acquire, IsIdle
<1>2. k \in Call /\ k.pc = "load" /\ k.to = v
  BY IdleTyped DEF Call, Idle
<1>2a. 0 \notin Strong
  BY DEF Strong
<1> HIDE DEF k
<1>3. /\ call'[t] = k /\ \A u \in Threads \ {t} : call'[u] = call[u]
      /\ call' \in [Threads -> Call]
  BY <1>1, <1>2 DEF Inv, PointersTyped
<1>4. Lent'[t] = Lent[t] /\ Looking'[t] = Looking[t]
  BY <1>1, <1>2, <1>3, NotInFlight
<1>5. Core'
  BY <1>1, <1>3, <1>4, CallChanges
<1>6. PointersTyped'
  BY <1>s, <1>1, <1>3 DEF Inv, PointersTyped
<1>7. CallOK(call'[t], own'[t], wp'[t], stack'[t], spin', slot', t)
  BY <1>1, <1>2, <1>2a, <1>3 DEF CallOK
<1>d. DecOK(dec'[t], call'[t], sp'[t], stack'[t])
  BY <1>s, NoDecOK DEF AtomicLoad, IsIdle
<1> QED
  BY <1>s, <1>d, <1>1, <1>3, <1>5, <1>6, <1>7, InvStep

\* So does atomic_store when it takes the lock.
LEMMA AtomicStoreInv ==
  ASSUME Inv, NEW t \in Threads, NEW v \in Strong, AtomicStore(t, v)
  PROVE  Inv'
<1> DEFINE k == [Idle EXCEPT !.pc = "store", !.to = v]
<1>s. sp' = sp /\ dec' = dec /\ own' = own /\ dec[t].kind = "none" /\ own[t] = sp[t]
  BY OwnSame, OwnIsAll DEF AtomicStore, IsIdle, Inv
<1>1. /\ call[t].pc = "idle" /\ stack[t] = <<>>
      /\ spin = None /\ spin' = t /\ call' = [call EXCEPT ![t] = k]
      /\ UNCHANGED <<count, weak_count, life, member, esft, own, wp, slot, stack>>
  BY <1>s DEF AtomicStore, Acquire, IsIdle
<1>2. k \in Call /\ k.pc = "store" /\ k.to = v
  BY IdleTyped DEF Call, Idle
<1>2a. 0 \notin Strong
  BY DEF Strong
<1> HIDE DEF k
<1>3. /\ call'[t] = k /\ \A u \in Threads \ {t} : call'[u] = call[u]
      /\ call' \in [Threads -> Call]
  BY <1>1, <1>2 DEF Inv, PointersTyped
<1>4. Lent'[t] = Lent[t] /\ Looking'[t] = Looking[t]
  BY <1>1, <1>2, <1>3, NotInFlight
<1>5. Core'
  BY <1>1, <1>3, <1>4, CallChanges
<1>6. PointersTyped'
  BY <1>s, <1>1, <1>3 DEF Inv, PointersTyped
<1>7. CallOK(call'[t], own'[t], wp'[t], stack'[t], spin', slot', t)
  BY <1>1, <1>2, <1>2a, <1>3 DEF CallOK
<1>d. DecOK(dec'[t], call'[t], sp'[t], stack'[t])
  BY <1>s, NoDecOK DEF AtomicStore, IsIdle
<1> QED
  BY <1>s, <1>d, <1>1, <1>3, <1>5, <1>6, <1>7, InvStep

\* So does atomic_load when it reads the shared pointer under the lock.
LEMMA LoadReadInv ==
  ASSUME Inv, NEW t \in Threads, LoadRead(t)
  PROVE  Inv'
<1>s. sp' = sp /\ dec' = dec /\ own' = own
  BY OwnSame DEF LoadRead
<1>1. /\ call[t].pc = "load" /\ call' = [call EXCEPT ![t].pc = "inc", ![t].ctrl = slot]
      /\ UNCHANGED <<count, weak_count, life, member, esft, own, wp, slot, spin, stack>>
  BY <1>s DEF LoadRead
<1>2. /\ call[t] \in Call /\ CallOK(call[t], own[t], wp[t], stack[t], spin, slot, t) /\ slot \in Ptr
  BY Row DEF Inv, PointersTyped
<1>3. /\ call'[t] = [call[t] EXCEPT !.pc = "inc", !.ctrl = slot]
      /\ \A u \in Threads \ {t} : call'[u] = call[u]
      /\ call' \in [Threads -> Call]
  BY <1>1, <1>2 DEF Inv, PointersTyped, Call
<1>4. call'[t].pc = "inc" /\ call'[t].to = call[t].to /\ call'[t].ctrl = slot
  BY <1>2, <1>3 DEF Call
<1>5. Lent'[t] = Lent[t] /\ Looking'[t] = Looking[t]
  BY <1>1, <1>4, NotInFlight
<1>6. Core'
  BY <1>1, <1>3, <1>5, CallChanges
<1>7. PointersTyped'
  BY <1>s, <1>1, <1>3 DEF Inv, PointersTyped
<1>8. CallOK(call'[t], own'[t], wp'[t], stack'[t], spin', slot', t)
  BY <1>1, <1>2, <1>4 DEF CallOK
<1>d. DecOK(dec'[t], call'[t], sp'[t], stack'[t])
  BY <1>s, <1>1, CallNoDec, NoDecOK
<1> QED
  BY <1>s, <1>d, <1>1, <1>3, <1>6, <1>7, <1>8, InvStep

\* So does the construction of a weak_ptr from a shared_ptr.
LEMMA MakeWeakInv ==
  ASSUME Inv, NEW t \in Threads, NEW j \in Weak, NEW v \in Strong, MakeWeak(t, j, v)
  PROVE  Inv'
<1> DEFINE c == own[t][v]
<1>s. sp' = sp /\ dec' = dec /\ own' = own /\ dec[t].kind = "none" /\ own[t] = sp[t]
  BY OwnSame, OwnIsAll DEF MakeWeak, IsIdle, Inv
<1>1. /\ wp[t][j] = None /\ c # None /\ call[t].pc = "idle" /\ c = own[t][v]
      /\ wp' = [wp EXCEPT ![t][j] = c] /\ weak_count' = [weak_count EXCEPT ![c] = @ + 1]
      /\ UNCHANGED <<count, life, member, esft, own, slot, spin, call, stack>>
  BY <1>s DEF MakeWeak, IsIdle
<1>2. c \in Ctrls /\ weak_count[c] > 0
  BY <1>1, HeldIsOwned, OwnedIsLive
<1> HIDE DEF c
<1>3. /\ wp'[t][j] = c /\ \A u \in Threads \ {t} : wp'[u] = wp[u]
      /\ \A w \in Weak \ {j} : wp'[t][w] = wp[t][w]
      /\ wp' \in [Threads -> [Weak -> Ptr]]
  BY <1>1, <1>2 DEF Inv, PointersTyped, Ptr
<1>4. Lent' = Lent /\ Looking' = Looking
  BY <1>1 DEF Lent, Looking
<1>5. ASSUME NEW d \in Ctrls
      PROVE  Owners(d)' = Owners(d) /\ Observers(d)' = Observers(d) + Is(c, d)
  <2>1. Owners(d)' = Owners(d) + Is(own'[t][v], d) - Is(own[t][v], d)
                        + Is(Lent'[t], d) - Is(Lent[t], d) + Is(slot', d) - Is(slot, d)
    BY <1>1, OwnersMove
  <2>2. Observers(d)' = Observers(d) + Is(wp'[t][j], d) - Is(wp[t][j], d)
                           + Is(Looking'[t], d) - Is(Looking[t], d)
    BY <1>1, <1>3, ObserversMove
  <2>3. /\ own' = own /\ slot' = slot /\ Is(wp'[t][j], d) = Is(c, d) /\ Is(wp[t][j], d) = 0
    BY <1>1, <1>3, IsNone
  <2> QED
    BY ONLY <2>1, <2>2, <2>3, <1>4, IsNat, NumbersNat, d \in Ctrls
<1>6. Core'
  BY <1>1, <1>2, <1>5, ObserverGained DEF Inv
<1>7. PointersTyped'
  BY <1>s, <1>1, <1>3 DEF Inv, PointersTyped
<1>8. CallOK(call'[t], own'[t], wp'[t], stack'[t], spin', slot', t)
  BY <1>1, IdleOK
<1>d. DecOK(dec'[t], call'[t], sp'[t], stack'[t])
  BY <1>s, NoDecOK DEF MakeWeak, IsIdle
<1> QED
  BY <1>s, <1>d, <1>1, <1>3, <1>6, <1>7, <1>8, InvStep

\* So does the destructor of a weak_ptr, which may delete the block.
LEMMA DropWeakInv ==
  ASSUME Inv, NEW t \in Threads, NEW j \in Weak, DropWeak(t, j)
  PROVE  Inv'
<1> DEFINE c == wp[t][j]
<1>s. sp' = sp /\ dec' = dec /\ own' = own /\ dec[t].kind = "none" /\ own[t] = sp[t]
  BY OwnSame, OwnIsAll DEF DropWeak, IsIdle, Inv
<1>1. /\ c # None /\ call[t].pc = "idle" /\ c = wp[t][j]
      /\ wp' = [wp EXCEPT ![t][j] = None] /\ WeakRelease(c)
      /\ UNCHANGED <<count, member, esft, own, slot, spin, call, stack>>
  BY <1>s DEF DropWeak, IsIdle
<1>2. c \in Ctrls /\ Observers(c) > 0
  BY <1>1, WatchedIsObserved
<1> HIDE DEF c
<1>3. /\ wp'[t][j] = None /\ \A u \in Threads \ {t} : wp'[u] = wp[u]
      /\ \A w \in Weak \ {j} : wp'[t][w] = wp[t][w]
      /\ wp' \in [Threads -> [Weak -> Ptr]]
  BY <1>1, <1>2, NullPointer DEF Inv, PointersTyped
<1>4. Lent' = Lent /\ Looking' = Looking /\ 1 \in Strong
  BY <1>1, Row DEF Lent, Looking
<1>5. ASSUME NEW d \in Ctrls
      PROVE  Owners(d)' = Owners(d) /\ Observers(d)' = Observers(d) - Is(c, d)
  <2>1. Owners(d)' = Owners(d) + Is(own'[t][1], d) - Is(own[t][1], d)
                        + Is(Lent'[t], d) - Is(Lent[t], d) + Is(slot', d) - Is(slot, d)
    BY <1>1, <1>4, OwnersMove
  <2>2. Observers(d)' = Observers(d) + Is(wp'[t][j], d) - Is(wp[t][j], d)
                           + Is(Looking'[t], d) - Is(Looking[t], d)
    BY <1>1, <1>3, ObserversMove
  <2>3. /\ own' = own /\ slot' = slot /\ Is(wp'[t][j], d) = 0 /\ Is(wp[t][j], d) = Is(c, d)
    BY <1>1, <1>3, IsNone
  <2> QED
    BY ONLY <2>1, <2>2, <2>3, <1>4, IsNat, NumbersNat, d \in Ctrls
<1>6. Core'
  BY <1>1, <1>2, <1>5, ObserverLost DEF Inv
<1>7. PointersTyped'
  BY <1>s, <1>1, <1>3 DEF Inv, PointersTyped
<1>8. CallOK(call'[t], own'[t], wp'[t], stack'[t], spin', slot', t)
  BY <1>1, IdleOK
<1>d. DecOK(dec'[t], call'[t], sp'[t], stack'[t])
  BY <1>s, NoDecOK DEF DropWeak, IsIdle
<1> QED
  BY <1>s, <1>d, <1>1, <1>3, <1>6, <1>7, <1>8, InvStep

\* So does the start of weak_ptr's converting constructor.
LEMMA ConvertInv ==
  ASSUME Inv, NEW t \in Threads, NEW j \in Weak, Convert(t, j)
  PROVE  Inv'
<1> DEFINE c == wp[t][j]
           k == [Idle EXCEPT !.pc = "cas", !.to = 0, !.ctrl = c, !.seen = count[c]]
<1>s. sp' = sp /\ dec' = dec /\ own' = own /\ dec[t].kind = "none" /\ own[t] = sp[t]
  BY OwnSame, OwnIsAll DEF Convert, IsIdle, Inv
<1>1. /\ c # None /\ call[t].pc = "idle" /\ stack[t] = <<>> /\ c = wp[t][j]
      /\ call' = [call EXCEPT ![t] = k] /\ weak_count' = [weak_count EXCEPT ![c] = @ + 1]
      /\ UNCHANGED <<count, life, member, esft, own, wp, slot, spin, stack>>
  BY <1>s DEF Convert, BeginAdd, IsIdle
<1>2. c \in Ctrls /\ count[c] \in Nat /\ weak_count[c] > 0
  BY <1>1, WatchedIsObserved, ObservedIsThere DEF Inv, Core, CoreTyped
<1>3. k \in Call /\ k.pc = "cas" /\ k.to = 0 /\ k.ctrl = c
  BY <1>2, IdleTyped DEF Call, Idle, Ptr
<1> HIDE DEF c, k
<1>4. /\ call'[t] = k /\ \A u \in Threads \ {t} : call'[u] = call[u]
      /\ call' \in [Threads -> Call] /\ 1 \in Strong
  BY <1>1, <1>3, Row DEF Inv, PointersTyped
<1>5. Lent'[t] = Lent[t] /\ Looking[t] = None
  BY <1>1, <1>3, <1>4, NotInFlight
<1>5a. Looking'[t] = c
  BY <1>3, <1>4 DEF Looking
<1>6. ASSUME NEW d \in Ctrls
      PROVE  Owners(d)' = Owners(d) /\ Observers(d)' = Observers(d) + Is(c, d)
  <2>1. Owners(d)' = Owners(d) + Is(own'[t][1], d) - Is(own[t][1], d)
                        + Is(Lent'[t], d) - Is(Lent[t], d) + Is(slot', d) - Is(slot, d)
    BY <1>1, <1>4, OwnersMove
  <2>2. Observers(d)' = Observers(d) + Is(Looking'[t], d) - Is(Looking[t], d)
    BY <1>1, <1>4, ObserversCall
  <2>3. own' = own /\ slot' = slot /\ Is(Looking'[t], d) = Is(c, d) /\ Is(Looking[t], d) = 0
    BY <1>1, <1>5, <1>5a, IsNone
  <2> QED
    BY ONLY <2>1, <2>2, <2>3, <1>5, IsNat, NumbersNat, d \in Ctrls
<1>7. Core'
  BY <1>1, <1>2, <1>6, ObserverGained DEF Inv
<1>8. PointersTyped'
  BY <1>s, <1>1, <1>4 DEF Inv, PointersTyped
<1>9. CallOK(call'[t], own'[t], wp'[t], stack'[t], spin', slot', t)
  BY <1>1, <1>3, <1>4 DEF CallOK
<1>d. DecOK(dec'[t], call'[t], sp'[t], stack'[t])
  BY <1>s, NoDecOK DEF Convert, IsIdle
<1> QED
  BY <1>s, <1>d, <1>1, <1>4, <1>7, <1>8, <1>9, InvStep

\* So does a lock that finds the count at zero.
LEMMA AddFailsInv ==
  ASSUME Inv, NEW t \in Threads, AddFails(t)
  PROVE  Inv'
<1> DEFINE c == call[t].ctrl
<1>s. sp' = sp /\ dec' = dec /\ own' = own
  BY OwnSame DEF AddFails
<1>1. /\ call[t].pc = "cas" /\ call' = [call EXCEPT ![t] = Idle] /\ c = call[t].ctrl
      /\ \/ call[t].to # 0 /\ UNCHANGED <<weak_count, life>>
         \/ call[t].to = 0 /\ WeakRelease(c)
      /\ UNCHANGED <<count, member, esft, own, wp, slot, spin, stack>>
  BY <1>s DEF AddFails
<1> HIDE DEF c
<1>2. /\ call'[t] = Idle /\ \A u \in Threads \ {t} : call'[u] = call[u]
      /\ call' \in [Threads -> Call] /\ 1 \in Strong
  BY <1>1, IdleTyped, Row DEF Inv, PointersTyped
<1>3. Lent'[t] = Lent[t] /\ Looking'[t] = None
  BY <1>1, <1>2, IdleTyped, NotInFlight
<1>4. Core'
  <2>1. CASE call[t].to # 0 /\ UNCHANGED <<weak_count, life>>
    <3>1. Looking[t] = None
      BY <2>1, NotInFlight
    <3> QED
      BY <1>1, <1>2, <1>3, <2>1, <3>1, CallChanges
  <2>2. CASE call[t].to = 0 /\ WeakRelease(c)
    <3>1. Looking[t] = c /\ c \in Ctrls /\ Observers(c) > 0
      BY <1>1, <2>2, LookingIsObserved DEF Looking
    <3>2. ASSUME NEW d \in Ctrls
          PROVE  Owners(d)' = Owners(d) /\ Observers(d)' = Observers(d) - Is(c, d)
      <4>1. Owners(d)' = Owners(d) + Is(own'[t][1], d) - Is(own[t][1], d)
                          + Is(Lent'[t], d) - Is(Lent[t], d) + Is(slot', d) - Is(slot, d)
        BY <1>1, <1>2, OwnersMove
      <4>2. Observers(d)' = Observers(d) + Is(Looking'[t], d) - Is(Looking[t], d)
        BY <1>1, <1>2, ObserversCall
      <4>3. own' = own /\ slot' = slot /\ Is(Looking'[t], d) = 0 /\ Is(Looking[t], d) = Is(c, d)
        BY <1>1, <1>3, <3>1, IsNone
      <4> QED
        BY ONLY <4>1, <4>2, <4>3, <1>3, IsNat, NumbersNat, d \in Ctrls
    <3> QED
      BY <1>1, <2>2, <3>1, <3>2, ObserverLost DEF Inv
  <2> QED
    BY <1>1, <2>1, <2>2
<1>5. PointersTyped'
  BY <1>s, <1>1, <1>2 DEF Inv, PointersTyped
<1>6. CallOK(call'[t], own'[t], wp'[t], stack'[t], spin', slot', t)
  BY <1>2, IdleTyped, IdleOK
<1>d. DecOK(dec'[t], call'[t], sp'[t], stack'[t])
  BY <1>s, <1>1, <1>2, IdleTyped, Row DEF DecOK
<1> QED
  BY <1>s, <1>d, <1>1, <1>2, <1>4, <1>5, <1>6, InvStep

\* So does the end of weak_ptr's converting constructor, which releases the locked
\* shared_ptr.
LEMMA ConvertReleaseInv ==
  ASSUME Inv, NEW t \in Threads, ConvertRelease(t)
  PROVE  Inv'
<1> DEFINE c == call[t].ctrl
<1>0. sp' = sp /\ dec' = dec /\ own' = own /\ call[t].pc = "convert"
  BY OwnSame DEF ConvertRelease
<1>1. /\ call[t].pc = "convert" /\ stack[t] = <<>> /\ c = call[t].ctrl
      /\ \/ /\ call[t].seen # 0 /\ StrongRelease(t, c, <<>>)
            /\ call' = [call EXCEPT ![t].seen = 0] /\ UNCHANGED weak_count
         \/ /\ call[t].seen = 0 /\ WeakRelease(c)
            /\ call' = [call EXCEPT ![t] = Idle] /\ UNCHANGED <<count, stack>>
      /\ UNCHANGED <<member, esft, own, wp, slot, spin>>
  BY <1>0 DEF ConvertRelease
<1> HIDE DEF c
<1>s. sp' = sp /\ dec' = dec /\ own' = own /\ dec[t].kind = "none"
  BY <1>0, CallNoDec, OwnSame DEF ConvertRelease
<1>d. DecOK(dec'[t], call'[t], sp'[t], stack'[t])
  BY <1>s, NoDecOK
<1>2. /\ call[t] \in Call /\ CallOK(call[t], own[t], wp[t], stack[t], spin, slot, t) /\ 1 \in Strong
  BY Row
<1>3. call[t].to = 0
  BY <1>1, <1>2 DEF CallOK
<1>4. CASE /\ call[t].seen # 0 /\ StrongRelease(t, c, <<>>)
           /\ call' = [call EXCEPT ![t].seen = 0] /\ UNCHANGED weak_count
  <2>1. /\ call'[t] = [call[t] EXCEPT !.seen = 0] /\ \A u \in Threads \ {t} : call'[u] = call[u]
        /\ call' \in [Threads -> Call]
    BY <1>2, <1>4 DEF Inv, PointersTyped, Call
  <2>2. /\ call'[t].pc = "convert" /\ call'[t].to = 0 /\ call'[t].ctrl = c /\ call'[t].seen = 0
    BY <1>1, <1>2, <1>3, <2>1 DEF Call
  <2>3. Lent[t] = c /\ Lent'[t] = None /\ Looking[t] = c /\ Looking'[t] = c
    BY <1>1, <1>3, <1>4, <2>2 DEF Lent, Looking
  <2>4. c \in Ctrls /\ count[c] > 0
    BY <1>1, <1>4, LentIsOwned, OwnedIsLive
  <2>5. ASSUME NEW d \in Ctrls
        PROVE  Owners(d)' = Owners(d) - Is(c, d) /\ Observers(d)' = Observers(d)
    <3>1. Owners(d)' = Owners(d) + Is(own'[t][1], d) - Is(own[t][1], d)
                        + Is(Lent'[t], d) - Is(Lent[t], d) + Is(slot', d) - Is(slot, d)
      BY <1>1, <1>2, <2>1, OwnersMove
    <3>2. Observers(d)' = Observers(d) + Is(Looking'[t], d) - Is(Looking[t], d)
      BY <1>1, <2>1, ObserversCall
    <3>3. /\ own' = own /\ slot' = slot /\ Is(Looking'[t], d) = Is(Looking[t], d)
          /\ Is(Lent'[t], d) = 0 /\ Is(Lent[t], d) = Is(c, d)
      BY <1>1, <2>3, IsNone
    <3> QED
      BY ONLY <3>1, <3>2, <3>3, IsNat, NumbersNat, d \in Ctrls
  <2>6. Core'
    <3> DEFINE below == <<>>
    <3>1. [stack EXCEPT ![t] = below] = stack
      BY <1>1 DEF Inv, Core, CoreTyped, Stacks
    <3>2. /\ StackOK([stack EXCEPT ![t] = below], life, member')
          /\ \A d : InStack([stack EXCEPT ![t] = below], d) <=> InStack(stack, d)
          /\ member' \in [Ctrls -> Ptr] /\ \A d \in Ctrls : member'[d] \in {None, member[d]}
      BY <1>1, <3>1 DEF Inv, Core, CoreTyped
    <3>3. below \in Seq(Destruction) /\ Core
      BY DEF Inv
    <3>4. StrongRelease(t, c, below) /\ UNCHANGED <<weak_count, esft>>
      BY <1>1, <1>4
    <3> HIDE DEF below
    <3> QED
      BY ONLY <2>4, <2>5, <3>2, <3>3, <3>4, t \in Threads, OwnerLost
  <2>7. PointersTyped'
    BY <1>s, <1>1, <2>1 DEF Inv, PointersTyped
  <2>8. \A u \in Threads \ {t} : stack'[u] = stack[u]
    BY <1>4 DEF StrongRelease, Inv, Core, CoreTyped, Stacks
  <2>9. CallOK(call'[t], own'[t], wp'[t], stack'[t], spin', slot', t)
    BY <2>2, <2>4, NullPointer DEF CallOK
  <2> QED
    BY <1>s, <1>d, <1>1, <2>1, <2>6, <2>7, <2>8, <2>9, InvStep
<1>5. CASE /\ call[t].seen = 0 /\ WeakRelease(c)
           /\ call' = [call EXCEPT ![t] = Idle] /\ UNCHANGED <<count, stack>>
  <2>1. /\ call'[t] = Idle /\ \A u \in Threads \ {t} : call'[u] = call[u]
        /\ call' \in [Threads -> Call]
    BY <1>5, IdleTyped DEF Inv, PointersTyped
  <2>2. Lent[t] = None /\ Lent'[t] = None /\ Looking[t] = c /\ Looking'[t] = None
    BY <1>1, <1>3, <1>5, <2>1, IdleTyped DEF Lent, Looking
  <2>3. c \in Ctrls /\ Observers(c) > 0
    BY <1>1, <1>3, LookingIsObserved
  <2>4. ASSUME NEW d \in Ctrls
        PROVE  Owners(d)' = Owners(d) /\ Observers(d)' = Observers(d) - Is(c, d)
    <3>1. Owners(d)' = Owners(d) + Is(own'[t][1], d) - Is(own[t][1], d)
                        + Is(Lent'[t], d) - Is(Lent[t], d) + Is(slot', d) - Is(slot, d)
      BY <1>1, <1>2, <2>1, OwnersMove
    <3>2. Observers(d)' = Observers(d) + Is(Looking'[t], d) - Is(Looking[t], d)
      BY <1>1, <2>1, ObserversCall
    <3>3. /\ own' = own /\ slot' = slot /\ Is(Looking'[t], d) = 0 /\ Is(Looking[t], d) = Is(c, d)
          /\ Is(Lent'[t], d) = Is(Lent[t], d)
      BY <1>1, <2>2, IsNone
    <3> QED
      BY ONLY <3>1, <3>2, <3>3, IsNat, NumbersNat, d \in Ctrls
  <2>5. Core'
    BY <1>1, <1>5, <2>3, <2>4, ObserverLost DEF Inv
  <2>6. PointersTyped'
    BY <1>s, <1>1, <2>1 DEF Inv, PointersTyped
  <2>7. CallOK(call'[t], own'[t], wp'[t], stack'[t], spin', slot', t)
    BY <2>1, IdleTyped, IdleOK
  <2> QED
    BY <1>s, <1>d, <1>1, <1>5, <2>1, <2>5, <2>6, <2>7, InvStep
<1> QED
  BY <1>1, <1>4, <1>5

\* So does a compare-and-swap that raises the count: it was not zero.
LEMMA CasSucceedsInv ==
  ASSUME Inv, NEW t \in Threads, CasSucceeds(t)
  PROVE  Inv'
<1> DEFINE c == call[t].ctrl
           v == call[t].to
<1>1. /\ call[t].pc = "cas" /\ call[t].seen # 0 /\ count[c] = call[t].seen
      /\ c = call[t].ctrl /\ v = call[t].to
      /\ count' = [count EXCEPT ![c] = @ + 1]
      /\ \/ v # 0 /\ sp' = [sp EXCEPT ![t][v] = c] /\ call' = [call EXCEPT ![t] = Idle]
         \/ v = 0 /\ call' = [call EXCEPT ![t].pc = "convert"] /\ UNCHANGED sp
      /\ UNCHANGED <<weak_count, life, member, esft, wp, slot, spin, dec, stack>>
  BY DEF CasSucceeds, CountIsSeen
<1> HIDE DEF c, v
<1>2. /\ call[t] \in Call /\ CallOK(call[t], own[t], wp[t], stack[t], spin, slot, t) /\ 1 \in Strong
      /\ DecOK(dec[t], call[t], sp[t], stack[t]) /\ dec[t] \in Dec
  BY Row
<1>3. c \in Ctrls
  BY <1>1, <1>2, NullPointer DEF CallOK, Call
<1>4. count[c] > 0 /\ Owners(c) > 0
  <2>1. count[c] \in Nat /\ count[c] # 0
    BY <1>1, <1>3 DEF Inv, Core, CoreTyped
  <2> QED
    BY <1>3, <2>1 DEF Inv, Core, CountInv
<1>5. CASE v # 0 /\ sp' = [sp EXCEPT ![t][v] = c] /\ call' = [call EXCEPT ![t] = Idle]
  <2>1. v \in Strong /\ own[t][v] = None
    BY <1>1, <1>2, <1>5 DEF CallOK, Call
  <2>2. /\ call'[t] = Idle /\ \A u \in Threads \ {t} : call'[u] = call[u]
        /\ call' \in [Threads -> Call]
    BY <1>5, IdleTyped DEF Inv, PointersTyped
  <2>3. Lent'[t] = Lent[t] /\ Looking'[t] = Looking[t]
    BY <1>1, <1>5, <2>2, IdleTyped, NotInFlight
  <2>a. ~Released(t, v)
    BY <1>1, <1>2 DEF DecOK, Released
  <2>b. own' = [own EXCEPT ![t][v] = c]
    BY <1>1, <1>5, <2>1, <2>a, OwnSet DEF Inv
  <2>4. Core'
    BY <1>1, <1>3, <1>4, <2>1, <2>2, <2>3, <2>b, VarGains
  <2>5. PointersTyped' /\ \A u \in Threads \ {t} : sp'[u] = sp[u]
    BY <1>1, <1>3, <1>5, <2>1, <2>2 DEF Inv, PointersTyped, Ptr
  <2>c. \A x \in Strong \ {v} : sp'[t][x] = sp[t][x]
    BY <1>5 DEF Inv, PointersTyped
  <2>d. DecOK(dec'[t], call'[t], sp'[t], stack'[t])
    <3>1. CASE dec[t].kind = "none"
      BY <1>1, <3>1, NoDecOK
    <3>2. CASE dec[t].kind # "none"
      <4>1. dec[t].to \in Strong \ {v}
        BY <1>1, <1>2, <3>2 DEF DecOK, Dec
      <4>2. sp'[t][dec[t].to] = sp[t][dec[t].to]
        BY <2>c, <4>1
      <4> QED
        BY <1>1, <1>2, <2>2, <3>2, <4>2, IdleTyped DEF DecOK
    <3> QED
      BY <3>1, <3>2
  <2>6. CallOK(call'[t], own'[t], wp'[t], stack'[t], spin', slot', t)
    BY <2>2, IdleTyped, IdleOK
  <2> QED
    BY <1>1, <2>2, <2>4, <2>5, <2>6, <2>d, InvStep
<1>6. CASE v = 0 /\ call' = [call EXCEPT ![t].pc = "convert"] /\ UNCHANGED sp
  <2>a. own' = own
    BY <1>1, <1>6, OwnSame
  <2>b. dec[t].kind = "none"
    BY <1>1, <1>2, <1>6 DEF DecOK, CallOK
  <2>d. DecOK(dec'[t], call'[t], sp'[t], stack'[t])
    BY <1>1, <2>b, NoDecOK
  <2>1. /\ call'[t] = [call[t] EXCEPT !.pc = "convert"] /\ \A u \in Threads \ {t} : call'[u] = call[u]
        /\ call' \in [Threads -> Call]
    BY <1>2, <1>6 DEF Inv, PointersTyped, Call
  <2>2. /\ call'[t].pc = "convert" /\ call'[t].to = 0 /\ call'[t].ctrl = c
        /\ call'[t].seen # 0
    BY <1>1, <1>2, <1>6, <2>1 DEF Call
  <2>3. Lent[t] = None /\ Lent'[t] = c /\ Looking[t] = c /\ Looking'[t] = c
    BY <1>1, <1>6, <2>2 DEF Lent, Looking
  <2>4. ASSUME NEW d \in Ctrls
        PROVE  Owners(d)' = Owners(d) + Is(c, d) /\ Observers(d)' = Observers(d)
    <3>1. Owners(d)' = Owners(d) + Is(own'[t][1], d) - Is(own[t][1], d)
                        + Is(Lent'[t], d) - Is(Lent[t], d) + Is(slot', d) - Is(slot, d)
      BY <1>1, <1>2, <1>6, <2>1, <2>a, OwnersMove
    <3>2. Observers(d)' = Observers(d) + Is(Looking'[t], d) - Is(Looking[t], d)
      BY <1>1, <2>1, ObserversCall
    <3>3. /\ own' = own /\ slot' = slot /\ Is(Looking'[t], d) = Is(Looking[t], d)
          /\ Is(Lent'[t], d) = Is(c, d) /\ Is(Lent[t], d) = 0
      BY <1>1, <2>3, <2>a, IsNone
    <3> QED
      BY ONLY <3>1, <3>2, <3>3, IsNat, NumbersNat, d \in Ctrls
  <2>5. Core'
    BY <1>1, <1>3, <1>4, <2>4, OwnerGained DEF Inv
  <2>6. PointersTyped'
    BY <1>1, <1>6, <2>1 DEF Inv, PointersTyped
  <2>7. CallOK(call'[t], own'[t], wp'[t], stack'[t], spin', slot', t)
    <3>1. stack[t] = <<>>
      BY <1>1, <1>2, <1>6 DEF CallOK
    <3> QED
      BY <1>1, <1>3, <2>2, <3>1, NullPointer DEF CallOK
  <2> QED
    BY <1>1, <1>6, <2>1, <2>5, <2>6, <2>7, <2>d, InvStep
<1> QED
  BY <1>1, <1>5, <1>6

\* So does atomic_load when it raises the count: the lock has kept the shared
\* pointer, and with it an owner.
LEMMA LoadIncInv ==
  ASSUME Inv, NEW t \in Threads, LoadInc(t)
  PROVE  Inv'
<1> DEFINE c == call[t].ctrl
           v == call[t].to
<1>1. /\ sp' = [sp EXCEPT ![t][v] = c]
      /\ count' = IF c = None THEN count ELSE [count EXCEPT ![c] = @ + 1]
      /\ call[t].pc = "inc" /\ call' = [call EXCEPT ![t] = Idle] /\ spin' = None
      /\ c = call[t].ctrl /\ v = call[t].to
      /\ UNCHANGED <<weak_count, life, member, esft, wp, slot, dec, stack>>
  BY DEF LoadInc, Release
<1> HIDE DEF c, v
<1>2. /\ call[t] \in Call /\ CallOK(call[t], own[t], wp[t], stack[t], spin, slot, t)
  BY Row
<1>3. v \in Strong /\ own[t][v] = None /\ c = slot /\ spin = t /\ c \in Ptr
  BY <1>1, <1>2 DEF CallOK, Call
<1>a. dec[t].kind = "none"
  BY <1>1, CallNoDec
<1>b. own' = [own EXCEPT ![t][v] = c]
  BY <1>1, <1>3, <1>a, OwnSet DEF Inv, Released
<1>4. /\ call'[t] = Idle /\ \A u \in Threads \ {t} : call'[u] = call[u]
      /\ call' \in [Threads -> Call]
  BY <1>1, IdleTyped DEF Inv, PointersTyped
<1>5. Lent'[t] = Lent[t] /\ Looking'[t] = Looking[t]
  BY <1>1, <1>4, IdleTyped, NotInFlight
<1>6. Core'
  <2>1. CASE c # None
    <3>1. c \in Ctrls /\ Owners(c) > 0 /\ count' = [count EXCEPT ![c] = @ + 1]
      BY <1>1, <1>3, <2>1, SlotIsOwned
    <3> QED
      BY <1>1, <1>3, <1>4, <1>5, <1>b, <3>1, VarGains
  <2>2. CASE c = None
    <3>1. own' = own /\ count' = count
      BY <1>1, <1>3, <1>b, <2>2, OwnTyped DEF Inv
    <3> QED
      BY <1>1, <1>4, <1>5, <3>1, CallChanges
  <2> QED
    BY <2>1, <2>2
<1>7. PointersTyped' /\ \A u \in Threads \ {t} : sp'[u] = sp[u]
  BY <1>1, <1>3, <1>4 DEF Inv, PointersTyped
<1>8. CallOK(call'[t], own'[t], wp'[t], stack'[t], spin', slot', t)
  BY <1>4, IdleOK, IdleTyped
<1>d. DecOK(dec'[t], call'[t], sp'[t], stack'[t])
  BY <1>1, <1>a, NoDecOK
<1> QED
  BY <1>1, <1>3, <1>4, <1>6, <1>7, <1>8, <1>d, InvStep

\* So does atomic_store when it releases the old value.
LEMMA StoreDropInv ==
  ASSUME Inv, NEW t \in Threads, StoreDrop(t)
  PROVE  Inv'
<1> DEFINE v == call[t].to
           c == sp[t][v]
<1>1. /\ sp' = [sp EXCEPT ![t][v] = None] /\ c = sp[t][v] /\ v = call[t].to
      /\ \/ c # None /\ StrongRelease(t, c, <<>>)
         \/ c = None /\ UNCHANGED <<count, life, stack>>
      /\ call[t].pc = "drop" /\ call' = [call EXCEPT ![t] = Idle]
      /\ UNCHANGED <<weak_count, member, esft, wp, slot, spin, dec>>
  BY DEF StoreDrop
<1> HIDE DEF c, v
<1>2. /\ call[t] \in Call /\ CallOK(call[t], own[t], wp[t], stack[t], spin, slot, t)
  BY Row
<1>3. v \in Strong /\ stack[t] = <<>>
  BY <1>1, <1>2 DEF CallOK, Call
<1>a. dec[t].kind = "none"
  BY <1>1, CallNoDec
<1>b. own' = [own EXCEPT ![t][v] = None] /\ c = own[t][v]
  <2>1. PointersTyped /\ ~Released(t, v)
    BY <1>a DEF Inv, Released
  <2>2. own[t] = sp[t]
    BY <1>a, <2>1, OwnIsAll
  <2>3. PICK x : x = None
    OBVIOUS
  <2>4. sp' = [sp EXCEPT ![t][v] = x] /\ dec' = dec
    BY <1>1, <2>3
  <2>5. own' = [own EXCEPT ![t][v] = x]
    BY ONLY <1>3, <2>1, <2>4, t \in Threads, OwnSet
  <2> QED
    BY <1>1, <2>2, <2>3, <2>5
<1>4. /\ call'[t] = Idle /\ \A u \in Threads \ {t} : call'[u] = call[u]
      /\ call' \in [Threads -> Call]
  BY <1>1, IdleTyped DEF Inv, PointersTyped
<1>5. Lent'[t] = Lent[t] /\ Looking'[t] = Looking[t]
  BY <1>1, <1>4, IdleTyped, NotInFlight
<1>6. Core' /\ \A u \in Threads \ {t} : stack'[u] = stack[u]
  <2>1. CASE c # None /\ StrongRelease(t, c, <<>>)
    BY <1>1, <1>3, <1>4, <1>5, <1>b, <2>1, VarLoses
  <2>2. CASE c = None /\ UNCHANGED <<count, life, stack>>
    <3>1. own' = own
      BY <1>3, <1>b, <2>2, OwnTyped DEF Inv
    <3> QED
      BY <1>1, <1>4, <1>5, <2>2, <3>1, CallChanges
  <2> QED
    BY <1>1, <2>1, <2>2
<1>7. PointersTyped' /\ \A u \in Threads \ {t} : sp'[u] = sp[u]
  BY <1>1, <1>3, <1>4, NullPointer DEF Inv, PointersTyped
<1>8. CallOK(call'[t], own'[t], wp'[t], stack'[t], spin', slot', t)
  BY <1>4, IdleOK, IdleTyped
<1>d. DecOK(dec'[t], call'[t], sp'[t], stack'[t])
  BY <1>1, <1>a, NoDecOK
<1> QED
  BY <1>1, <1>4, <1>6, <1>7, <1>8, <1>d, InvStep

\* So does atomic_store when it exchanges the values under the lock.
LEMMA StoreSwapInv ==
  ASSUME Inv, NEW t \in Threads, StoreSwap(t)
  PROVE  Inv'
<1> DEFINE v == call[t].to
<1>1. /\ call[t].pc = "store" /\ slot' = sp[t][v] /\ sp' = [sp EXCEPT ![t][v] = slot]
      /\ v = call[t].to /\ spin' = None /\ call' = [call EXCEPT ![t].pc = "drop"]
      /\ UNCHANGED <<count, weak_count, life, member, esft, wp, dec, stack>>
  BY DEF StoreSwap, Release
<1> HIDE DEF v
<1>2. /\ call[t] \in Call /\ CallOK(call[t], own[t], wp[t], stack[t], spin, slot, t)
  BY Row
<1>3. v \in Strong /\ v # 0 /\ stack[t] = <<>> /\ spin = t
  BY <1>1, <1>2 DEF CallOK, Call
<1>a. dec[t].kind = "none"
  BY <1>1, CallNoDec
<1>b. own' = [own EXCEPT ![t][v] = slot] /\ slot' = own[t][v]
  <2>1. PointersTyped /\ ~Released(t, v)
    BY <1>a DEF Inv, Released
  <2>2. own[t] = sp[t]
    BY <1>a, <2>1, OwnIsAll
  <2>3. sp' = [sp EXCEPT ![t][v] = slot] /\ dec' = dec /\ slot' = own[t][v] /\ v \in Strong
    BY <1>1, <1>3, <2>2
  <2>4. own' = [own EXCEPT ![t][v] = slot]
    BY ONLY <2>1, <2>3, t \in Threads, OwnSet
  <2> QED
    BY <2>3, <2>4
<1>4. /\ call'[t] = [call[t] EXCEPT !.pc = "drop"] /\ \A u \in Threads \ {t} : call'[u] = call[u]
      /\ call' \in [Threads -> Call]
  BY <1>1, <1>2 DEF Inv, PointersTyped, Call
<1>5. call'[t].pc = "drop" /\ call'[t].to = v
  BY <1>1, <1>2, <1>4 DEF Call
<1>6. Lent'[t] = Lent[t] /\ Looking'[t] = Looking[t]
  BY <1>1, <1>5, NotInFlight
<1>7. /\ own'[t][v] = slot /\ \A u \in Threads \ {t} : own'[u] = own[u]
      /\ \A w \in Strong \ {v} : own'[t][w] = own[t][w]
  BY <1>3, <1>b, OwnTyped DEF Inv
<1>8. ASSUME NEW d \in Ctrls
      PROVE  Owners(d)' = Owners(d) /\ Observers(d)' = Observers(d)
  <2>1. Owners(d)' = Owners(d) + Is(own'[t][v], d) - Is(own[t][v], d)
                        + Is(Lent'[t], d) - Is(Lent[t], d) + Is(slot', d) - Is(slot, d)
    BY <1>1, <1>3, <1>4, <1>7, OwnersMove
  <2>2. Observers(d)' = Observers(d) + Is(Looking'[t], d) - Is(Looking[t], d)
    BY <1>1, <1>4, ObserversCall
  <2>3. Is(own'[t][v], d) = Is(slot, d) /\ Is(slot', d) = Is(own[t][v], d)
    BY <1>b, <1>7
  <2> QED
    BY ONLY <2>1, <2>2, <2>3, <1>6, IsNat, NumbersNat, d \in Ctrls
<1>9. Core'
  BY <1>1, <1>8, NothingChanges DEF Inv
<1>10. PointersTyped' /\ \A u \in Threads \ {t} : sp'[u] = sp[u]
  BY <1>1, <1>3, <1>4 DEF Inv, PointersTyped
<1>11. CallOK(call'[t], own'[t], wp'[t], stack'[t], spin', slot', t)
  BY <1>1, <1>3, <1>5 DEF CallOK
<1>d. DecOK(dec'[t], call'[t], sp'[t], stack'[t])
  BY <1>1, <1>a, NoDecOK
<1> QED
  BY <1>1, <1>3, <1>4, <1>9, <1>10, <1>11, <1>d, InvStep

\* Two shared_ptr variables of one thread change.
LEMMA HeldChangesTwice ==
  ASSUME NEW t \in Threads, NEW v \in Strong, NEW w \in Strong, v # w,
         \A u \in Threads \ {t} : own'[u] = own[u],
         \A x \in Strong \ {v, w} : own'[t][x] = own[t][x], NEW d
  PROVE  Refs(Held', Vars, d) = Refs(Held, Vars, d) + Is(own'[t][v], d) - Is(own[t][v], d)
                                                    + Is(own'[t][w], d) - Is(own[t][w], d)
<1>1. /\ <<t, v>> \in Vars /\ <<t, w>> \in Vars /\ <<t, v>> # <<t, w>>
      /\ \A x \in Vars : Held[x] = own[x[1]][x[2]] /\ Held'[x] = own'[x[1]][x[2]]
      /\ \A x \in Vars : x = <<x[1], x[2]>> /\ x[1] \in Threads /\ x[2] \in Strong
  BY DEF Held, Vars
<1>2. \A x \in Vars : x # <<t, v>> /\ x # <<t, w>> => Held'[x] = Held[x]
  BY <1>1
<1>3. /\ Held[<<t, v>>] = own[t][v] /\ Held'[<<t, v>>] = own'[t][v]
      /\ Held[<<t, w>>] = own[t][w] /\ Held'[<<t, w>>] = own'[t][w]
  BY <1>1
<1>4. Refs(Held', Vars, d) = Refs(Held, Vars, d) + Is(Held'[<<t, v>>], d) - Is(Held[<<t, v>>], d)
                                                 + Is(Held'[<<t, w>>], d) - Is(Held[<<t, w>>], d)
  <2> DEFINE h == <<t, v>>
             k == <<t, w>>
  <2>1. h \in Vars /\ k \in Vars /\ h # k /\ \A x \in Vars : x # h /\ x # k => Held'[x] = Held[x]
    BY <1>1, <1>2
  <2> HIDE DEF h, k
  <2>2. Refs(Held', Vars, d) = Refs(Held, Vars, d) + Is(Held'[h], d) - Is(Held[h], d)
                                                   + Is(Held'[k], d) - Is(Held[k], d)
    BY ONLY <2>1, FiniteHolders, RefsMoveTwo
  <2> QED
    BY <2>2 DEF h, k
<1> QED
  BY <1>3, <1>4

\* So does the second half of a move assignment, which empties its right side.
LEMMA MoveReadInv ==
  ASSUME Inv, NEW t \in Threads, MoveRead(t)
  PROVE  Inv'
<1> DEFINE v == dec[t].to
           w == dec[t].from.var
<1>1. /\ dec[t] \in Dec /\ DecOK(dec[t], call[t], sp[t], stack[t]) /\ sp[t] \in [Strong -> Ptr]
  BY Row
<1>2. /\ dec[t].kind = "move" /\ stack[t] = <<>> /\ dec[t].from.object = None
      /\ v \in Strong /\ w \in Strong /\ call[t].pc = "idle"
  <2>1. dec[t].kind = "move" /\ stack[t] = <<>>
    BY DEF MoveRead
  <2>2. v # 0 /\ dec[t].from.object = None /\ w # 0 /\ call[t].pc = "idle"
    BY <1>1, <2>1 DEF DecOK
  <2>3. dec[t].from \in Place /\ v \in Strong \cup {0}
    BY <1>1 DEF Dec
  <2>4. w \in Strong \cup {0}
    BY <2>3 DEF Place
  <2> QED
    BY <2>1, <2>2, <2>3, <2>4
<1>3. /\ sp' = [sp EXCEPT ![t] = [[sp[t] EXCEPT ![v] = sp[t][w]] EXCEPT ![w] = None]]
      /\ dec' = [dec EXCEPT ![t] = NoDec] /\ v = dec[t].to
      /\ UNCHANGED <<count, weak_count, life, member, esft, wp, slot, spin, call, stack>>
  BY <1>2 DEF MoveRead
<1> HIDE DEF v, w
<1>4. NoDec \in Dec /\ NoDec.kind = "none"
  BY DEF NoDec, Dec, Place, Ptr
<1>5. /\ sp'[t] = [[sp[t] EXCEPT ![v] = sp[t][w]] EXCEPT ![w] = None]
      /\ sp'[t] \in [Strong -> Ptr] /\ dec'[t] = NoDec
      /\ \A u \in Threads \ {t} : sp'[u] = sp[u] /\ dec'[u] = dec[u]
      /\ PointersTyped'
  BY <1>1, <1>2, <1>3, <1>4, NullPointer DEF Inv, PointersTyped
<1>6. own[t] = [x \in Strong |-> IF x = v THEN None ELSE sp[t][x]]
  BY <1>2, <1>3 DEF own, Released
<1>7. own'[t] = sp'[t] /\ \A u \in Threads \ {t} : own'[u] = own[u]
  BY <1>4, <1>5, OwnIsAllNext, OwnOthers
<1>8. \A x \in Strong \ {v, w} : own'[t][x] = own[t][x]
  BY <1>1, <1>2, <1>5, <1>6, <1>7
<1>9. own[t][v] = None /\ own'[t][w] = None /\ (w # v => own'[t][v] = own[t][w])
  BY <1>1, <1>2, <1>5, <1>6, <1>7
<1>10. Lent' = Lent /\ Looking' = Looking
  BY <1>3 DEF Lent, Looking
<1>11. Core'
  <2>1. CASE w = v
    <3>1. \A x \in Strong : own'[t][x] = own[t][x]
      BY <1>8, <1>9, <2>1
    <3>2. own'[t] = own[t]
      BY <1>5, <1>6, <1>7, <3>1
    <3>3. own' = own
      BY <1>7, <3>2 DEF own
    <3> QED
      BY <1>3, <1>10, <3>3, CallChanges
  <2>2. CASE w # v
    <3>1. ASSUME NEW d \in Ctrls
          PROVE  Owners(d)' = Owners(d) /\ Observers(d)' = Observers(d)
      <4>1. Refs(Held', Vars, d) = Refs(Held, Vars, d) + Is(own'[t][v], d) - Is(own[t][v], d)
                                                    + Is(own'[t][w], d) - Is(own[t][w], d)
        BY <1>2, <1>7, <1>8, <2>2, HeldChangesTwice
      <4>2. Observers(d)' = Observers(d) + Is(Looking'[t], d) - Is(Looking[t], d)
        BY <1>3, ObserversCall
      <4>3. /\ Is(own'[t][v], d) = Is(own[t][w], d) /\ Is(own'[t][w], d) = Is(own[t][v], d)
            /\ member' = member /\ slot' = slot
        BY <1>3, <1>9, <2>2
      <4>4. Refs(Held', Vars, d) = Refs(Held, Vars, d)
        BY ONLY <4>1, <4>3, SumsNat, IsNat
      <4>5. Owners(d)' = Owners(d)
        BY ONLY <1>10, <4>3, <4>4, OwnersAre, OwnersAreNext, d \in Ctrls
      <4> QED
        BY ONLY <4>2, <4>5, <1>10, IsNat, NumbersNat, d \in Ctrls
    <3> QED
      BY <1>3, <3>1, NothingChanges DEF Inv
  <2> QED
    BY <2>1, <2>2
<1>12. CallOK(call'[t], own'[t], wp'[t], stack'[t], spin', slot', t)
  BY <1>2, <1>3, IdleOK
<1>13. DecOK(dec'[t], call'[t], sp'[t], stack'[t])
  BY <1>4, <1>5, NoDecOK
<1> QED
  BY <1>3, <1>5, <1>11, <1>12, <1>13, InvStep

\* A destructor goes on: its entry changes, and nothing that is counted.
LEMMA StackChanges ==
  ASSUME Core, UNCHANGED <<count, weak_count, life, member, esft>>,
         stack' \in Stacks, StackOK(stack', life, member'),
         \A d : InStack(stack', d) <=> InStack(stack, d),
         \A d \in Ctrls : Owners(d)' = Owners(d) /\ Observers(d)' = Observers(d)
  PROVE  Core'
<1>1. CoreTyped' /\ LifeInv'
  BY DEF Core, CoreTyped, LifeInv
<1>2. \A d : Implied(d)' <=> Implied(d)
  BY ImpliedNext DEF Implied
<1>3. CountInv'
  BY <1>2 DEF Core, CountInv
<1>4. StackOK(stack, life, member)'
  BY StackOKNext
<1> QED
  BY <1>1, <1>3, <1>4 DEF Core

\* Owners and observers are numbers after the step.
LEMMA NumbersNatNext == (\A c \in Ctrls : Owners(c) \in Nat /\ Observers(c) \in Nat)'
  BY NumbersNat, PTL

\* What the head of a stack says of its object.
LEMMA HeadIs ==
  ASSUME Core, NEW t \in Threads, stack[t] # <<>>, NEW c, c = Head(stack[t]).ctrl
  PROVE  /\ c \in Ctrls /\ InStack(stack, c)
         /\ life[c] = IF Head(stack[t]).stage = "weak" THEN "dead" ELSE "dying"
         /\ Head(stack[t]).stage = "base" => member[c] = None
         /\ Tail(stack[t]) \in Seq(Destruction)
<1>1. stack \in Stacks /\ StackOK(stack, life, member)
  BY DEF Core, CoreTyped
<1>2. /\ stack[t] \in Seq(Destruction) /\ 1 \in 1..Len(stack[t])
      /\ Head(stack[t]) = stack[t][1] /\ c \in Ctrls
  BY <1>1, HeadTyped
<1>3. InStack(stack, c)
  BY <1>2 DEF InStack
<1>4. /\ life[c] = IF Head(stack[t]).stage = "weak" THEN "dead" ELSE "dying"
      /\ Head(stack[t]).stage = "base" => member[c] = None
  BY <1>1, <1>2 DEF StackOK
<1>5. Tail(stack[t]) \in Seq(Destruction)
  BY <1>2
<1> QED
  BY <1>2, <1>3, <1>4, <1>5

\* The destructors of a thread change only while its calls wait.
LEMMA CallWaits ==
  ASSUME NEW k, NEW s, NEW w, NEW st, NEW st2, NEW sn, NEW sl, NEW t,
         CallOK(k, s, w, st, sn, sl, t), st # <<>>, k.pc # "cas"
  PROVE  CallOK(k, s, w, st2, sn, sl, t)
  BY DEF CallOK

\* A nested shared_from_this runs in a destructor that is still in its members' stage.
LEMMA CasHead ==
  ASSUME Inv, NEW t \in Threads, stack[t] # <<>>, Head(stack[t]).stage # "members"
  PROVE  call[t].pc # "cas"
  BY Row DEF CallOK

\* So does the release of an object's member in its destructor.
LEMMA DestroyMembersInv ==
  ASSUME Inv, NEW t \in Threads, DestroyMembers(t)
  PROVE  Inv'
<1> DEFINE c == Head(stack[t]).ctrl
           x == member[c]
           below == <<[ctrl |-> c, stage |-> "base"]>> \o Tail(stack[t])
           mid == [stack EXCEPT ![t] = below]
<1>s. sp' = sp /\ dec' = dec /\ own' = own
  BY OwnSame DEF DestroyMembers
<1>1. /\ stack[t] # <<>> /\ call[t].pc # "cas" /\ Head(stack[t]).stage = "members"
      /\ \/ x # None /\ StrongRelease(t, x, below)
         \/ x = None /\ stack' = mid /\ UNCHANGED <<count, life>>
      /\ member' = [member EXCEPT ![c] = None] /\ c = Head(stack[t]).ctrl /\ x = member[c]
      /\ UNCHANGED <<weak_count, esft, own, wp, slot, spin, call>>
  BY <1>s DEF DestroyMembers
<1>2. Core /\ stack \in Stacks /\ StackOK(stack, life, member)
  BY DEF Inv, Core, CoreTyped
<1>3. /\ c \in Ctrls /\ life[c] = "dying" /\ Tail(stack[t]) \in Seq(Destruction)
  BY <1>1, <1>2, HeadIs
<1>4. below \in Seq(Destruction)
  BY <1>3 DEF Destruction
<1>5. mid = Advance(stack, t, "base")
  BY DEF Advance
<1> HIDE DEF c, x, below
<1>6. /\ member' \in [Ctrls -> Ptr] /\ member'[c] = None
      /\ \A d \in Ctrls \ {c} : member'[d] = member[d]
  BY <1>1, <1>3, NullPointer DEF Inv, Core, CoreTyped
<1>7. mid \in Stacks /\ StackOK(mid, life, member') /\ \A d : InStack(mid, d) <=> InStack(stack, d)
  <2> DEFINE g == "base"
  <2>1. /\ \A d \in Ctrls \ {Head(stack[t]).ctrl} : life[d] = life[d] /\ member'[d] = member[d]
        /\ life[Head(stack[t]).ctrl] = IF g = "weak" THEN "dead" ELSE "dying"
        /\ g = "base" => member'[Head(stack[t]).ctrl] = None
        /\ g \in {"members", "base", "weak"}
    BY <1>1, <1>3, <1>6
  <2>2. mid = Advance(stack, t, g) /\ stack[t] # <<>>
    BY <1>1, <1>5
  <2> HIDE DEF mid, g
  <2> QED
    <3>1. /\ Advance(stack, t, g) \in Stacks
          /\ StackOK(Advance(stack, t, g), life, member')
          /\ \A d : InStack(Advance(stack, t, g), d) <=> InStack(stack, d)
      <4>1. stack \in Stacks /\ StackOK(stack, life, member) /\ t \in Threads /\ stack[t] # <<>>
        BY <1>1, <1>2
      <4> QED
        BY ONLY <4>1, <2>1, StackAdvance
    <3> QED
      BY <2>2, <3>1
<1>8. /\ Lent' = Lent /\ Looking' = Looking /\ Held' = Held
  BY <1>1 DEF Lent, Looking, Held
<1>9. ASSUME NEW d \in Ctrls
      PROVE  Owners(d)' = Owners(d) - Is(x, d) /\ Observers(d)' = Observers(d)
  <2>1. Refs(member', Ctrls, d) = Refs(member, Ctrls, d) + Is(member'[c], d) - Is(member[c], d)
    BY ONLY <1>3, <1>6, FiniteHolders, RefsMove
  <2>2. Is(member'[c], d) = 0 /\ Is(member[c], d) = Is(x, d)
    BY <1>1, <1>6, IsNone
  <2>3. Owners(d)' = Owners(d) - Is(x, d)
    <3>1. slot' = slot
      BY <1>1
    <3> QED
      BY ONLY <2>1, <2>2, <3>1, <1>8, OwnersAre, OwnersAreNext, SumsNat, IsNat, d \in Ctrls
  <2>4. Observers(d)' = Observers(d) + Is(Looking'[t], d) - Is(Looking[t], d)
    BY <1>1, ObserversCall
  <2> QED
    BY ONLY <1>8, <2>3, <2>4, IsNat, NumbersNat, d \in Ctrls
<1>10. /\ Core' /\ \A u \in Threads \ {t} : stack'[u] = stack[u]
  <2>1. CASE x # None /\ StrongRelease(t, x, below)
    <3>1. x \in Ctrls /\ count[x] > 0
      BY <1>1, <1>3, <2>1, MemberIsOwned, OwnedIsLive
    <3>2. \A d \in Ctrls : member'[d] \in {None, member[d]}
      BY <1>6
    <3>3. UNCHANGED <<weak_count, esft>>
      BY <1>1
    <3>4. Core'
      BY ONLY <1>2, <1>4, <1>6, <1>7, <1>9, <2>1, <3>1, <3>2, <3>3, t \in Threads, OwnerLost
    <3>5. \A u \in Threads \ {t} : stack'[u] = stack[u]
      BY <1>2, <2>1 DEF StrongRelease, Stacks
    <3> QED
      BY <3>4, <3>5
  <2>2. CASE x = None /\ stack' = mid /\ UNCHANGED <<count, life>>
    <3>1. UNCHANGED <<count, weak_count, life, member, esft>>
      BY <1>1, <1>3, <2>2 DEF Inv, Core, CoreTyped
    <3>2. \A d \in Ctrls : Owners(d)' = Owners(d) /\ Observers(d)' = Observers(d)
      BY <1>9, <2>2, IsNone, NumbersNat
    <3>3. \A u \in Threads \ {t} : stack'[u] = stack[u]
      BY <1>2, <2>2 DEF Stacks
    <3> HIDE DEF mid
    <3> QED
      BY <1>2, <1>7, <2>2, <3>1, <3>2, <3>3, StackChanges
  <2> QED
    BY <1>1, <2>1, <2>2
<1>11. PointersTyped'
  BY <1>s, <1>1 DEF Inv, PointersTyped
<1>12. CallOK(call'[t], own'[t], wp'[t], stack'[t], spin', slot', t)
  BY <1>1, Row, CallWaits
<1>d. DecOK(dec'[t], call'[t], sp'[t], stack'[t])
  BY <1>s, <1>1, Row, DecWaits
<1> QED
  BY <1>s, <1>d, <1>1, <1>10, <1>11, <1>12, InvStep

\* So does the destruction of its enable_shared_from_this.
LEMMA DestroyBaseInv ==
  ASSUME Inv, NEW t \in Threads, DestroyBase(t)
  PROVE  Inv'
<1> DEFINE g == "weak"
<1>0. PICK c \in Ctrls : c = Head(stack[t]).ctrl
  BY HeadIs DEF Inv, DestroyBase
<1>s. sp' = sp /\ dec' = dec /\ own' = own
  BY OwnSame DEF DestroyBase
<1>1. /\ stack[t] # <<>> /\ Head(stack[t]).stage = "base" /\ c = Head(stack[t]).ctrl
      /\ weak_count' = [weak_count EXCEPT ![c] = @ - 1]
      /\ esft' = [esft EXCEPT ![c] = FALSE] /\ life' = [life EXCEPT ![c] = "dead"]
      /\ stack' = Advance(stack, t, g)
      /\ UNCHANGED <<count, member, own, wp, slot, spin, call>>
  BY <1>s, <1>0 DEF DestroyBase, Advance
<1>2. Core /\ stack \in Stacks /\ StackOK(stack, life, member)
  BY DEF Inv, Core, CoreTyped
<1>3. c \in Ctrls /\ life[c] = "dying" /\ member[c] = None /\ InStack(stack, c)
  BY <1>1, <1>2, HeadIs
<1>3a. \A u \in Threads \ {t} : stack'[u] = stack[u]
  BY <1>1, <1>2 DEF Advance, Stacks
<1>4. /\ life'[c] = "dead" /\ ~esft'[c] /\ esft[c]
      /\ \A d \in Ctrls \ {c} : life'[d] = life[d] /\ esft'[d] = esft[d]
      /\ life' \in [Ctrls -> Lives] /\ esft' \in [Ctrls -> BOOLEAN]
  BY <1>1, <1>2, <1>3 DEF Core, CoreTyped, LifeInv, Lives
<1>5. stack' \in Stacks /\ StackOK(stack', life', member) /\ \A d : InStack(stack', d) <=> InStack(stack, d)
  <2>1. /\ \A d \in Ctrls \ {Head(stack[t]).ctrl} : life'[d] = life[d] /\ member[d] = member[d]
        /\ life'[Head(stack[t]).ctrl] = IF g = "weak" THEN "dead" ELSE "dying"
        /\ g = "base" => member[Head(stack[t]).ctrl] = None
        /\ g \in {"members", "base", "weak"}
    BY <1>1, <1>4
  <2> HIDE DEF g
  <2> QED
    <3>1. /\ Advance(stack, t, g) \in Stacks
          /\ StackOK(Advance(stack, t, g), life', member)
          /\ \A d : InStack(Advance(stack, t, g), d) <=> InStack(stack, d)
      <4>1. stack \in Stacks /\ StackOK(stack, life, member) /\ t \in Threads /\ stack[t] # <<>>
        BY <1>1, <1>2
      <4> QED
        BY ONLY <4>1, <2>1, StackAdvance, SMTT(20)
    <3> QED
      BY <1>1, <3>1
<1>6. /\ Lent' = Lent /\ Looking' = Looking /\ Watched' = Watched /\ 1 \in Strong
  BY <1>1, Row DEF Lent, Looking, Watched
<1>7. ASSUME NEW d \in Ctrls
      PROVE  Owners(d)' = Owners(d) /\ Observers(d)' = Observers(d) - Is(c, d)
  <2>1. Owners(d)' = Owners(d) + Is(own'[t][1], d) - Is(own[t][1], d)
                        + Is(Lent'[t], d) - Is(Lent[t], d) + Is(slot', d) - Is(slot, d)
    BY <1>1, <1>6, OwnersMove
  <2>2. own' = own /\ slot' = slot
    BY <1>1
  <2>3. Is(Attached'[d], d) = Is(Attached[d], d) - Is(c, d)
    <3>1. CASE d = c
      <4>1. Attached'[d] = None /\ Attached[d] = d
        BY <1>4, <3>1 DEF Attached
      <4> QED
        BY <3>1, <4>1, IsOneOrZero, IsNone
    <3>2. CASE d # c
      <4>1. Attached'[d] = Attached[d]
        BY <1>4, <3>2 DEF Attached
      <4> QED
        BY <3>2, <4>1, IsOneOrZero
    <3> QED
      BY <3>1, <3>2
  <2>4. Observers(d)' = Observers(d) - Is(c, d)
    BY ONLY <1>6, <2>3, ObserversAre, ObserversAreNext, SumsNat, IsNat, d \in Ctrls
  <2> QED
    BY ONLY <1>6, <2>1, <2>2, <2>4, IsNat, NumbersNat, d \in Ctrls
<1>8. \A d \in Ctrls : Implied(d)' <=> Implied(d)
  BY <1>1, <1>5, ImpliedNext DEF Implied
<1>9. Observers(c) \in Nat /\ Observers(c)' \in Nat /\ Is(c, c) = 1
  BY <1>3, NumbersNat, NumbersNatNext, IsOneOrZero
<1>10. weak_count[c] = Observers(c) + 1 /\ weak_count'[c] = Observers(c)' + 1 /\ count[c] = 0
  <2>1. weak_count[c] = Observers(c) + 1
    BY <1>2, <1>3 DEF Core, CountInv, Implied
  <2>2. weak_count'[c] = weak_count[c] - 1
    BY <1>1, <1>2, <1>3 DEF Core, CoreTyped
  <2>3. Observers(c)' = Observers(c) - 1
    BY <1>3, <1>7, <1>9
  <2>4. count[c] = 0
    BY <1>2, <1>3, InStackIsDead
  <2> QED
    BY ONLY <1>9, <2>1, <2>2, <2>3, <2>4
<1>11. \A d \in Ctrls \ {c} : weak_count'[d] = weak_count[d] /\ Observers(d)' = Observers(d)
  <2> TAKE d \in Ctrls \ {c}
  <2>1. Is(c, d) = 0
    BY IsOneOrZero
  <2>2. Observers(d)' = Observers(d)
    BY <1>7, <2>1, NumbersNat
  <2> QED
    BY <1>1, <1>2, <2>2 DEF Core, CoreTyped
<1>12. CoreTyped'
  <2>1. weak_count' \in [Ctrls -> Nat]
    BY <1>1, <1>2, <1>3, <1>9, <1>10 DEF Core, CoreTyped
  <2> QED
    BY <1>1, <1>2, <1>4, <1>5, <2>1 DEF Core, CoreTyped
<1>13. LifeInv'
  <2>1. ASSUME NEW d \in Ctrls
        PROVE  /\ (life'[d] = "live") <=> (count[d] > 0)
               /\ (life'[d] = "none") <=> (weak_count'[d] = 0)
               /\ esft'[d] <=> life'[d] \in {"live", "dying"}
               /\ life'[d] \in {"none", "dead"} => member[d] = None
    <3>1. CASE d = c
      BY <1>3, <1>4, <1>9, <1>10, <3>1
    <3>2. CASE d # c
      BY <1>2, <1>4, <1>11, <3>2 DEF Core, LifeInv
    <3> QED
      BY <3>1, <3>2
  <2> QED
    BY <1>1, <2>1 DEF LifeInv
<1>14. CountInv'
  <2>1. ASSUME NEW d \in Ctrls
        PROVE  /\ count'[d] = Owners(d)'
               /\ Implied(d)' => weak_count'[d] = Observers(d)' + 1
               /\ ~Implied(d)' => weak_count'[d] = Observers(d)'
    <3>1. count'[d] = Owners(d)'
      BY <1>1, <1>2, <1>7 DEF Core, CountInv
    <3>2. CASE d = c
      <4>1. Implied(c)
        BY <1>3 DEF Implied
      <4>2. Implied(c)'
        BY <1>3, <1>8, <4>1
      <4> QED
        BY <1>10, <3>1, <3>2, <4>2
    <3>3. CASE d # c
      BY <1>2, <1>8, <1>11, <3>1, <3>3 DEF Core, CountInv
    <3> QED
      BY <3>2, <3>3
  <2> QED
    BY <2>1 DEF CountInv
<1>15. Core'
  BY <1>1, <1>5, <1>12, <1>13, <1>14, StackOKNext DEF Core
<1>16. PointersTyped'
  BY <1>s, <1>1 DEF Inv, PointersTyped
<1>17. CallOK(call'[t], own'[t], wp'[t], stack'[t], spin', slot', t)
  BY <1>1, Row, CallWaits, CasHead
<1>d. DecOK(dec'[t], call'[t], sp'[t], stack'[t])
  BY <1>s, <1>1, Row, DecWaits, CasHead
<1> QED
  BY <1>s, <1>d, <1>1, <1>3a, <1>15, <1>16, <1>17, InvStep

\* So does the last step of a destructor, the release of the owners' weak reference.
LEMMA DestroyWeakInv ==
  ASSUME Inv, NEW t \in Threads, DestroyWeak(t)
  PROVE  Inv'
<1>0. PICK c \in Ctrls : c = Head(stack[t]).ctrl
  BY HeadIs DEF Inv, DestroyWeak
<1>s. sp' = sp /\ dec' = dec /\ own' = own
  BY OwnSame DEF DestroyWeak
<1>1. /\ stack[t] # <<>> /\ Head(stack[t]).stage = "weak"
      /\ WeakRelease(c) /\ stack' = [stack EXCEPT ![t] = Tail(stack[t])]
      /\ UNCHANGED <<count, member, esft, own, wp, slot, spin, call>>
  BY <1>s, <1>0 DEF DestroyWeak
<1>2. Core /\ stack \in Stacks /\ StackOK(stack, life, member)
  BY DEF Inv, Core, CoreTyped
<1>3. life[c] = "dead" /\ InStack(stack, c)
  BY <1>0, <1>1, <1>2, HeadIs
<1>4. /\ ~esft[c] /\ member[c] = None /\ count[c] = 0 /\ weak_count[c] = Observers(c) + 1
      /\ weak_count[c] \in Nat /\ Observers(c) \in Nat
  <2>1. ~esft[c] /\ member[c] = None /\ weak_count[c] \in Nat /\ Observers(c) \in Nat
    BY <1>2, <1>3, NumbersNat DEF Core, CoreTyped, LifeInv
  <2>2. count[c] = 0 /\ weak_count[c] = Observers(c) + 1
    BY <1>2, <1>3, InStackIsDead DEF Core, CountInv, Implied
  <2> QED
    BY <2>1, <2>2
<1>5. /\ life' \in [Ctrls -> Lives] /\ \A d \in Ctrls \ {c} : life'[d] = life[d]
      /\ life'[c] = IF weak_count[c] = 1 THEN "none" ELSE "dead"
  BY <1>1, <1>2, <1>3 DEF WeakRelease, Core, CoreTyped, Lives
<1>6. /\ weak_count' \in [Ctrls -> Nat] /\ weak_count'[c] = Observers(c)
      /\ \A d \in Ctrls \ {c} : weak_count'[d] = weak_count[d]
  BY <1>1, <1>2, <1>4 DEF WeakRelease, Core, CoreTyped
<1>7. /\ stack' \in Stacks /\ StackOK(stack', life', member)
      /\ \A d : InStack(stack', d) <=> InStack(stack, d) /\ d # c
  <2>1. /\ stack \in Stacks /\ StackOK(stack, life, member) /\ t \in Threads /\ stack[t] # <<>>
        /\ \A d \in Ctrls \ {Head(stack[t]).ctrl} : life'[d] = life[d]
    BY <1>0, <1>1, <1>2, <1>5
  <2>2. /\ [stack EXCEPT ![t] = Tail(stack[t])] \in Stacks
        /\ StackOK([stack EXCEPT ![t] = Tail(stack[t])], life', member)
        /\ \A d : InStack([stack EXCEPT ![t] = Tail(stack[t])], d)
                   <=> InStack(stack, d) /\ d # Head(stack[t]).ctrl
    BY ONLY <2>1, StackPop
  <2> QED
    BY <1>0, <1>1, <2>2
<1>8. \A u \in Threads \ {t} : stack'[u] = stack[u]
  BY <1>1, <1>2 DEF Stacks
<1>9. ASSUME NEW d \in Ctrls
      PROVE  Owners(d)' = Owners(d) /\ Observers(d)' = Observers(d)
  <2>1. /\ Lent' = Lent /\ Looking' = Looking /\ 1 \in Strong
    BY <1>1, Row DEF Lent, Looking
  <2>2. Owners(d)' = Owners(d) + Is(own'[t][1], d) - Is(own[t][1], d)
                        + Is(Lent'[t], d) - Is(Lent[t], d) + Is(slot', d) - Is(slot, d)
    BY <1>1, <2>1, OwnersMove
  <2>3. Observers(d)' = Observers(d) + Is(Looking'[t], d) - Is(Looking[t], d)
    BY <1>1, ObserversCall
  <2>4. own' = own /\ slot' = slot
    BY <1>1
  <2> QED
    BY ONLY <2>1, <2>2, <2>3, <2>4, IsNat, NumbersNat, d \in Ctrls
<1>10. CoreTyped'
  BY <1>1, <1>2, <1>5, <1>6, <1>7 DEF Core, CoreTyped
<1>11. LifeInv'
  <2>1. ASSUME NEW d \in Ctrls
        PROVE  /\ (life'[d] = "live") <=> (count[d] > 0)
               /\ (life'[d] = "none") <=> (weak_count'[d] = 0)
               /\ esft[d] <=> life'[d] \in {"live", "dying"}
               /\ life'[d] \in {"none", "dead"} => member[d] = None
    <3>1. CASE d = c
      <4>1. life'[c] \in {"none", "dead"} /\ (life'[c] = "none" <=> weak_count'[c] = 0)
        BY <1>4, <1>5, <1>6
      <4> QED
        BY <1>4, <3>1, <4>1
    <3>2. CASE d # c
      BY <1>2, <1>5, <1>6, <3>2 DEF Core, LifeInv
    <3> QED
      BY <3>1, <3>2
  <2> QED
    BY <1>1, <2>1 DEF LifeInv
<1>12. CountInv'
  <2>1. ASSUME NEW d \in Ctrls
        PROVE  /\ count'[d] = Owners(d)'
               /\ Implied(d)' => weak_count'[d] = Observers(d)' + 1
               /\ ~Implied(d)' => weak_count'[d] = Observers(d)'
    <3>1. count'[d] = Owners(d)'
      BY <1>1, <1>2, <1>9 DEF Core, CountInv
    <3>2. CASE d = c
      <4>1. ~Implied(d)'
        <5>1. count'[d] = 0 /\ ~InStack(stack', d)
          BY <1>1, <1>4, <1>7, <3>2
        <5>2. ~(count'[d] > 0)
          BY <5>1
        <5> QED
          BY <5>1, <5>2, ImpliedNext
      <4> QED
        BY <1>6, <1>9, <3>1, <3>2, <4>1
    <3>3. CASE d # c
      <4>1. Implied(d)' <=> Implied(d)
        BY <1>1, <1>7, <3>3, ImpliedNext DEF Implied
      <4> QED
        BY <1>2, <1>6, <1>9, <3>1, <3>3, <4>1 DEF Core, CountInv
    <3> QED
      BY <3>2, <3>3
  <2> QED
    BY <2>1 DEF CountInv
<1>13. Core'
  BY <1>1, <1>7, <1>10, <1>11, <1>12, StackOKNext DEF Core
<1>14. PointersTyped'
  BY <1>s, <1>1 DEF Inv, PointersTyped
<1>15. CallOK(call'[t], own'[t], wp'[t], stack'[t], spin', slot', t)
  BY <1>1, Row, CallWaits, CasHead
<1>d. DecOK(dec'[t], call'[t], sp'[t], stack'[t])
  BY <1>s, <1>1, Row, DecWaits, CasHead
<1> QED
  BY <1>s, <1>d, <1>1, <1>8, <1>13, <1>14, <1>15, InvStep

\* So does the making of an object and its control block.
LEMMA MakeInv ==
  ASSUME Inv, NEW t \in Threads, NEW v \in Strong, NEW w \in Strong, Make(t, v, w)
  PROVE  Inv'
<1>a. dec[t].kind = "none" /\ own[t] = sp[t]
  BY OwnIsAll DEF Make, IsIdle, Inv
<1>1. /\ call[t].pc = "idle" /\ stack[t] = <<>> /\ own[t][v] = None
      /\ UNCHANGED <<wp, slot, spin, dec, call, stack>>
  BY <1>a DEF Make, IsIdle
<1>2. PICK c \in Ctrls :
       /\ life[c] = "none"
       /\ life' = [life EXCEPT ![c] = "live"]
       /\ count' = [count EXCEPT ![c] = 1]
       /\ weak_count' = [weak_count EXCEPT ![c] = 2]
       /\ esft' = [esft EXCEPT ![c] = TRUE]
       /\ member' = [member EXCEPT ![c] = own[t][w]]
       /\ sp' = [sp EXCEPT ![t] = [[own[t] EXCEPT ![w] = None] EXCEPT ![v] = c]]
  BY <1>a DEF Make
<1>3. Core /\ stack \in Stacks /\ StackOK(stack, life, member)
  BY DEF Inv, Core, CoreTyped
<1>4. /\ weak_count[c] = 0 /\ count[c] = 0 /\ ~esft[c] /\ member[c] = None
  BY <1>2, <1>3 DEF Core, CoreTyped, LifeInv
<1>5. ~InStack(stack, c)
  BY <1>2, <1>3, InStackIsDead
<1>6. Owners(c) = 0 /\ Observers(c) = 0
  BY <1>3, <1>4, <1>5 DEF Core, CountInv, Implied
<1>7. /\ life' \in [Ctrls -> Lives] /\ count' \in [Ctrls -> Nat] /\ weak_count' \in [Ctrls -> Nat]
      /\ esft' \in [Ctrls -> BOOLEAN]
      /\ life'[c] = "live" /\ count'[c] = 1 /\ weak_count'[c] = 2 /\ esft'[c]
      /\ \A d \in Ctrls \ {c} : /\ life'[d] = life[d] /\ count'[d] = count[d]
                                /\ weak_count'[d] = weak_count[d] /\ esft'[d] = esft[d]
  BY <1>2, <1>3 DEF Core, CoreTyped, Lives
<1>8. own[t] \in [Strong -> Ptr]
  BY Row
<1>9. /\ member' \in [Ctrls -> Ptr] /\ member'[c] = own[t][w]
      /\ \A d \in Ctrls \ {c} : member'[d] = member[d]
  BY <1>2, <1>3, <1>8 DEF Core, CoreTyped
<1>b. /\ sp'[t] = [[own[t] EXCEPT ![w] = None] EXCEPT ![v] = c]
      /\ \A u \in Threads \ {t} : sp'[u] = sp[u]
      /\ sp' \in [Threads -> [Strong -> Ptr]]
  BY <1>2, <1>8, NullPointer DEF Inv, PointersTyped, Ptr
<1>10. /\ own'[t] = [[own[t] EXCEPT ![w] = None] EXCEPT ![v] = c]
       /\ \A u \in Threads \ {t} : own'[u] = own[u]
  BY <1>1, <1>a, <1>b, OwnIsAllNext, OwnOthers
<1>11. /\ own'[t][v] = c /\ (w # v => own'[t][w] = None)
       /\ \A x \in Strong \ {v, w} : own'[t][x] = own[t][x]
  BY <1>8, <1>10
<1>12. ASSUME NEW d \in Ctrls
       PROVE  Owners(d)' = Owners(d) + Is(c, d)
  <2>1. Refs(member', Ctrls, d) = Refs(member, Ctrls, d) + Is(member'[c], d) - Is(member[c], d)
    BY ONLY <1>9, FiniteHolders, RefsMove, c \in Ctrls
  <2>2. Is(member'[c], d) = Is(own[t][w], d) /\ Is(member[c], d) = 0 /\ Is(None, d) = 0
    BY <1>4, <1>9, IsNone
  <2>3. Refs(Held', Vars, d) = Refs(Held, Vars, d) + Is(c, d) - Is(own[t][w], d)
    <3>1. CASE w = v
      <4>1. \A x \in Strong \ {v} : own'[t][x] = own[t][x]
        BY <1>11, <3>1
      <4>2. Refs(Held', Vars, d) = Refs(Held, Vars, d) + Is(own'[t][v], d) - Is(own[t][v], d)
        BY ONLY <1>10, <4>1, t \in Threads, v \in Strong, HeldChanges, ZenonT(30)
      <4> QED
        BY <1>11, <3>1, <4>2
    <3>2. CASE w # v
      <4>1. Refs(Held', Vars, d) = Refs(Held, Vars, d) + Is(own'[t][v], d) - Is(own[t][v], d)
                                                    + Is(own'[t][w], d) - Is(own[t][w], d)
        <5>1. /\ v # w /\ \A u \in Threads \ {t} : own'[u] = own[u]
              /\ \A x \in Strong \ {v, w} : own'[t][x] = own[t][x]
          BY <1>10, <1>11, <3>2
        <5> QED
          BY ONLY <5>1, HeldChangesTwice, t \in Threads, v \in Strong, w \in Strong
      <4>2. Is(own'[t][v], d) = Is(c, d) /\ Is(own[t][v], d) = 0 /\ Is(own'[t][w], d) = 0
        BY <1>1, <1>11, <2>2, <3>2
      <4> QED
        BY ONLY <4>1, <4>2, SumsNat, IsNat
    <3> QED
      BY <3>1, <3>2
  <2>4. Lent' = Lent /\ slot' = slot
    BY <1>1 DEF Lent
  <2> QED
    BY ONLY <2>1, <2>2, <2>3, <2>4, OwnersAre, OwnersAreNext, SumsNat, IsNat, d \in Ctrls
<1>13. ASSUME NEW d \in Ctrls
       PROVE  Observers(d)' = Observers(d) + Is(c, d)
  <2>1. Is(Attached'[d], d) = Is(Attached[d], d) + Is(c, d)
    <3>1. CASE d = c
      <4>1. Attached'[d] = d /\ Attached[d] = None
        BY <1>4, <1>7, <3>1 DEF Attached
      <4> QED
        BY <3>1, <4>1, IsOneOrZero, IsNone
    <3>2. CASE d # c
      <4>1. Attached'[d] = Attached[d]
        BY <1>7, <3>2 DEF Attached
      <4> QED
        BY <3>2, <4>1, IsOneOrZero
    <3> QED
      BY <3>1, <3>2
  <2>2. Watched' = Watched /\ Looking' = Looking
    BY <1>1 DEF Watched, Looking
  <2> QED
    BY ONLY <2>1, <2>2, ObserversAre, ObserversAreNext, SumsNat, IsNat, d \in Ctrls
<1>14. CoreTyped'
  BY <1>1, <1>3, <1>7, <1>9 DEF Core, CoreTyped
<1>15. StackOK(stack', life', member')
  <2>1. \A u \in Threads : \A i \in 1..Len(stack[u]) :
          stack[u][i].ctrl # c /\ stack[u][i].ctrl \in Ctrls
    BY <1>3, <1>5, EntriesTyped DEF InStack
  <2>2. ASSUME NEW u \in Threads, NEW i \in 1..Len(stack[u])
        PROVE  /\ life'[stack[u][i].ctrl] = IF stack[u][i].stage = "weak" THEN "dead" ELSE "dying"
               /\ stack[u][i].stage = "base" => member'[stack[u][i].ctrl] = None
    <3>1. /\ life'[stack[u][i].ctrl] = life[stack[u][i].ctrl]
          /\ member'[stack[u][i].ctrl] = member[stack[u][i].ctrl]
      BY <1>7, <1>9, <2>1
    <3> QED
      BY <1>3, <3>1 DEF StackOK
  <2>3. stack' = stack /\ OnceEach(stack)
    BY <1>1, <1>3 DEF StackOK
  <2> QED
    BY <2>2, <2>3 DEF StackOK
<1>16. LifeInv'
  <2>1. ASSUME NEW d \in Ctrls
        PROVE  /\ (life'[d] = "live") <=> (count'[d] > 0)
               /\ (life'[d] = "none") <=> (weak_count'[d] = 0)
               /\ esft'[d] <=> life'[d] \in {"live", "dying"}
               /\ life'[d] \in {"none", "dead"} => member'[d] = None
    <3>1. CASE d = c
      BY <1>7, <3>1
    <3>2. CASE d # c
      BY <1>3, <1>7, <1>9, <3>2 DEF Core, LifeInv
    <3> QED
      BY <3>1, <3>2
  <2> QED
    BY <2>1 DEF LifeInv
<1>17. CountInv'
  <2>1. ASSUME NEW d \in Ctrls
        PROVE  /\ count'[d] = Owners(d)'
               /\ Implied(d)' => weak_count'[d] = Observers(d)' + 1
               /\ ~Implied(d)' => weak_count'[d] = Observers(d)'
    <3>1. CASE d = c
      <4>1. Implied(d)' /\ Is(c, d) = 1
        BY <1>7, <3>1, ImpliedNext, IsOneOrZero
      <4> QED
        BY <1>6, <1>7, <1>12, <1>13, <3>1, <4>1
    <3>2. CASE d # c
      <4>1. (Implied(d)' <=> Implied(d)) /\ Is(c, d) = 0
        BY <1>1, <1>7, <3>2, ImpliedNext, IsOneOrZero DEF Implied
      <4>2. Owners(d)' = Owners(d) /\ Observers(d)' = Observers(d)
        BY <1>12, <1>13, <4>1, NumbersNat
      <4> QED
        BY <1>3, <1>7, <3>2, <4>1, <4>2 DEF Core, CountInv
    <3> QED
      BY <3>1, <3>2
  <2> QED
    BY <2>1 DEF CountInv
<1>18. Core'
  BY <1>14, <1>15, <1>16, <1>17, StackOKNext DEF Core
<1>19. PointersTyped'
  BY <1>1, <1>b DEF Inv, PointersTyped
<1>20. CallOK(call'[t], own'[t], wp'[t], stack'[t], spin', slot', t)
  BY <1>1, IdleOK
<1>d. DecOK(dec'[t], call'[t], sp'[t], stack'[t])
  BY <1>1, <1>a, NoDecOK
<1> QED
  BY <1>1, <1>b, <1>d, <1>18, <1>19, <1>20, InvStep

-----------------------------------------------------------------------------
(* The theorems. *)

\* With no object and no pointer, the invariant holds.
LEMMA InvInitially == Init => Inv
<1> SUFFICES ASSUME Init PROVE Inv
  OBVIOUS
<1>1. PointersTyped
  BY IdleTyped, NullPointer DEF Init, PointersTyped, NoDec, Dec, Place
<1>2. CoreTyped
  BY NullPointer DEF Init, CoreTyped, Lives, Stacks
<1>3. \A t \in Threads : stack[t] = <<>> /\ Len(stack[t]) = 0
  BY DEF Init
<1>4. StackOK(stack, life, member)
  BY <1>3 DEF StackOK, OnceEach
<1>5. LifeInv
  BY DEF Init, LifeInv
<1>6. ASSUME NEW c \in Ctrls PROVE Owners(c) = 0 /\ Observers(c) = 0 /\ ~Implied(c)
  <2>1. ~Implied(c)
    BY <1>3 DEF Init, Implied, InStack
  <2>2. \A x \in Vars : Held[x] # c
    BY NullPointer DEF Init, Held, Vars, own, Released
  <2>3. \A x \in WeakVars : Watched[x] # c
    BY NullPointer DEF Init, Watched, WeakVars
  <2>4. \A d \in Ctrls : member[d] # c
    BY NullPointer DEF Init
  <2>5. \A t \in Threads : Lent[t] # c /\ Looking[t] # c
    BY NullPointer DEF Init, Lent, Looking, Idle
  <2>6. \A H, f : (\A x \in H : f[x] # c) => Refs(f, H, c) = 0
    <3> TAKE H, f
    <3> HAVE \A x \in H : f[x] # c
    <3>1. {x \in H : f[x] = c} = {}
      OBVIOUS
    <3> QED
      BY <3>1, FS_EmptySet DEF Refs
  <2>7. /\ Refs(Held, Vars, c) = 0 /\ Refs(Watched, WeakVars, c) = 0 /\ Refs(member, Ctrls, c) = 0
        /\ Refs(Lent, Threads, c) = 0 /\ Refs(Looking, Threads, c) = 0
    BY <2>2, <2>3, <2>4, <2>5, <2>6
  <2>8. Is(slot, c) = 0 /\ Is(Attached[c], c) = 0
    BY NullPointer, IsOneOrZero DEF Init, Attached
  <2> QED
    BY ONLY <2>1, <2>7, <2>8, OwnersAre, ObserversAre, c \in Ctrls
<1>7. CountInv
  BY <1>6 DEF Init, CountInv
<1>8. \A t \in Threads : CallOK(call[t], own[t], wp[t], stack[t], spin, slot, t)
  BY IdleOK, IdleTyped DEF Init
<1>9. \A t \in Threads : DecOK(dec[t], call[t], sp[t], stack[t])
  BY NoDecOK DEF Init, NoDec
<1> QED
  BY <1>1, <1>2, <1>4, <1>5, <1>7, <1>8, <1>9 DEF Inv, Core

\* Every step keeps it, unless an assignment reads from the object it releases.
LEMMA InvKept ==
  ASSUME SelfOwned = FALSE, ReadsReleased = FALSE, Inv, [Next]_vars
  PROVE  Inv'
<1>1. CASE UNCHANGED vars
  <2>1. PointersTyped'
    BY <1>1 DEF vars, Inv, PointersTyped
  <2>2. Core'
    <3>1. CoreTyped' /\ StackOK(stack, life, member)' /\ LifeInv'
      BY <1>1, SMTT(20) DEF vars, Inv, Core, CoreTyped, StackOK, LifeInv
    <3>2. CountInv'
      <4>1. \A d : (Implied(d)' <=> Implied(d)) /\ Owners(d)' = Owners(d) /\ Observers(d)' = Observers(d)
        BY <1>1 DEF vars, Implied, InStack, Owners, Observers, Released
      <4> QED
        BY <1>1, <4>1 DEF vars, Inv, Core, CountInv
    <3> QED
      BY <3>1, <3>2 DEF Core
  <2> QED
    <3>1. own' = own
      BY <1>1, OwnSame DEF vars
    <3> QED
      BY <1>1, <2>1, <2>2, <3>1, InvNext DEF vars, Inv
<1>2. ASSUME NEW t \in Threads, UserCall(t) PROVE Inv'
  <2>1. CASE \E v \in Strong : \/ \E w \in Strong : Make(t, v, w)
                               \/ \E p \in Places(t) : Copy(t, v, p) \/ Assign(t, v, p) \/ MoveAssign(t, v, p)
                               \/ Drop(t, v)
    BY <2>1, MakeInv, CopyInv, AssignInv, MoveAssignInv, DropInv
  <2>2. CASE \E v \in Strong : \/ \E c \in Ctrls : SharedFromThis(t, c, v)
                               \/ AtomicLoad(t, v)
                               \/ AtomicStore(t, v)
                               \/ \E k \in Weak : MakeWeak(t, k, v) \/ Lock(t, k, v)
    BY <2>2, SharedFromThisInv, AtomicLoadInv, AtomicStoreInv, MakeWeakInv, LockInv
  <2>3. CASE \E k \in Weak : DropWeak(t, k) \/ Convert(t, k)
    BY <2>3, DropWeakInv, ConvertInv
  <2> QED
    BY <1>2, <2>1, <2>2, <2>3 DEF UserCall
<1>3. ASSUME NEW t \in Threads, Proceed(t) PROVE Inv'
  BY <1>3, DropDoneInv, AssignReadInv, MoveReadInv, DestroyMembersInv, DestroyBaseInv, DestroyWeakInv,
     CasSucceedsInv, CasFailsInv, AddFailsInv, ConvertReleaseInv, LoadReadInv, LoadIncInv,
     StoreSwapInv, StoreDropInv DEF Proceed
<1> QED
  BY <1>1, <1>2, <1>3 DEF Next

\* It is an invariant of such programs.
LEMMA InvHolds ==
  ASSUME SelfOwned = FALSE, ReadsReleased = FALSE
  PROVE  Spec => []Inv
<1>1. Inv /\ [Next]_vars => Inv'
  BY InvKept
<1> QED
  BY <1>1, InvInitially, PTL DEF Spec

\* CountsExact, for any number of threads, objects and pointers: at every moment
\* the count of a control block is the number of shared_ptrs that own the object,
\* and its weak_count the number of weak_ptrs and of enable_shared_from_this, and
\* one more while there is an owner or a destructor (__sp_ctrl, memory:292-322).
THEOREM CountsAreExact ==
  ASSUME SelfOwned = FALSE, ReadsReleased = FALSE
  PROVE  Spec => []CountsExact
<1>1. Inv => CountsExact
  <2> SUFFICES ASSUME Inv PROVE CountsExact
    OBVIOUS
  <2>1. TypeOK
    BY TypesAre DEF Inv, Core
  <2>2. \A c \in Ctrls : HasImplicit(c) <=> Implied(c)
    BY DEF HasImplicit, Implied, InStack
  <2>3. ASSUME NEW c \in Ctrls
        PROVE  weak_count[c] = Observers(c) + (IF HasImplicit(c) THEN 1 ELSE 0)
    <3>1. CASE HasImplicit(c)
      BY <2>2, <3>1 DEF Inv, Core, CountInv
    <3>2. CASE ~HasImplicit(c)
      <4>1. weak_count[c] = Observers(c) /\ Observers(c) \in Nat
        BY <2>2, <3>2, NumbersNat DEF Inv, Core, CountInv
      <4> QED
        BY <3>2, <4>1
    <3> QED
      BY <3>1, <3>2
  <2> QED
    BY <2>1, <2>3 DEF CountsExact, Inv, Core, CountInv, LifeInv
<1> QED
  BY <1>1, InvHolds, PTL

\* NoUseAfterFree: lock, shared_from_this and the converting constructor of
\* weak_ptr look at the count of a block that is not deleted; atomic_load raises
\* the count of a live object; and an object is destroyed once, by one thread.
THEOREM NothingUsedAfterFree ==
  ASSUME SelfOwned = FALSE, ReadsReleased = FALSE
  PROVE  Spec => []NoUseAfterFree
<1>1. Inv => NoUseAfterFree
  <2> SUFFICES ASSUME Inv PROVE NoUseAfterFree
    OBVIOUS
  <2>1. ASSUME NEW t \in Threads, call[t].pc \in {"cas", "convert"}
        PROVE  life[call[t].ctrl] # "none"
    <3> DEFINE c == call[t].ctrl
    <3>1. call[t] \in Call /\ CallOK(call[t], own[t], wp[t], stack[t], spin, slot, t)
      BY Row
    <3>2. c \in Ctrls
      BY <2>1, <3>1, NullPointer DEF CallOK, Call
    <3>3. CASE call[t].to = 0
      BY <2>1, <3>3, LookingIsObserved, ObservedIsThere
    <3>4. CASE call[t].to # 0
      <4>1. \/ \E j \in Weak : wp[t][j] = c
            \/ \E v \in Strong : own[t][v] = c
            \/ stack[t] # <<>> /\ Head(stack[t]) = [ctrl |-> c, stage |-> "members"]
        BY <2>1, <3>1, <3>4 DEF CallOK
      <4>2. CASE \E j \in Weak : wp[t][j] = c
        BY <3>2, <4>2, NullPointer, WatchedIsObserved, ObservedIsThere
      <4>3. CASE \E v \in Strong : own[t][v] = c
        BY <3>2, <4>3, NullPointer, HeldIsOwned, OwnedIsLive
      <4>4. CASE stack[t] # <<>> /\ Head(stack[t]) = [ctrl |-> c, stage |-> "members"]
        BY <4>4, HeadIs DEF Inv
      <4> QED
        BY <4>1, <4>2, <4>3, <4>4
    <3> QED
      BY <3>3, <3>4
  <2>2. ASSUME NEW t \in Threads, call[t].pc = "inc", call[t].ctrl # None
        PROVE  life[call[t].ctrl] = "live"
    <3>1. call[t].ctrl = slot
      BY <2>2, Row DEF CallOK
    <3> QED
      BY <2>2, <3>1, SlotIsOwned, OwnedIsLive
  <2>3. StackOK(stack, life, member)
    BY DEF Inv, Core
  <2> QED
    BY <2>1, <2>2, <2>3 DEF NoUseAfterFree, StackOK, OnceEach
<1> QED
  BY <1>1, InvHolds, PTL

\* The right side of an assignment that is under way can still be reached from
\* another variable of the thread.
RightSideInv ==
  \A t \in Threads : \A v, c :
    dec[t].kind = "assign" /\ dec[t].to = v /\ dec[t].from.object = c /\ c # None =>
      v \in Strong /\ c \in Reachable(t, Others(v))

\* What owned variables lead to, over members of any number of objects, is alive.
LEMMA ReachedIsLive ==
  ASSUME Inv, NEW t \in Threads, NEW V \in SUBSET Strong, \A v \in V : ~Released(t, v),
         NEW c \in Reachable(t, V)
  PROVE  c \in Ctrls /\ life[c] = "live"
<1> DEFINE Live == {d \in Ctrls : life[d] = "live"}
<1>1. Closed(Live)
  BY MemberIsOwned, OwnedIsLive DEF Closed
<1>2. {sp[t][v] : v \in V} \ {None} \subseteq Live
  <2> SUFFICES ASSUME NEW v \in V, sp[t][v] # None PROVE sp[t][v] \in Live
    OBVIOUS
  <2>1. v \in Strong /\ own[t][v] = sp[t][v]
    BY DEF own
  <2> QED
    BY <2>1, HeldIsOwned, OwnedIsLive
<1>3. Live \in SUBSET Ctrls
  OBVIOUS
<1> HIDE DEF Live
<1>4. c \in Ctrls /\ c \in Live
  BY <1>1, <1>2, <1>3 DEF Reachable
<1> QED
  BY <1>4 DEF Live

\* A step that keeps what the variables point to, and the members of live objects,
\* keeps what can be reached.
LEMMA ReachedStays ==
  ASSUME Inv, NEW t \in Threads, NEW V \in SUBSET Strong, \A v \in V : ~Released(t, v),
         \A v \in V : sp[t][v] # None => sp'[t][v] = sp[t][v],
         \A d \in Ctrls : life[d] = "live" => member'[d] = member[d],
         NEW c \in Reachable(t, V)
  PROVE  c \in Reachable(t, V)'
<1> SUFFICES ASSUME NEW S \in SUBSET Ctrls,
                    {sp'[t][v] : v \in V} \ {None} \subseteq S,
                    \A d \in S : member'[d] # None => member'[d] \in S
             PROVE  c \in S
  <2>1. c \in Ctrls
    BY ReachedIsLive
  <2> QED
    BY <2>1 DEF Reachable, Closed
<1> DEFINE L == {d \in S : life[d] = "live"}
<1>1. Closed(L)
  BY MemberIsOwned, OwnedIsLive DEF Closed
<1>2. {sp[t][v] : v \in V} \ {None} \subseteq L
  <2> SUFFICES ASSUME NEW v \in V, sp[t][v] # None PROVE sp[t][v] \in L
    OBVIOUS
  <2>1. v \in Strong /\ own[t][v] = sp[t][v]
    BY DEF own
  <2>2. life[sp[t][v]] = "live" /\ sp'[t][v] = sp[t][v]
    BY <2>1, HeldIsOwned, OwnedIsLive
  <2>3. sp'[t][v] \in S
    BY <2>2
  <2> QED
    BY <2>2, <2>3
<1>3. L \in SUBSET Ctrls
  OBVIOUS
<1> HIDE DEF L
<1>4. c \in L
  BY <1>1, <1>2, <1>3 DEF Reachable
<1> QED
  BY <1>4 DEF L

\* No step changes the member of a live object.
LEMMA MembersStay ==
  ASSUME SelfOwned = FALSE, Inv, [Next]_vars, NEW d \in Ctrls, life[d] = "live"
  PROVE  member'[d] = member[d]
<1>1. ASSUME NEW t \in Threads, UserCall(t) PROVE member'[d] = member[d]
  <2>1. ASSUME NEW v \in Strong, NEW w \in Strong, Make(t, v, w) PROVE member'[d] = member[d]
    BY <2>1 DEF Make, Inv, Core, CoreTyped
  <2>2. CASE \E v \in Strong, w \in Strong : Make(t, v, w)
    BY <2>1, <2>2
  <2>3. CASE ~\E v \in Strong, w \in Strong : Make(t, v, w)
    BY <1>1, <2>3 DEF UserCall, Copy, Assign, MoveAssign, Drop, SharedFromThis, AtomicLoad, AtomicStore,
       MakeWeak, Lock, DropWeak, Convert
  <2> QED
    BY <2>2, <2>3
<1>2. ASSUME NEW t \in Threads, Proceed(t) PROVE member'[d] = member[d]
  <2>1. CASE DestroyMembers(t)
    <3>1. Head(stack[t]).ctrl # d
      BY <2>1, HeadIs DEF DestroyMembers, Inv
    <3> QED
      BY <2>1, <3>1 DEF DestroyMembers, Inv, Core, CoreTyped
  <2>2. CASE MoveRead(t)
    <3>1. dec[t].from.object = None
      BY <2>2, Row DEF MoveRead, DecOK
    <3> QED
      BY <2>2, <3>1 DEF MoveRead
  <2>3. CASE ~DestroyMembers(t) /\ ~MoveRead(t)
    BY <1>2, <2>3 DEF Proceed, DropDone, AssignRead, DestroyBase, DestroyWeak, CasSucceeds, CasFails,
       AddFails, ConvertRelease, LoadRead, LoadInc, StoreSwap, StoreDrop
  <2> QED
    BY <2>1, <2>2, <2>3
<1>3. CASE UNCHANGED vars
  BY <1>3 DEF vars
<1> QED
  BY <1>1, <1>2, <1>3 DEF Next

\* A step of one thread leaves the variables of the others alone.
LEMMA VariablesAreOwn ==
  ASSUME Inv, NEW t \in Threads, NEW u \in Threads, u # t, UserCall(u) \/ Proceed(u)
  PROVE  sp'[t] = sp[t] /\ dec'[t] = dec[t]
<1>1. sp \in [Threads -> [Strong -> Ptr]] /\ dec \in [Threads -> Dec]
  BY DEF Inv, PointersTyped
<1> DEFINE Kept == sp'[t] = sp[t] /\ dec'[t] = dec[t]
<1>2. ASSUME NEW v \in Strong, NEW w \in Strong, Make(u, v, w) PROVE Kept
  BY <1>1, <1>2 DEF Make
<1>3. ASSUME NEW v \in Strong, NEW p \in Places(u), Copy(u, v, p) PROVE Kept
  BY <1>1, <1>3 DEF Copy
<1>4. ASSUME NEW v \in Strong, NEW p \in Places(u), Assign(u, v, p) \/ MoveAssign(u, v, p) PROVE Kept
  BY <1>1, <1>4 DEF Assign, MoveAssign, BeginDec
<1>5. ASSUME NEW v \in Strong, Drop(u, v) PROVE Kept
  BY <1>1, <1>5 DEF Drop, BeginDec
<1>6. ASSUME NEW v \in Strong,
             \/ \E c \in Ctrls : SharedFromThis(u, c, v)
             \/ AtomicLoad(u, v) \/ AtomicStore(u, v)
             \/ \E k \in Weak : MakeWeak(u, k, v) \/ Lock(u, k, v)
      PROVE  Kept
  BY <1>6 DEF SharedFromThis, AtomicLoad, AtomicStore, MakeWeak, Lock
<1>7. ASSUME NEW k \in Weak, DropWeak(u, k) \/ Convert(u, k) PROVE Kept
  BY <1>7 DEF DropWeak, Convert
<1>8. CASE DropDone(u) \/ AssignRead(u)
  BY <1>1, <1>8 DEF DropDone, AssignRead
<1>9. CASE MoveRead(u)
  BY <1>1, <1>9 DEF MoveRead
<1>10. CASE CasSucceeds(u) \/ LoadInc(u) \/ StoreSwap(u) \/ StoreDrop(u)
  BY <1>1, <1>10 DEF CasSucceeds, LoadInc, StoreSwap, StoreDrop
<1>11. CASE \/ DestroyMembers(u) \/ DestroyBase(u) \/ DestroyWeak(u) \/ CasFails(u) \/ AddFails(u)
            \/ ConvertRelease(u) \/ LoadRead(u)
  BY <1>11 DEF DestroyMembers, DestroyBase, DestroyWeak, CasFails, AddFails, ConvertRelease, LoadRead
<1>12. CASE UserCall(u)
  <2>1. CASE \E v \in Strong : \/ \E w \in Strong : Make(u, v, w)
                               \/ \E p \in Places(u) : Copy(u, v, p) \/ Assign(u, v, p) \/ MoveAssign(u, v, p)
                               \/ Drop(u, v)
    BY <1>2, <1>3, <1>4, <1>5, <2>1
  <2>2. CASE \E v \in Strong : \/ \E c \in Ctrls : SharedFromThis(u, c, v)
                               \/ AtomicLoad(u, v)
                               \/ AtomicStore(u, v)
                               \/ \E k \in Weak : MakeWeak(u, k, v) \/ Lock(u, k, v)
    BY <1>6, <2>2
  <2>3. CASE \E k \in Weak : DropWeak(u, k) \/ Convert(u, k)
    BY <1>7, <2>3
  <2> QED
    BY <1>12, <2>1, <2>2, <2>3 DEF UserCall
<1>13. CASE Proceed(u)
  BY <1>8, <1>9, <1>10, <1>11, <1>13 DEF Proceed
<1> QED
  BY <1>12, <1>13

\* While a dec is under way, its thread's other variables keep what they point to.
LEMMA VariablesStay ==
  ASSUME Inv, [Next]_vars, NEW t \in Threads, dec[t].kind # "none", dec'[t] = dec[t],
         NEW v \in Strong, sp[t][v] # None
  PROVE  sp'[t][v] = sp[t][v]
<1>1. ASSUME NEW u \in Threads, u # t, UserCall(u) \/ Proceed(u) PROVE sp'[t] = sp[t]
  BY <1>1, VariablesAreOwn
<1>2. CASE UserCall(t)
  <2>1. ASSUME NEW w \in Strong, NEW p \in Places(t), Copy(t, w, p) PROVE sp'[t][v] = sp[t][v]
    BY <2>1 DEF Copy, Inv, PointersTyped
  <2>2. CASE \E w \in Strong, p \in Places(t) : Copy(t, w, p)
    BY <2>1, <2>2
  <2>3. CASE ~\E w \in Strong, p \in Places(t) : Copy(t, w, p)
    BY <1>2, <2>3
    DEF UserCall, Make, Assign, MoveAssign, Drop, SharedFromThis, AtomicLoad, AtomicStore, MakeWeak,
        Lock, DropWeak, Convert, IsIdle
  <2> QED
    BY <2>2, <2>3
<1>3. CASE Proceed(t)
  <2>1. CASE CasSucceeds(t)
    <3>1. call[t].to # 0 => call[t].to \in Strong /\ sp[t][call[t].to] = None
      BY <2>1, Row DEF CasSucceeds, CallOK, DecOK, Call, own, Released
    <3> QED
      BY <2>1, <3>1 DEF CasSucceeds, Inv, PointersTyped
  <2>2. CASE DropDone(t) \/ AssignRead(t) \/ MoveRead(t)
    <3>1. dec'[t] = NoDec
      BY <2>2 DEF DropDone, AssignRead, MoveRead, Inv, PointersTyped
    <3> QED
      BY <3>1 DEF NoDec
  <2>3. CASE LoadInc(t) \/ StoreSwap(t) \/ StoreDrop(t)
    BY <2>3, CallNoDec DEF LoadInc, StoreSwap, StoreDrop
  <2>4. CASE \/ DestroyMembers(t) \/ DestroyBase(t) \/ DestroyWeak(t) \/ CasFails(t) \/ AddFails(t)
             \/ ConvertRelease(t) \/ LoadRead(t)
    BY <2>4 DEF DestroyMembers, DestroyBase, DestroyWeak, CasFails, AddFails, ConvertRelease, LoadRead
  <2> QED
    BY <1>3, <2>1, <2>2, <2>3, <2>4 DEF Proceed
<1>4. CASE UNCHANGED vars
  BY <1>4 DEF vars
<1> QED
  BY <1>1, <1>2, <1>3, <1>4 DEF Next

\* An assignment starts, goes on or is over.
LEMMA DecSteps ==
  ASSUME Inv, [Next]_vars, NEW t \in Threads
  PROVE  \/ dec'[t] = dec[t]
         \/ dec'[t].kind # "assign"
         \/ \E v \in Strong, p \in Places(t) : Assign(t, v, p)
<1>1. ASSUME NEW u \in Threads, u # t, UserCall(u) \/ Proceed(u) PROVE dec'[t] = dec[t]
  BY <1>1, VariablesAreOwn
<1>2. CASE UserCall(t)
  <2>1. ASSUME NEW v \in Strong, NEW p \in Places(t), MoveAssign(t, v, p) PROVE dec'[t].kind # "assign"
    BY <2>1 DEF MoveAssign, BeginDec, Inv, PointersTyped
  <2>2. ASSUME NEW v \in Strong, Drop(t, v) PROVE dec'[t].kind # "assign"
    BY <2>2 DEF Drop, BeginDec, Inv, PointersTyped
  <2>3. CASE /\ ~\E v \in Strong, p \in Places(t) : Assign(t, v, p) \/ MoveAssign(t, v, p)
             /\ ~\E v \in Strong : Drop(t, v)
    BY <1>2, <2>3
    DEF UserCall, Make, Copy, SharedFromThis, AtomicLoad, AtomicStore, MakeWeak, Lock, DropWeak, Convert
  <2> QED
    BY <2>1, <2>2, <2>3
<1>3. CASE Proceed(t)
  <2>1. CASE DropDone(t) \/ AssignRead(t) \/ MoveRead(t)
    BY <2>1 DEF DropDone, AssignRead, MoveRead, NoDec, Inv, PointersTyped
  <2>2. CASE ~DropDone(t) /\ ~AssignRead(t) /\ ~MoveRead(t)
    BY <1>3, <2>2
    DEF Proceed, DestroyMembers, DestroyBase, DestroyWeak, CasSucceeds, CasFails, AddFails,
        ConvertRelease, LoadRead, LoadInc, StoreSwap, StoreDrop
  <2> QED
    BY <2>1, <2>2
<1>4. CASE UNCHANGED vars
  BY <1>4 DEF vars
<1> QED
  BY <1>1, <1>2, <1>3, <1>4 DEF Next

\* So the right side of an assignment stays reachable until it is read.
LEMMA RightSideKept ==
  ASSUME SelfOwned = FALSE, Inv, RightSideInv, [Next]_vars
  PROVE  RightSideInv'
<1> SUFFICES ASSUME NEW t \in Threads, NEW v, NEW c, dec'[t].kind = "assign",
                    dec'[t].to = v, dec'[t].from.object = c, c # None
             PROVE  v \in Strong /\ c \in Reachable(t, Others(v))'
  BY DEF RightSideInv
<1>1. CASE dec'[t] = dec[t]
  <2>1. /\ v \in Strong /\ c \in Reachable(t, Others(v)) /\ dec[t].kind # "none" /\ dec[t].to = v
        /\ Others(v) \in SUBSET Strong
    BY <1>1 DEF RightSideInv, Others
  <2>2. \A w \in Others(v) : ~Released(t, w)
    BY <2>1 DEF Others, Released
  <2>3. \A w \in Others(v) : sp[t][w] # None => sp'[t][w] = sp[t][w]
    BY <1>1, <2>1, VariablesStay
  <2>4. \A d \in Ctrls : life[d] = "live" => member'[d] = member[d]
    BY MembersStay
  <2> QED
    BY <2>1, <2>2, <2>3, <2>4, ReachedStays
<1>2. ASSUME NEW w \in Strong, NEW p \in Places(t), Assign(t, w, p)
      PROVE  v \in Strong /\ c \in Reachable(t, Others(v))'
  <2>1. dec'[t] = [kind |-> "assign", to |-> w, from |-> p] /\ sp' = sp /\ member' = member
    BY <1>2 DEF Assign, BeginDec, Inv, PointersTyped
  <2>2. w = v /\ p.object = c
    BY <2>1
  <2>3. c \in Reachable(t, Others(v))
    BY <1>2, <2>2 DEF Assign
  <2>4. Reachable(t, Others(v))' = Reachable(t, Others(v))
    BY <2>1 DEF Reachable, Closed
  <2> QED
    BY <2>2, <2>3, <2>4
<1> QED
  BY <1>1, <1>2, DecSteps

\* AssignReadsLive: when the right side of an assignment is another variable, or can
\* be reached from one over the members of any number of objects, it is read from an
\* object that is alive, whatever destructors the release of the left side has run
\* in between.  (One that can be reached through the left side alone may not be:
\* operator= releases before it reads, memory:515-531.)
THEOREM AssignmentReadsLive ==
  ASSUME SelfOwned = FALSE, ReadsReleased = FALSE
  PROVE  Spec => []AssignReadsLive
<1>1. Init => RightSideInv
  BY DEF Init, RightSideInv, NoDec
<1>2. Inv /\ RightSideInv /\ [Next]_vars => RightSideInv'
  BY RightSideKept
<1>3. Inv /\ RightSideInv => AssignReadsLive
  <2> SUFFICES ASSUME Inv, RightSideInv, NEW t \in Threads, dec[t].kind \in {"assign", "move"},
                      dec[t].from.object # None
               PROVE  life[dec[t].from.object] = "live"
    BY DEF AssignReadsLive
  <2>1. dec[t].kind = "assign"
    BY Row DEF DecOK
  <2>2. /\ Others(dec[t].to) \in SUBSET Strong
        /\ \A v \in Others(dec[t].to) : ~Released(t, v)
        /\ dec[t].from.object \in Reachable(t, Others(dec[t].to))
    BY <2>1 DEF RightSideInv, Others, Released
  <2> QED
    BY <2>2, ReachedIsLive
<1>4. Spec => []Inv
  BY InvHolds
<1> QED
  BY <1>1, <1>2, <1>3, <1>4, PTL DEF Spec

\* What a step may do to the life of an object.
LifeStep == \A c \in Ctrls :
  \/ life'[c] = life[c]
  \/ life[c] \in {"none", "live"}
  \/ life'[c] = "none"
  \/ life[c] = "dying" /\ life'[c] = "dead"

\* dec ends the life of a live object only.
LEMMA ReleaseSteps ==
  ASSUME Inv, NEW t, NEW x, NEW below, StrongRelease(t, x, below)
  PROVE  LifeStep
<1>1. CASE count[x] = 1 /\ life' = [life EXCEPT ![x] = "dying"]
  <2>1. \A c \in Ctrls : count[c] = 1 => life[c] = "live"
    BY DEF Inv, Core, LifeInv
  <2> QED
    BY <1>1, <2>1 DEF LifeStep, Inv, Core, CoreTyped
<1>2. CASE life' = life
  BY <1>2 DEF LifeStep
<1> QED
  BY <1>1, <1>2 DEF StrongRelease

\* The deletion of a block ends whatever was left of the object.
LEMMA WeakReleaseSteps ==
  ASSUME Inv, NEW x, WeakRelease(x)
  PROVE  LifeStep
<1>1. CASE life' = [life EXCEPT ![x] = "none"]
  BY <1>1 DEF LifeStep, Inv, Core, CoreTyped
<1>2. CASE life' = life
  BY <1>2 DEF LifeStep
<1> QED
  BY <1>1, <1>2 DEF WeakRelease

\* Every step leaves lives alone, or takes them one stage on.
LEMMA LifeSteps ==
  ASSUME Inv, [Next]_vars
  PROVE  LifeStep
<1>1. UNCHANGED life => LifeStep
  BY DEF LifeStep
<1>2. ASSUME NEW t \in Threads, UserCall(t) PROVE LifeStep
  <2>1. ASSUME NEW v \in Strong, NEW w \in Strong, Make(t, v, w) PROVE LifeStep
    BY <2>1 DEF Make, LifeStep, Inv, Core, CoreTyped
  <2>2. ASSUME NEW v \in Strong, NEW p \in Places(t), Copy(t, v, p) \/ Assign(t, v, p) \/ MoveAssign(t, v, p)
        PROVE  LifeStep
    BY <1>1, <2>2, ReleaseSteps DEF Copy, Assign, MoveAssign, BeginDec
  <2>3. ASSUME NEW v \in Strong, Drop(t, v) PROVE LifeStep
    BY <1>1, <2>3, ReleaseSteps DEF Drop, BeginDec
  <2>4. ASSUME NEW v \in Strong,
               \/ \E c \in Ctrls : SharedFromThis(t, c, v)
               \/ AtomicLoad(t, v) \/ AtomicStore(t, v)
               \/ \E k \in Weak : MakeWeak(t, k, v) \/ Lock(t, k, v)
        PROVE  LifeStep
    BY <1>1, <2>4 DEF SharedFromThis, AtomicLoad, AtomicStore, MakeWeak, Lock
  <2>5. ASSUME NEW k \in Weak, DropWeak(t, k) \/ Convert(t, k) PROVE LifeStep
    BY <1>1, <2>5, WeakReleaseSteps DEF DropWeak, Convert
  <2> QED
    BY <1>2, <2>1, <2>2, <2>3, <2>4, <2>5 DEF UserCall
<1>3. ASSUME NEW t \in Threads, Proceed(t) PROVE LifeStep
  <2>1. CASE \/ DropDone(t) \/ AssignRead(t) \/ MoveRead(t) \/ CasSucceeds(t) \/ CasFails(t)
             \/ LoadRead(t) \/ LoadInc(t) \/ StoreSwap(t)
    BY <1>1, <2>1 DEF DropDone, AssignRead, MoveRead, CasSucceeds, CasFails, LoadRead, LoadInc, StoreSwap
  <2>2. CASE DestroyMembers(t) \/ StoreDrop(t)
    BY <1>1, <2>2, ReleaseSteps DEF DestroyMembers, StoreDrop
  <2>3. CASE DestroyBase(t)
    <3>1. /\ life[Head(stack[t]).ctrl] = "dying" /\ Head(stack[t]).ctrl \in Ctrls
          /\ life' = [life EXCEPT ![Head(stack[t]).ctrl] = "dead"]
      BY <2>3, HeadIs DEF DestroyBase, Inv
    <3> QED
      BY <3>1 DEF LifeStep, Inv, Core, CoreTyped
  <2>4. CASE DestroyWeak(t)
    BY <2>4, WeakReleaseSteps DEF DestroyWeak
  <2>5. CASE AddFails(t) \/ ConvertRelease(t)
    BY <1>1, <2>5, ReleaseSteps, WeakReleaseSteps DEF AddFails, ConvertRelease
  <2> QED
    BY <1>3, <2>1, <2>2, <2>3, <2>4, <2>5 DEF Proceed
<1> QED
  BY <1>1, <1>2, <1>3 DEF Next, vars

\* NoResurrection: from the moment the last owner has released an object, no lock,
\* shared_from_this, conversion, atomic_load, assignment or copy gives it an owner
\* again, also in the body of a destructor that runs before the variable is set to
\* null (memory:421-428), unless it copies that variable.
THEOREM NobodyResurrected ==
  ASSUME SelfOwned = FALSE, ReadsReleased = FALSE
  PROVE  Spec => NoResurrection
<1> DEFINE Stays == \A c \in Ctrls : life[c] \in {"dying", "dead"} =>
                      /\ count'[c] = 0
                      /\ life'[c] \in {"dying", "dead", "none"}
                      /\ life[c] = "dead" => life'[c] # "dying"
<1>1. Inv /\ Inv' /\ [Next]_vars => [Stays]_vars
  <2> SUFFICES ASSUME Inv, Inv', [Next]_vars, NEW c \in Ctrls, life[c] \in {"dying", "dead"}
               PROVE  /\ count'[c] = 0
                      /\ life'[c] \in {"dying", "dead", "none"}
                      /\ life[c] = "dead" => life'[c] # "dying"
    OBVIOUS
  <2>1. \/ life'[c] = life[c] \/ life'[c] = "none"
        \/ life[c] = "dying" /\ life'[c] = "dead"
    BY LifeSteps DEF LifeStep
  <2>2. (life'[c] = "live" <=> count'[c] > 0) /\ count'[c] \in Nat
    BY DEF Inv, Core, CoreTyped, LifeInv
  <2> QED
    BY <2>1, <2>2
<1>2. Spec => [][Stays]_vars
  BY <1>1, InvHolds, PTL DEF Spec
<1> QED
  BY <1>2 DEF NoResurrection
=============================================================================
