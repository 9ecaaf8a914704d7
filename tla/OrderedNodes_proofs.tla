-------------------------- MODULE OrderedNodes_proofs --------------------------
(***************************************************************************)
(* For any sets of containers, nodes, keys and values, and whatever        *)
(* allocations fail: the list of a set or a map, forwards and backwards,   *)
(* is its index, no node leaks or is in two containers, no value is lost,  *)
(* and the elements are the sorted sequence that SortedElements promises,  *)
(* provided that a merge neither moves keys nor fails to grow the index    *)
(* after it has moved a value (Mergeable).                                 *)
(*                                                                         *)
(* The chain from head to tail is linked in both directions in the order   *)
(* of the index (Linked), so that insertion and removal at a position of   *)
(* the index do to the chain what they do to the index.  Positions come    *)
(* from a binary search, which is right because the keys ascend (Sorted);  *)
(* that is why a merge that changes keys is not.  Walk and BinarySearch    *)
(* are recursive functions on numbers: that they are defined, and what     *)
(* they compute, follows from the least number where they would not be.    *)
(***************************************************************************)
EXTENDS OrderedNodes, SequenceTheorems, FiniteSetTheorems, WellFoundedInduction, TLAPS

-----------------------------------------------------------------------------
(* Induction over the natural numbers                                      *)

\* A set of numbers that is not empty has a least one: of the intervals 0..n with
\* n in the set, which are finite, one has none of the others as a strict subset.
LEMMA NatMin ==
  ASSUME NEW T, T \subseteq Nat, T # {}
  PROVE  \E x \in T : \A y \in T : x <= y
<1> DEFINE R == StrictSubsetOrdering(Nat)
           F == FiniteSubsetsOf(Nat)
           U == {0..n : n \in T}
<1>1. IsWellFoundedOn(R, F)
  BY FS_StrictSubsetOrderingWellFounded
<1>2. U \subseteq F /\ U # {}
  <2>1. ASSUME NEW n \in T PROVE 0..n \in F
    <3>1. IsFiniteSet(0..n)
      BY FS_Interval
    <3>2. 0..n \in SUBSET Nat
      OBVIOUS
    <3> QED BY <3>1, <3>2 DEF FiniteSubsetsOf
  <2> HIDE DEF F
  <2> QED BY <2>1
<1>3. \E x \in U : \A y \in U : ~ (<<y, x>> \in R)
  <2> HIDE DEF R, F, U
  <2> QED BY <1>1, <1>2, WFMin
<1>4. PICK x \in T : \A y \in T : ~(<<0..y, 0..x>> \in R)
  BY <1>3
<1>5. \A y \in T : x <= y
  <2> SUFFICES ASSUME NEW y \in T, y < x PROVE FALSE
    OBVIOUS
  <2>1. /\ 0..y \subseteq 0..x /\ x \in 0..x /\ x \notin 0..y
        /\ 0..x \in SUBSET Nat /\ 0..y \in SUBSET Nat
    OBVIOUS
  <2>2. <<0..y, 0..x>> \in R
    BY <2>1 DEF StrictSubsetOrdering
  <2> QED BY <2>2, <1>4
<1> QED BY <1>5

\* Induction, with the set of the numbers for which the statement holds in the
\* place of a predicate.
LEMMA NatInd ==
  ASSUME NEW S, 0 \in S, \A n \in Nat : n \in S => n + 1 \in S
  PROVE  Nat \subseteq S
<1> SUFFICES ASSUME Nat \ S # {} PROVE FALSE
  OBVIOUS
<1>1. PICK x \in Nat \ S : \A y \in Nat \ S : x <= y
  BY NatMin
<1>2. x # 0
  OBVIOUS
<1>3. x - 1 \in Nat /\ (x - 1) + 1 = x
  BY <1>2
<1> QED BY <1>1, <1>3

-----------------------------------------------------------------------------
(* Sequences                                                               *)

\* Entries first + 1 to last are taken out.
Without(s, first, last) == SubSeq(s, 1, first) \o SubSeq(s, last + 1, Len(s))

IsWithout(w, S, s, first, last) ==
  /\ w \in Seq(S)
  /\ Len(w) = Len(s) - (last - first)
  /\ \A j \in 1 .. first : w[j] = s[j]
  /\ \A j \in first + 1 .. Len(s) - (last - first) : w[j] = s[j + (last - first)]

LEMMA WithoutIs ==
  ASSUME NEW S, NEW s \in Seq(S), NEW first \in Nat, NEW last \in Nat,
         first <= last, last <= Len(s)
  PROVE  IsWithout(Without(s, first, last), S, s, first, last)
<1> DEFINE a == SubSeq(s, 1, first)
           b == SubSeq(s, last + 1, Len(s))
           n == Len(s)
<1>0. n \in Nat
  BY LenProperties
<1>1. a \in Seq(S) /\ Len(a) = first /\ \A j \in 1 .. first : a[j] = s[j]
  OBVIOUS
<1>2. b \in Seq(S) /\ Len(b) = n - last /\ \A j \in 1 .. n - last : b[j] = s[j + last]
  OBVIOUS
<1>3. Without(s, first, last) = a \o b
  BY DEF Without
<1>4. first <= last /\ last <= n
  OBVIOUS
<1> HIDE DEF a, b, n
<1> DEFINE w == a \o b
<1>5. /\ w \in Seq(S) /\ Len(w) = Len(a) + Len(b)
      /\ \A j \in 1 .. Len(a) + Len(b) : w[j] = IF j <= Len(a) THEN a[j] ELSE b[j - Len(a)]
  BY <1>1, <1>2, ConcatProperties
<1> HIDE DEF w
<1>6. /\ w \in Seq(S) /\ Len(w) = first + (n - last)
      /\ \A j \in 1 .. first + (n - last) : w[j] = IF j <= first THEN a[j] ELSE b[j - first]
  BY <1>1, <1>2, <1>5
<1>7. ASSUME NEW j \in 1 .. first PROVE w[j] = s[j]
  BY <1>0, <1>1, <1>4, <1>6
<1>8. ASSUME NEW j \in first + 1 .. n - (last - first) PROVE w[j] = s[j + (last - first)]
  <2>1. j \in 1 .. first + (n - last) /\ ~(j <= first) /\ j - first \in 1 .. n - last
    BY <1>0, <1>4
  <2>2. w[j] = b[j - first]
    BY <1>6, <2>1
  <2>3. b[j - first] = s[(j - first) + last]
    BY <1>2, <2>1
  <2>4. (j - first) + last = j + (last - first)
    BY <1>0
  <2> QED BY <2>2, <2>3, <2>4
<1>9. first + (n - last) = n - (last - first)
  BY <1>0
<1> QED
  BY <1>3, <1>6, <1>7, <1>8, <1>9 DEF w, n, IsWithout

\* An entry is inserted behind the first i.
IsInserted(t, S, s, i, e) ==
  /\ t \in Seq(S)
  /\ Len(t) = Len(s) + 1
  /\ \A j \in 1 .. i : t[j] = s[j]
  /\ t[i + 1] = e
  /\ \A j \in i + 2 .. Len(s) + 1 : t[j] = s[j - 1]

LEMMA InsertAtIs ==
  ASSUME NEW S, NEW s \in Seq(S), NEW i \in 0 .. Len(s), NEW e \in S
  PROVE  IsInserted(InsertAt(s, i + 1, e), S, s, i, e)
<1> DEFINE a == SubSeq(s, 1, i)
           b == SubSeq(s, i + 1, Len(s))
           ae == a \o <<e>>
           n == Len(s)
<1>0. n \in Nat /\ i \in 0 .. n
  BY LenProperties
<1>1. a \in Seq(S) /\ Len(a) = i /\ \A j \in 1 .. i : a[j] = s[j]
  OBVIOUS
<1>2. b \in Seq(S) /\ Len(b) = n - i /\ \A j \in 1 .. n - i : b[j] = s[j + i]
  OBVIOUS
<1>3. InsertAt(s, i + 1, e) = ae \o b
  <2>1. (i + 1) - 1 = i
    BY <1>0
  <2> QED BY <2>1 DEF InsertAt
<1> HIDE DEF a, b, n
<1>4. ae \in Seq(S) /\ Len(ae) = i + 1 /\ ae[i + 1] = e /\ \A j \in 1 .. i : ae[j] = s[j]
  BY <1>0, <1>1
<1> HIDE DEF ae
<1> DEFINE w == ae \o b
<1>5. /\ w \in Seq(S) /\ Len(w) = Len(ae) + Len(b)
      /\ \A j \in 1 .. Len(ae) + Len(b) : w[j] = IF j <= Len(ae) THEN ae[j] ELSE b[j - Len(ae)]
  BY <1>2, <1>4, ConcatProperties
<1> HIDE DEF w
<1>6. /\ w \in Seq(S) /\ Len(w) = n + 1
      /\ \A j \in 1 .. n + 1 : w[j] = IF j <= i + 1 THEN ae[j] ELSE b[j - (i + 1)]
  BY <1>0, <1>2, <1>4, <1>5
<1>7. ASSUME NEW j \in 1 .. i PROVE w[j] = s[j]
  BY <1>0, <1>4, <1>6
<1>8. w[i + 1] = e
  BY <1>0, <1>4, <1>6
<1>9. ASSUME NEW j \in i + 2 .. n + 1 PROVE w[j] = s[j - 1]
  <2>1. j \in 1 .. n + 1 /\ ~(j <= i + 1) /\ j - (i + 1) \in 1 .. n - i
    BY <1>0
  <2>2. w[j] = b[j - (i + 1)]
    BY <1>6, <2>1
  <2>3. b[j - (i + 1)] = s[(j - (i + 1)) + i]
    BY <1>2, <2>1
  <2>4. (j - (i + 1)) + i = j - 1
    BY <1>0
  <2> QED BY <2>2, <2>3, <2>4
<1> QED
  BY <1>3, <1>6, <1>7, <1>8, <1>9 DEF w, n, IsInserted

LEMMA RemoveAtIs ==
  ASSUME NEW S, NEW s \in Seq(S), NEW i \in 1 .. Len(s)
  PROVE  RemoveAt(s, i) = Without(s, i - 1, i)
  BY DEF RemoveAt, Without

-----------------------------------------------------------------------------
(* Walking along a chain                                                   *)

IsChain(at, pointer, from, n) == at = [i \in 1 .. n |-> IF i = 1 THEN from ELSE pointer[at[i - 1]]]

LEMMA ChainExists ==
  ASSUME NEW pointer, NEW from, NEW n \in Nat
  PROVE  \E at : IsChain(at, pointer, from, n)
<1> DEFINE S == {m \in Nat : \E at : IsChain(at, pointer, from, m)}
<1>1. 0 \in S
  <2> DEFINE f0 == [i \in 1 .. 0 |-> from]
  <2>1. f0 = [i \in 1 .. 0 |-> IF i = 1 THEN from ELSE pointer[f0[i - 1]]]
    OBVIOUS
  <2> QED BY <2>1 DEF IsChain
<1>2. ASSUME NEW m \in Nat, m \in S PROVE m + 1 \in S
  <2>1. PICK f : f = [i \in 1 .. m |-> IF i = 1 THEN from ELSE pointer[f[i - 1]]]
    BY <1>2 DEF IsChain
  <2> DEFINE last == IF m = 0 THEN from ELSE pointer[f[m]]
             g == [i \in 1 .. m + 1 |-> IF i = m + 1 THEN last ELSE f[i]]
  <2>2. ASSUME NEW i \in 1 .. m + 1 PROVE g[i] = IF i = 1 THEN from ELSE pointer[g[i - 1]]
    <3>1. CASE i = m + 1 /\ m = 0
      BY <3>1
    <3>2. CASE i = m + 1 /\ m # 0
      BY <3>2
    <3>3. CASE i # m + 1
      <4>1. i \in 1 .. m
        BY <3>3
      <4>2. f[i] = IF i = 1 THEN from ELSE pointer[f[i - 1]]
        BY <2>1, <4>1
      <4> QED
        BY <4>1, <4>2
    <3> QED
      BY <3>1, <3>2, <3>3
  <2>3. g = [i \in 1 .. m + 1 |-> g[i]]
    OBVIOUS
  <2> HIDE DEF g
  <2>4. IsChain(g, pointer, from, m + 1)
    BY <2>2, <2>3 DEF IsChain
  <2> QED BY <2>4
<1>3. n \in S
  BY <1>1, <1>2, NatInd
<1> QED BY <1>3

\* The chain without a repetition from one node to the end.
IsPath(s, pointer, from, to, null) ==
  /\ \A i, j \in 1 .. Len(s) : s[i] = s[j] => i = j
  /\ \A i \in 1 .. Len(s) : s[i] \notin {to, null}
  /\ Len(s) > 0 => from = s[1]
  /\ Len(s) = 0 => from \in {to, null}
  /\ \A i \in 1 .. Len(s) - 1 : pointer[s[i]] = s[i + 1]
  /\ Len(s) > 0 => pointer[s[Len(s)]] \in {to, null}

\* It is what Walk returns.
LEMMA WalkIs ==
  ASSUME NEW N, IsFiniteSet(N), NEW pointer, DOMAIN pointer = N, NEW from, NEW to, NEW null,
         NEW s \in Seq(N),
         IsPath(s, pointer, from, to, null)
  PROVE  Walk(pointer, from, to, null) = s
<1>0. /\ \A i, j \in 1 .. Len(s) : s[i] = s[j] => i = j
      /\ \A i \in 1 .. Len(s) : s[i] \notin {to, null}
      /\ Len(s) > 0 => from = s[1]
      /\ Len(s) = 0 => from \in {to, null}
      /\ \A i \in 1 .. Len(s) - 1 : pointer[s[i]] = s[i + 1]
      /\ Len(s) > 0 => pointer[s[Len(s)]] \in {to, null}
  BY DEF IsPath
<1> USE <1>0
<1> DEFINE most == Cardinality(DOMAIN pointer)
           at == CHOOSE at : at = [i \in 1 .. most |-> IF i = 1 THEN from ELSE pointer[at[i - 1]]]
           Ends(i) == /\ \A j \in 1 .. i : at[j] \notin {to, null}
                      /\ i < most => at[i + 1] \in {to, null}
           last == CHOOSE i \in 0 .. most : Ends(i)
<1>1. most \in Nat /\ Len(s) <= most /\ Len(s) \in Nat
  <2>1. most \in Nat /\ Len(s) \in Nat
    BY FS_CardinalityType, LenProperties
  <2>2. s \in Injection(1 .. Len(s), N)
    BY DEF Injection, IsInjective
  <2>3. IsFiniteSet(1 .. Len(s)) /\ Cardinality(1 .. Len(s)) = Len(s)
    <3> DEFINE n == Len(s)
    <3>1. n \in Nat
      BY <2>1
    <3> HIDE DEF n
    <3>2. n \in Int /\ 1 \in Int
      BY <3>1
    <3>3. IsFiniteSet(1 .. n) /\ Cardinality(1 .. n) = IF 1 > n THEN 0 ELSE n - 1 + 1
      BY ONLY <3>2, FS_Interval
    <3>4. (IF 1 > n THEN 0 ELSE n - 1 + 1) = n
      BY <3>1
    <3> QED BY <3>3, <3>4 DEF n
  <2>4. Cardinality(1 .. Len(s)) <= Cardinality(N)
    BY <2>2, FS_Injection
  <2> QED BY <2>1, <2>3, <2>4
<1> HIDE DEF most
<1>2. \A i \in 1 .. most : at[i] = IF i = 1 THEN from ELSE pointer[at[i - 1]]
  <2>1. \E f : f = [i \in 1 .. most |-> IF i = 1 THEN from ELSE pointer[f[i - 1]]]
    <3>1. \E f : IsChain(f, pointer, from, most)
      BY <1>1, ChainExists
    <3> QED BY <3>1 DEF IsChain
  <2>2. at = [i \in 1 .. most |-> IF i = 1 THEN from ELSE pointer[at[i - 1]]]
    BY <2>1
  <2> HIDE DEF at
  <2> SUFFICES ASSUME NEW i \in 1 .. most PROVE at[i] = IF i = 1 THEN from ELSE pointer[at[i - 1]]
    OBVIOUS
  <2> DEFINE h == [k \in 1 .. most |-> IF k = 1 THEN from ELSE pointer[at[k - 1]]]
  <2>3. h[i] = IF i = 1 THEN from ELSE pointer[at[i - 1]]
    OBVIOUS
  <2>4. at = h
    BY <2>2
  <2> QED BY <2>3, <2>4
<1> HIDE DEF at
<1>3. \A i \in 1 .. Len(s) : at[i] = s[i]
  <2> DEFINE S == {m \in Nat : m + 1 \in 1 .. Len(s) => at[m + 1] = s[m + 1]}
  <2>1. 0 \in S
    BY <1>1, <1>2
  <2>2. ASSUME NEW m \in Nat, m \in S PROVE m + 1 \in S
    <3> SUFFICES ASSUME m + 2 \in 1 .. Len(s) PROVE at[m + 2] = s[m + 2]
      OBVIOUS
    <3>1. at[m + 1] = s[m + 1] /\ m + 1 \in 1 .. Len(s) - 1
      BY <2>2
    <3>2. at[m + 2] = pointer[at[(m + 2) - 1]]
      BY <1>1, <1>2
    <3>3. (m + 2) - 1 = m + 1 /\ (m + 1) + 1 = m + 2
      OBVIOUS
    <3> QED BY <3>1, <3>2, <3>3
  <2>3. \A m \in Nat : m \in S
    BY <2>1, <2>2, NatInd
  <2> HIDE DEF S
  <2> SUFFICES ASSUME NEW i \in 1 .. Len(s) PROVE at[i] = s[i]
    OBVIOUS
  <2>4. i - 1 \in S /\ (i - 1) + 1 = i
    BY <2>3
  <2> QED BY <2>4 DEF S
<1>4. Len(s) < most => at[Len(s) + 1] \in {to, null}
  <2> SUFFICES ASSUME Len(s) < most PROVE at[Len(s) + 1] \in {to, null}
    OBVIOUS
  <2>1. CASE Len(s) = 0
    BY <1>1, <1>2, <2>1
  <2>2. CASE Len(s) > 0
    <3>1. at[Len(s) + 1] = pointer[at[(Len(s) + 1) - 1]]
      BY <1>1, <1>2, <2>2
    <3>2. (Len(s) + 1) - 1 = Len(s) /\ at[Len(s)] = s[Len(s)]
      BY <1>1, <1>3, <2>2
    <3> QED BY <2>2, <3>1, <3>2
  <2> QED BY <1>1, <2>1, <2>2
<1>5. Ends(Len(s))
  BY <1>3, <1>4
<1>6. ASSUME NEW i \in 0 .. most, Ends(i) PROVE i = Len(s)
  <2>1. CASE i < Len(s)
    <3>1. i + 1 \in 1 .. Len(s) /\ i < most
      BY <1>1, <2>1
    <3>2. at[i + 1] \in {to, null}
      BY <1>6, <3>1
    <3> QED BY <1>3, <3>1, <3>2
  <2>2. CASE i > Len(s)
    <3>1. Len(s) + 1 \in 1 .. i /\ Len(s) < most
      BY <1>1, <2>2
    <3>2. at[Len(s) + 1] \notin {to, null}
      BY <1>6, <3>1
    <3> QED BY <1>4, <3>1, <3>2
  <2> QED BY <1>1, <2>1, <2>2
<1>7. last = Len(s)
  <2>1. Len(s) \in 0 .. most
    BY <1>1
  <2> HIDE DEF Ends
  <2> QED BY <1>5, <1>6, <2>1
<1>8. Walk(pointer, from, to, null) = [i \in 1 .. last |-> at[i]]
  BY DEF Walk, at, last, most
<1>9. s = [i \in 1 .. Len(s) |-> s[i]]
  OBVIOUS
<1> HIDE DEF last
<1> QED BY <1>3, <1>7, <1>8, <1>9

-----------------------------------------------------------------------------
(* The binary search                                                       *)

\* The part of the index that is left after one round of the loop.
Halved(now, right) ==
  LET step == now.count \div 2
  IN  IF now.count = 0 THEN now
      ELSE IF now.first + step \in right
      THEN [first |-> now.first + step + 1, count |-> now.count - step - 1]
      ELSE [first |-> now.first, count |-> step]

IsSearch(f, n, right, m) ==
  f = [i \in 0 .. m |-> IF i = 0 THEN [first |-> 0, count |-> n] ELSE Halved(f[i - 1], right)]

LEMMA SearchExists ==
  ASSUME NEW n, NEW right, NEW m \in Nat
  PROVE  \E f : IsSearch(f, n, right, m)
<1> DEFINE S == {k \in Nat : \E f : IsSearch(f, n, right, k)}
           start == [first |-> 0, count |-> n]
<1> HIDE DEF start
<1>1. 0 \in S
  <2> DEFINE f0 == [i \in 0 .. 0 |-> start]
  <2>1. f0 = [i \in 0 .. 0 |-> IF i = 0 THEN start ELSE Halved(f0[i - 1], right)]
    OBVIOUS
  <2> QED BY <2>1 DEF IsSearch, start
<1>2. ASSUME NEW k \in Nat, k \in S PROVE k + 1 \in S
  <2>1. PICK f : f = [i \in 0 .. k |-> IF i = 0 THEN start ELSE Halved(f[i - 1], right)]
    BY <1>2 DEF IsSearch, start
  <2> DEFINE g == [i \in 0 .. k + 1 |-> IF i = k + 1 THEN Halved(f[k], right) ELSE f[i]]
  <2>2. ASSUME NEW i \in 0 .. k + 1 PROVE g[i] = IF i = 0 THEN start ELSE Halved(g[i - 1], right)
    <3>1. CASE i = k + 1
      <4>1. i - 1 = k /\ i # 0 /\ k # k + 1 /\ k \in 0 .. k + 1
        BY <3>1
      <4>2. g[i] = Halved(f[k], right) /\ g[k] = f[k]
        BY <3>1, <4>1
      <4> QED BY <4>1, <4>2
    <3>2. CASE i # k + 1
      <4>1. i \in 0 .. k
        BY <3>2
      <4>2. f[i] = IF i = 0 THEN start ELSE Halved(f[i - 1], right)
        BY <2>1, <4>1
      <4>3. g[i] = f[i] /\ (i # 0 => g[i - 1] = f[i - 1])
        BY <4>1
      <4> QED BY <4>2, <4>3
    <3> QED BY <3>1, <3>2
  <2>3. g = [i \in 0 .. k + 1 |-> g[i]]
    OBVIOUS
  <2> HIDE DEF g
  <2>4. g = [i \in 0 .. k + 1 |-> IF i = 0 THEN start ELSE Halved(g[i - 1], right)]
    BY <2>2, <2>3
  <2> QED BY <2>4 DEF IsSearch, start
<1>3. m \in S
  BY <1>1, <1>2, NatInd
<1> QED BY <1>3

\* What a round keeps: p is in the part that is left, which gets smaller.
Around(now, p, n, i) ==
  /\ now \in [first : Nat, count : Nat]
  /\ now.first <= p /\ p <= now.first + now.count /\ now.first + now.count <= n
  /\ now.count = 0 \/ now.count <= n - i

LEMMA HalvedAround ==
  ASSUME NEW n \in Nat, NEW p \in 0 .. n, NEW right, NEW i \in Nat, NEW now,
         \A m \in 0 .. n - 1 : m \in right <=> m < p,
         Around(now, p, n, i)
  PROVE  Around(Halved(now, right), p, n, i + 1)
<1> DEFINE first == now.first
           count == now.count
           step == count \div 2
<1>1. /\ first \in Nat /\ count \in Nat
      /\ first <= p /\ p <= first + count /\ first + count <= n
      /\ count = 0 \/ count <= n - i
  BY DEF Around
<1>2. CASE count = 0
  BY <1>2 DEF Around, Halved
<1>3. CASE count # 0
  <2> HIDE DEF first, count
  <2>1. step \in Nat /\ step < count
    BY <1>1, <1>3
  <2> HIDE DEF step
  <2>2. first + step \in right <=> first + step < p
    BY <1>1, <2>1
  <2>3. CASE first + step \in right
    <3>1. Halved(now, right) = [first |-> first + step + 1, count |-> count - step - 1]
      BY <1>3, <2>3 DEF Halved, first, count, step
    <3>2. /\ first + step + 1 \in Nat /\ count - step - 1 \in Nat
          /\ first + step + 1 <= p
          /\ p <= (first + step + 1) + (count - step - 1)
          /\ (first + step + 1) + (count - step - 1) <= n
          /\ count - step - 1 <= n - (i + 1)
      BY <1>1, <1>3, <2>1, <2>2, <2>3
    <3> QED BY <3>1, <3>2 DEF Around
  <2>4. CASE first + step \notin right
    <3>1. Halved(now, right) = [first |-> first, count |-> step]
      BY <1>3, <2>4 DEF Halved, first, count, step
    <3>2. p <= first + step /\ first + step <= n /\ step <= n - (i + 1)
      BY <1>1, <1>3, <2>1, <2>2, <2>4
    <3> QED BY <1>1, <2>1, <3>1, <3>2 DEF Around
  <2> QED BY <2>3, <2>4
<1> QED BY <1>2, <1>3

\* The loop finds the position where the entries to the right begin.
LEMMA BinarySearchIs ==
  ASSUME NEW n \in Nat, NEW p \in 0 .. n, NEW right,
         \A m \in 0 .. n - 1 : m \in right <=> m < p
  PROVE  BinarySearch(n, right) = p
<1> DEFINE start == [first |-> 0, count |-> n]
           search == CHOOSE f : f = [i \in 0 .. n |-> IF i = 0 THEN start ELSE Halved(f[i - 1], right)]
<1>1. BinarySearch(n, right) = search[n].first
  BY DEF BinarySearch, Halved
<1>2. search = [i \in 0 .. n |-> IF i = 0 THEN start ELSE Halved(search[i - 1], right)]
  <2>1. \E f : IsSearch(f, n, right, n)
    BY SearchExists
  <2>2. \E f : f = [i \in 0 .. n |-> IF i = 0 THEN start ELSE Halved(f[i - 1], right)]
    BY <2>1 DEF IsSearch
  <2> HIDE DEF start
  <2> QED BY <2>2
<1> HIDE DEF search
<1>3. search[0] = start /\ \A i \in 0 .. n : i # 0 => search[i] = Halved(search[i - 1], right)
  <2> DEFINE h == [i \in 0 .. n |-> IF i = 0 THEN start ELSE Halved(search[i - 1], right)]
  <2>1. search = h
    BY <1>2
  <2>2. h[0] = start
    OBVIOUS
  <2>3. ASSUME NEW i \in 0 .. n, i # 0 PROVE h[i] = Halved(search[i - 1], right)
    <3> HIDE DEF start
    <3> QED BY <2>3
  <2> HIDE DEF h
  <2> QED BY <2>1, <2>2, <2>3
<1> DEFINE S == {i \in Nat : i <= n => Around(search[i], p, n, i)}
<1>4. 0 \in S
  BY <1>3 DEF Around
<1>5. ASSUME NEW i \in Nat, i \in S PROVE i + 1 \in S
  <2> SUFFICES ASSUME i + 1 <= n PROVE Around(search[i + 1], p, n, i + 1)
    OBVIOUS
  <2>1. Around(search[i], p, n, i)
    BY <1>5
  <2>2. Around(Halved(search[i], right), p, n, i + 1)
    BY <2>1, HalvedAround
  <2>3. (i + 1) - 1 = i /\ i + 1 \in 0 .. n /\ i + 1 # 0
    OBVIOUS
  <2>4. search[i + 1] = Halved(search[i], right)
    BY <1>3, <2>3
  <2> QED BY <2>2, <2>4
<1>6. Around(search[n], p, n, n)
  <2>1. n \in S
    BY <1>4, <1>5, NatInd
  <2> QED BY <2>1
<1>7. search[n].first = p
  BY <1>6 DEF Around
<1> QED BY <1>1, <1>7


-----------------------------------------------------------------------------
(* Lists                                                                   *)

\* The node at a position of an index, counted from 1, or the null pointer.
Entry(s, i) == IF i \in 1 .. Len(s) THEN s[i] ELSE None

\* The list with these ends and pointers is s, forwards and backwards.
Linked(s, first, last, nx, pv) ==
  /\ \A i, j \in 1 .. Len(s) : s[i] = s[j] => i = j
  /\ \A i \in 1 .. Len(s) : nx[s[i]] = Entry(s, i + 1) /\ pv[s[i]] = Entry(s, i - 1)
  /\ first = Entry(s, 1) /\ last = Entry(s, Len(s))

LEMMA ToSetIs ==
  ASSUME NEW S, NEW s \in Seq(S)
  PROVE  ToSet(s) = {s[i] : i \in 1 .. Len(s)} /\ ToSet(s) \subseteq S
  BY DEF ToSet

\* The pointers of its nodes are all that a list depends on.
LEMMA LinkedElsewhere ==
  ASSUME NEW s \in Seq(Nodes), NEW first, NEW last, NEW nx, NEW pv, NEW nx2, NEW pv2,
         Linked(s, first, last, nx, pv),
         \A i \in 1 .. Len(s) : nx2[s[i]] = nx[s[i]] /\ pv2[s[i]] = pv[s[i]]
  PROVE  Linked(s, first, last, nx2, pv2)
  BY DEF Linked

LEMMA LinkedEmpty ==
  ASSUME NEW nx, NEW pv PROVE Linked(<<>>, None, None, nx, pv)
  BY DEF Linked, Entry

\* A new node between two neighbours.
LEMMA LinkedInsert ==
  ASSUME NEW s \in Seq(Nodes), NEW first, NEW last,
         NEW nx \in [Nodes -> Nodes \cup {None}], NEW pv \in [Nodes -> Nodes \cup {None}],
         Linked(s, first, last, nx, pv),
         NEW n \in Nodes, \A j \in 1 .. Len(s) : s[j] # n,
         NEW i \in 0 .. Len(s), NEW nx2, NEW pv2,
         nx2 = [m \in Nodes |-> IF m = n THEN Entry(s, i + 1) ELSE IF m = Entry(s, i) THEN n ELSE nx[m]],
         pv2 = [m \in Nodes |-> IF m = n THEN Entry(s, i) ELSE IF m = Entry(s, i + 1) THEN n ELSE pv[m]]
  PROVE  Linked(InsertAt(s, i + 1, n),
                IF Entry(s, i) = None THEN n ELSE first, IF Entry(s, i + 1) = None THEN n ELSE last,
                nx2, pv2)
<1> DEFINE t == InsertAt(s, i + 1, n)
           k == Len(s)
<1>0. k \in Nat /\ i \in 0 .. k /\ i + 1 \in 1 .. k + 1 /\ (i + 1) - 1 = i /\ (i + 1) + 1 = i + 2
  BY LenProperties
<1>1. /\ t \in Seq(Nodes) /\ Len(t) = k + 1
      /\ \A j \in 1 .. i : t[j] = s[j]
      /\ t[i + 1] = n
      /\ \A j \in i + 2 .. k + 1 : t[j] = s[j - 1]
  <2>1. IsInserted(InsertAt(s, i + 1, n), Nodes, s, i, n)
    BY InsertAtIs
  <2> QED BY <2>1 DEF IsInserted
<1>2. None \notin Nodes /\ \A j \in 1 .. k : s[j] \in Nodes /\ s[j] # None
  BY OrderedNodesAssumption, ElementOfSeq
<1>3. /\ \A j, l \in 1 .. k : s[j] = s[l] => j = l
      /\ \A j \in 1 .. k : nx[s[j]] = Entry(s, j + 1) /\ pv[s[j]] = Entry(s, j - 1)
      /\ first = Entry(s, 1) /\ last = Entry(s, k)
  BY DEF Linked
<1>4. \A j \in 1 .. k : s[j] # n
  OBVIOUS
<1> HIDE DEF t, k
<1>5. /\ \A j \in 0 .. i : Entry(t, j) = Entry(s, j)
      /\ Entry(t, i + 1) = n
      /\ \A j \in i + 2 .. k + 2 : Entry(t, j) = Entry(s, j - 1)
  <2>1. \A j \in Int : /\ Entry(t, j) = IF j \in 1 .. k + 1 THEN t[j] ELSE None
                       /\ Entry(s, j) = IF j \in 1 .. k THEN s[j] ELSE None
    BY <1>1 DEF Entry, k
  <2>2. ASSUME NEW j \in 0 .. i PROVE Entry(t, j) = Entry(s, j)
    BY <1>0, <1>1, <2>1
  <2>3. Entry(t, i + 1) = n
    BY <1>0, <1>1, <2>1
  <2>4. ASSUME NEW j \in i + 2 .. k + 2 PROVE Entry(t, j) = Entry(s, j - 1)
    <3>1. j - 1 \in Int /\ j \in Int /\ (j \in 1 .. k + 1 <=> j - 1 \in 1 .. k)
      BY <1>0
    <3>2. Entry(t, j) = IF j \in 1 .. k + 1 THEN t[j] ELSE None
      BY <2>1, <3>1
    <3>3. Entry(s, j - 1) = IF j - 1 \in 1 .. k THEN s[j - 1] ELSE None
      BY <2>1, <3>1
    <3>4. j \in 1 .. k + 1 => t[j] = s[j - 1]
      BY <1>0, <1>1
    <3> QED BY <3>1, <3>2, <3>3, <3>4
  <2> QED BY <2>2, <2>3, <2>4
<1>6. \A j, l \in 1 .. k + 1 : t[j] = t[l] => j = l
  <2> SUFFICES ASSUME NEW j \in 1 .. k + 1, NEW l \in 1 .. k + 1, t[j] = t[l] PROVE j = l
    OBVIOUS
  <2>1. CASE j <= i
    <3>1. t[j] = s[j] /\ j \in 1 .. k
      BY <1>0, <1>1, <2>1
    <3>2. CASE l <= i
      <4>1. t[l] = s[l] /\ l \in 1 .. k
        BY <1>0, <1>1, <3>2
      <4> QED BY <1>3, <3>1, <4>1
    <3>3. CASE l = i + 1
      BY <1>1, <1>4, <3>1, <3>3
    <3>4. CASE l > i + 1
      <4>1. t[l] = s[l - 1] /\ l - 1 \in 1 .. k /\ l - 1 # j
        BY <1>0, <1>1, <2>1, <3>4
      <4> QED BY <1>3, <3>1, <4>1
    <3> QED BY <1>0, <3>2, <3>3, <3>4
  <2>2. CASE j = i + 1
    <3>1. CASE l <= i
      BY <1>0, <1>1, <1>4, <2>2, <3>1
    <3>2. CASE l > i + 1
      <4>1. t[l] = s[l - 1] /\ l - 1 \in 1 .. k
        BY <1>0, <1>1, <3>2
      <4> QED BY <1>1, <1>4, <2>2, <4>1
    <3> QED BY <1>0, <2>2, <3>1, <3>2
  <2>3. CASE j > i + 1
    <3>1. t[j] = s[j - 1] /\ j - 1 \in 1 .. k
      BY <1>0, <1>1, <2>3
    <3>2. CASE l <= i
      <4>1. t[l] = s[l] /\ l \in 1 .. k /\ j - 1 # l
        BY <1>0, <1>1, <2>3, <3>2
      <4> QED BY <1>3, <3>1, <4>1
    <3>3. CASE l = i + 1
      BY <1>1, <1>4, <3>1, <3>3
    <3>4. CASE l > i + 1
      <4>1. t[l] = s[l - 1] /\ l - 1 \in 1 .. k
        BY <1>0, <1>1, <3>4
      <4>2. j - 1 = l - 1
        BY <1>3, <3>1, <4>1
      <4> QED BY <1>0, <4>2
    <3> QED BY <1>0, <3>2, <3>3, <3>4
  <2> QED BY <1>0, <2>1, <2>2, <2>3
<1>7. /\ Entry(s, i) = IF i = 0 THEN None ELSE s[i]
      /\ Entry(s, i + 1) = IF i = k THEN None ELSE s[i + 1]
  BY <1>0 DEF Entry, k
<1>8. ASSUME NEW j \in 1 .. k + 1
      PROVE  nx2[t[j]] = Entry(t, j + 1) /\ pv2[t[j]] = Entry(t, j - 1)
  <2>1. CASE j <= i
    <3>1. t[j] = s[j] /\ j \in 1 .. k /\ j \in 0 .. i /\ j - 1 \in 0 .. i
      BY <1>0, <1>1, <2>1
    <3>2. s[j] \in Nodes /\ s[j] # n /\ s[j] # None
      BY <1>2, <1>4, <3>1
    <3>3. s[j] # Entry(s, i + 1)
      BY <1>0, <1>2, <1>3, <1>7, <2>1, <3>1
    <3>4. pv2[t[j]] = Entry(s, j - 1)
      BY <1>3, <3>1, <3>2, <3>3
    <3>5. CASE j = i
      <4>1. s[j] = Entry(s, i)
        BY <1>0, <1>7, <3>1, <3>5
      <4>2. nx2[t[j]] = n
        BY <3>1, <3>2, <4>1
      <4> QED BY <1>5, <3>1, <3>4, <3>5, <4>2
    <3>6. CASE j # i
      <4>1. s[j] # Entry(s, i)
        BY <1>0, <1>3, <1>7, <3>1, <3>2, <3>6
      <4>2. nx2[t[j]] = Entry(s, j + 1)
        BY <1>3, <3>1, <3>2, <4>1
      <4>3. j + 1 \in 0 .. i
        BY <1>0, <2>1, <3>6
      <4> QED BY <1>5, <3>1, <3>4, <4>2, <4>3
    <3> QED BY <3>5, <3>6
  <2>2. CASE j = i + 1
    <3>1. nx2[n] = Entry(s, i + 1) /\ pv2[n] = Entry(s, i)
      OBVIOUS
    <3>2. /\ j + 1 \in i + 2 .. k + 2 /\ (j + 1) - 1 = i + 1
          /\ j - 1 = i /\ i \in 0 .. i
      BY <1>0, <2>2
    <3> QED BY <1>1, <1>5, <2>2, <3>1, <3>2
  <2>3. CASE j > i + 1
    <3>1. t[j] = s[j - 1] /\ j - 1 \in 1 .. k /\ j - 1 > i
      BY <1>0, <1>1, <2>3
    <3>2. s[j - 1] \in Nodes /\ s[j - 1] # n /\ s[j - 1] # None
      BY <1>2, <1>4, <3>1
    <3>3. s[j - 1] # Entry(s, i)
      BY <1>0, <1>3, <1>7, <3>1, <3>2
    <3>4. nx2[t[j]] = Entry(s, (j - 1) + 1)
      BY <1>3, <3>1, <3>2, <3>3
    <3>5. j + 1 \in i + 2 .. k + 2 /\ (j + 1) - 1 = (j - 1) + 1
      BY <1>0, <2>3
    <3>6. nx2[t[j]] = Entry(t, j + 1)
      BY <1>5, <3>4, <3>5
    <3>7. CASE j = i + 2
      <4>1. s[j - 1] = Entry(s, i + 1) /\ j - 1 = i + 1
        BY <1>0, <1>7, <3>1, <3>7
      <4>2. pv2[t[j]] = n
        BY <3>1, <3>2, <4>1
      <4> QED BY <1>5, <3>6, <4>1, <4>2
    <3>8. CASE j # i + 2
      <4>1. s[j - 1] # Entry(s, i + 1)
        BY <1>0, <1>3, <1>7, <2>3, <3>1, <3>2, <3>8
      <4>2. pv2[t[j]] = Entry(s, (j - 1) - 1)
        BY <1>3, <3>1, <3>2, <4>1
      <4>3. j - 1 \in i + 2 .. k + 2
        BY <1>0, <2>3, <3>8
      <4> QED BY <1>5, <3>6, <4>2, <4>3
    <3> QED BY <3>7, <3>8
  <2> QED BY <1>0, <2>1, <2>2, <2>3
<1>9. (IF Entry(s, i) = None THEN n ELSE first) = Entry(t, 1)
  <2>1. CASE i = 0
    BY <1>5, <1>7, <2>1
  <2>2. CASE i # 0
    <3>1. Entry(s, i) # None /\ 1 \in 0 .. i
      BY <1>0, <1>2, <1>7, <2>2
    <3> QED BY <1>3, <1>5, <3>1
  <2> QED BY <2>1, <2>2
<1>10. (IF Entry(s, i + 1) = None THEN n ELSE last) = Entry(t, k + 1)
  <2>1. CASE i = k
    BY <1>5, <1>7, <2>1
  <2>2. CASE i # k
    <3>1. Entry(s, i + 1) # None /\ k + 1 \in i + 2 .. k + 2 /\ (k + 1) - 1 = k
      BY <1>0, <1>2, <1>7, <2>2
    <3> QED BY <1>3, <1>5, <3>1
  <2> QED BY <2>1, <2>2
<1> QED
  BY <1>1, <1>6, <1>8, <1>9, <1>10 DEF Linked, t

\* Nodes i to j of a list are cut out.
LEMMA LinkedCut ==
  ASSUME NEW s \in Seq(Nodes), NEW first, NEW last,
         NEW nx \in [Nodes -> Nodes \cup {None}], NEW pv \in [Nodes -> Nodes \cup {None}],
         Linked(s, first, last, nx, pv),
         NEW i \in 1 .. Len(s), NEW j \in i .. Len(s),
         NEW before, NEW after, before = Entry(s, i - 1), after = Entry(s, j + 1),
         NEW nx2, NEW pv2,
         \A m \in Nodes : nx2[m] = IF m = before THEN after ELSE nx[m],
         \A m \in Nodes : pv2[m] = IF m = after THEN before ELSE pv[m]
  PROVE  Linked(Without(s, i - 1, j),
                IF before = None THEN after ELSE first, IF after = None THEN before ELSE last,
                nx2, pv2)
<1> DEFINE w == Without(s, i - 1, j)
           k == Len(s)
           h == i - 1
           d == j - h
<1>0. /\ k \in Nat /\ h \in 0 .. k /\ d \in 1 .. k /\ h + d = j /\ j \in 1 .. k /\ i = h + 1
      /\ h <= j /\ h < j
  BY LenProperties
<1>1. /\ w \in Seq(Nodes) /\ Len(w) = k - d
      /\ \A l \in 1 .. h : w[l] = s[l]
      /\ \A l \in h + 1 .. k - d : w[l] = s[l + d]
  <2>1. h \in Nat /\ j \in Nat /\ h <= j /\ j <= Len(s)
    BY <1>0
  <2>2. IsWithout(Without(s, h, j), Nodes, s, h, j)
    <3> HIDE DEF h
    <3> QED BY ONLY s \in Seq(Nodes), <2>1, WithoutIs
  <2> QED BY <2>2 DEF IsWithout
<1>2. None \notin Nodes /\ \A l \in 1 .. k : s[l] \in Nodes /\ s[l] # None
  BY OrderedNodesAssumption, ElementOfSeq
<1>3. /\ \A l, m \in 1 .. k : s[l] = s[m] => l = m
      /\ \A l \in 1 .. k : nx[s[l]] = Entry(s, l + 1) /\ pv[s[l]] = Entry(s, l - 1)
      /\ first = Entry(s, 1) /\ last = Entry(s, k)
  BY DEF Linked
<1>4. /\ before = IF h = 0 THEN None ELSE s[h]
      /\ after = IF j = k THEN None ELSE s[j + 1]
  BY <1>0 DEF Entry, k, h
<1> HIDE DEF w, k, h, d
<1>5. \A l \in Int : /\ Entry(w, l) = IF l \in 1 .. k - d THEN w[l] ELSE None
                     /\ Entry(s, l) = IF l \in 1 .. k THEN s[l] ELSE None
  BY <1>1 DEF Entry, k
<1>6. ASSUME NEW l \in 0 .. h PROVE Entry(w, l) = Entry(s, l)
  <2>1. l \in Int /\ (l \in 1 .. k - d <=> l # 0) /\ (l \in 1 .. k <=> l # 0) /\ (l # 0 => l \in 1 .. h)
    BY <1>0
  <2> QED BY <1>1, <1>5, <2>1
<1>7. ASSUME NEW l \in h + 1 .. (k - d) + 1 PROVE Entry(w, l) = Entry(s, l + d)
  <2>1. /\ l \in Int /\ l + d \in Int
        /\ (l \in 1 .. k - d <=> l + d \in 1 .. k)
        /\ (l \in 1 .. k - d => l \in h + 1 .. k - d)
    BY <1>0
  <2>2. Entry(w, l) = IF l \in 1 .. k - d THEN w[l] ELSE None
    BY <1>5, <2>1
  <2>3. Entry(s, l + d) = IF l + d \in 1 .. k THEN s[l + d] ELSE None
    BY <1>5, <2>1
  <2> QED BY <1>1, <2>1, <2>2, <2>3
<1>8. \A l, m \in 1 .. k - d : w[l] = w[m] => l = m
  <2> SUFFICES ASSUME NEW l \in 1 .. k - d, NEW m \in 1 .. k - d, w[l] = w[m] PROVE l = m
    OBVIOUS
  <2>1. \/ l <= h /\ w[l] = s[l] /\ l \in 1 .. k
        \/ l > h /\ w[l] = s[l + d] /\ l + d \in 1 .. k
    BY <1>0, <1>1
  <2>2. \/ m <= h /\ w[m] = s[m] /\ m \in 1 .. k
        \/ m > h /\ w[m] = s[m + d] /\ m + d \in 1 .. k
    BY <1>0, <1>1
  <2>3. CASE l <= h /\ m <= h
    BY <1>0, <1>3, <2>1, <2>2, <2>3
  <2>4. CASE l <= h /\ m > h
    <3>1. l = m + d
      BY <1>0, <1>3, <2>1, <2>2, <2>4
    <3> QED BY <1>0, <2>4, <3>1
  <2>5. CASE l > h /\ m <= h
    <3>1. l + d = m
      BY <1>0, <1>3, <2>1, <2>2, <2>5
    <3> QED BY <1>0, <2>5, <3>1
  <2>6. CASE l > h /\ m > h
    <3>1. l + d = m + d
      BY <1>0, <1>3, <2>1, <2>2, <2>6
    <3> QED BY <1>0, <3>1
  <2> QED BY <1>0, <2>3, <2>4, <2>5, <2>6
<1>9. \A l \in 1 .. k : /\ l # h => s[l] # before
                        /\ l # j + 1 => s[l] # after
  <2> SUFFICES ASSUME NEW l \in 1 .. k
               PROVE  (l # h => s[l] # before) /\ (l # j + 1 => s[l] # after)
    OBVIOUS
  <2>1. (h # 0 => h \in 1 .. k) /\ (j # k => j + 1 \in 1 .. k)
    BY <1>0
  <2>2. \A m \in 1 .. k : s[l] = s[m] => l = m
    BY <1>3
  <2>3. s[l] # None
    BY <1>2
  <2>4. l # h => s[l] # before
    BY <1>4, <2>1, <2>2, <2>3
  <2>5. l # j + 1 => s[l] # after
    BY <1>4, <2>1, <2>2, <2>3
  <2> QED BY <2>4, <2>5
<1>10. \A m \in Nodes : /\ m # before => nx2[m] = nx[m]
                        /\ m # after => pv2[m] = pv[m]
  OBVIOUS
<1>11. ASSUME NEW l \in 1 .. k - d
       PROVE  nx2[w[l]] = Entry(w, l + 1) /\ pv2[w[l]] = Entry(w, l - 1)
  <2>1. CASE l <= h
    <3>1. w[l] = s[l] /\ l \in 1 .. k /\ l - 1 \in 0 .. h /\ s[l] \in Nodes
      BY <1>0, <1>1, <1>2, <2>1
    <3>2. s[l] # after
      BY <1>0, <1>9, <2>1, <3>1
    <3>3. pv2[w[l]] = Entry(w, l - 1)
      BY <1>3, <1>6, <1>10, <3>1, <3>2
    <3>4. CASE l = h
      <4>1. s[l] = before /\ before # None
        BY <1>0, <1>2, <1>4, <3>1, <3>4
      <4>2. nx2[w[l]] = after
        BY <3>1, <4>1
      <4>3. l + 1 \in h + 1 .. (k - d) + 1 /\ (l + 1) + d = j + 1
        BY <1>0, <3>4
      <4>4. Entry(w, l + 1) = Entry(s, j + 1)
        BY <1>7, <4>3
      <4> QED BY <3>3, <4>2, <4>4
    <3>5. CASE l # h
      <4>1. s[l] # before /\ l + 1 \in 0 .. h
        BY <1>0, <1>9, <2>1, <3>1, <3>5
      <4>2. nx2[w[l]] = Entry(s, l + 1)
        BY <1>3, <1>10, <3>1, <4>1
      <4> QED BY <1>6, <3>3, <4>1, <4>2
    <3> QED BY <3>4, <3>5
  <2>2. CASE l > h
    <3>1. /\ w[l] = s[l + d] /\ l + d \in 1 .. k /\ s[l + d] \in Nodes
          /\ l + 1 \in h + 1 .. (k - d) + 1 /\ (l + 1) + d = (l + d) + 1
      <4>1. /\ l \in h + 1 .. k - d /\ l + d \in 1 .. k
            /\ l + 1 \in h + 1 .. (k - d) + 1 /\ (l + 1) + d = (l + d) + 1
        BY <1>0, <2>2
      <4> QED BY <1>1, <1>2, <4>1
    <3>2. s[l + d] # before
      <4>1. l + d # h
        BY <1>0, <2>2
      <4> QED BY <1>9, <3>1, <4>1
    <3>3. nx2[w[l]] = Entry(s, (l + d) + 1)
      BY <1>3, <1>10, <3>1, <3>2
    <3>4. nx2[w[l]] = Entry(w, l + 1)
      BY <1>7, <3>1, <3>3
    <3>5. CASE l = h + 1
      <4>1. l + d = j + 1 /\ l - 1 = h /\ h \in 0 .. h
        BY <1>0, <3>5
      <4>2. s[l + d] = after /\ after # None
        BY <1>0, <1>2, <1>4, <3>1, <4>1
      <4>3. pv2[w[l]] = before
        BY <3>1, <4>2
      <4>4. Entry(w, l - 1) = Entry(s, h)
        BY <1>6, <4>1
      <4> QED BY <3>4, <4>3, <4>4 DEF h
    <3>6. CASE l # h + 1
      <4>1. l + d # j + 1 /\ l - 1 \in h + 1 .. (k - d) + 1 /\ (l - 1) + d = (l + d) - 1
        BY ONLY <1>0, <2>2, <3>6, l \in 1 .. k - d
      <4>2. s[l + d] # after
        BY <1>9, <3>1, <4>1
      <4>3. pv2[w[l]] = Entry(s, (l + d) - 1)
        BY <1>3, <1>10, <3>1, <4>2
      <4>4. Entry(w, l - 1) = Entry(s, (l - 1) + d)
        BY <1>7, <4>1
      <4> QED BY <3>4, <4>1, <4>3, <4>4
    <3> QED BY <3>5, <3>6
  <2> QED BY <1>0, <2>1, <2>2
<1>12. (IF before = None THEN after ELSE first) = Entry(w, 1)
  <2>1. CASE h = 0
    <3>1. 1 \in h + 1 .. (k - d) + 1 /\ 1 + d = j + 1
      BY <1>0, <2>1
    <3>2. Entry(w, 1) = Entry(s, j + 1)
      BY <1>7, <3>1
    <3> QED BY <1>4, <2>1, <3>2
  <2>2. CASE h # 0
    <3>1. before # None /\ 1 \in 0 .. h
      BY <1>0, <1>2, <1>4, <2>2
    <3> QED BY <1>3, <1>6, <3>1
  <2> QED BY <2>1, <2>2
<1>13. (IF after = None THEN before ELSE last) = Entry(w, k - d)
  <2>1. CASE j = k
    <3>1. k - d = h /\ h \in 0 .. h
      BY <1>0, <2>1
    <3>2. Entry(w, k - d) = Entry(s, h)
      BY <1>6, <3>1
    <3> QED BY <1>4, <2>1, <3>2 DEF h
  <2>2. CASE j # k
    <3>1. after # None /\ k - d \in h + 1 .. (k - d) + 1 /\ (k - d) + d = k
      <4>1. j + 1 \in 1 .. k /\ k - d \in h + 1 .. (k - d) + 1 /\ (k - d) + d = k
        BY <1>0, <2>2
      <4> QED BY <1>2, <1>4, <4>1
    <3>2. Entry(w, k - d) = Entry(s, k)
      BY <1>7, <3>1
    <3> QED BY <1>3, <3>1, <3>2
  <2> QED BY <2>1, <2>2
<1> QED
  BY <1>1, <1>8, <1>11, <1>12, <1>13 DEF Linked, w

\* Walking along a list meets its nodes, from the end too.
LEMMA LinkedWalksBack ==
  ASSUME NEW s \in Seq(Nodes), NEW first, NEW last,
         NEW nx \in [Nodes -> Nodes \cup {None}], NEW pv \in [Nodes -> Nodes \cup {None}],
         Linked(s, first, last, nx, pv)
  PROVE  Walk(pv, last, None, None) = Reverse(s)
<1> DEFINE k == Len(s)
<1>0. k \in Nat
  BY LenProperties
<1>1. IsFiniteSet(Nodes) /\ DOMAIN nx = Nodes /\ DOMAIN pv = Nodes
  BY OrderedNodesAssumption
<1>2. None \notin Nodes /\ \A l \in 1 .. k : s[l] \in Nodes /\ s[l] # None
  BY OrderedNodesAssumption, ElementOfSeq
<1>3. /\ \A l, m \in 1 .. k : s[l] = s[m] => l = m
      /\ \A l \in 1 .. k : nx[s[l]] = Entry(s, l + 1) /\ pv[s[l]] = Entry(s, l - 1)
      /\ first = Entry(s, 1) /\ last = Entry(s, k)
  BY DEF Linked
<1>4. \A l \in Int : Entry(s, l) = IF l \in 1 .. k THEN s[l] ELSE None
  BY DEF Entry
<1>6. Walk(pv, last, None, None) = Reverse(s)
  <2> DEFINE r == Reverse(s)
  <2>1. r \in Seq(Nodes) /\ Len(r) = k /\ \A l \in 1 .. k : r[l] = s[(k - l) + 1]
    <3>1. r = [l \in 1 .. k |-> s[(k - l) + 1]]
      BY DEF Reverse
    <3>2. \A l \in 1 .. k : s[(k - l) + 1] \in Nodes
      BY <1>0, <1>2
    <3> HIDE DEF r, k
    <3> QED BY <1>0, <3>1, <3>2
  <2> HIDE DEF r, k
  <2>2. \A l, m \in 1 .. Len(r) : r[l] = r[m] => l = m
    <3> SUFFICES ASSUME NEW l \in 1 .. k, NEW m \in 1 .. k, r[l] = r[m] PROVE l = m
      BY <2>1
    <3>1. (k - l) + 1 \in 1 .. k /\ (k - m) + 1 \in 1 .. k
      BY <1>0
    <3>2. (k - l) + 1 = (k - m) + 1
      <4> DEFINE x == (k - l) + 1
                 y == (k - m) + 1
      <4>1. s[x] = s[y]
        BY <2>1
      <4>2. x \in 1 .. k /\ y \in 1 .. k
        BY <3>1
      <4> HIDE DEF x, y
      <4>3. x = y
        BY <1>3, <4>1, <4>2
      <4> QED BY <4>3 DEF x, y
    <3> QED BY <1>0, <3>2
  <2>3. \A l \in 1 .. Len(r) : r[l] \notin {None, None}
    <3> SUFFICES ASSUME NEW l \in 1 .. k PROVE r[l] # None
      BY <2>1
    <3>1. (k - l) + 1 \in 1 .. k
      BY <1>0
    <3> QED BY <1>2, <2>1, <3>1
  <2>4. last = (IF Len(r) = 0 THEN last ELSE r[1]) /\ (Len(r) = 0 => last \in {None, None})
    <3>1. k # 0 => k \in 1 .. k /\ 1 \in 1 .. k /\ (k - 1) + 1 = k
      BY <1>0
    <3>2. k \in Int /\ last = Entry(s, k)
      BY <1>0, <1>3
    <3>3. k = 0 => k \notin 1 .. k
      OBVIOUS
    <3> QED BY <1>4, <2>1, <3>1, <3>2, <3>3
  <2>5. ASSUME NEW l \in 1 .. Len(r) - 1 PROVE pv[r[l]] = r[l + 1]
    <3>1. /\ l \in 1 .. k /\ l + 1 \in 1 .. k /\ (k - l) + 1 \in 1 .. k
          /\ ((k - l) + 1) - 1 = (k - (l + 1)) + 1 /\ (k - (l + 1)) + 1 \in 1 .. k
      BY <1>0, <2>1
    <3>2. r[l] = s[(k - l) + 1] /\ r[l + 1] = s[(k - (l + 1)) + 1]
      BY <2>1, <3>1
    <3>3. pv[s[(k - l) + 1]] = Entry(s, ((k - l) + 1) - 1)
      BY <1>3, <3>1
    <3>4. Entry(s, (k - (l + 1)) + 1) = s[(k - (l + 1)) + 1]
      BY <1>4, <3>1
    <3> QED BY <3>1, <3>2, <3>3, <3>4
  <2>6. Len(r) > 0 => pv[r[Len(r)]] \in {None, None}
    <3> SUFFICES ASSUME k > 0 PROVE pv[r[k]] = None
      BY <2>1
    <3>1. k \in 1 .. k /\ (k - k) + 1 = 1 /\ 1 \in 1 .. k /\ 0 \notin 1 .. k /\ 1 - 1 = 0
      BY <1>0
    <3>2. r[k] = s[1] /\ pv[s[1]] = Entry(s, 0)
      BY <1>3, <2>1, <3>1
    <3> QED BY <1>4, <3>1, <3>2
  <2>7. \A l \in 1 .. Len(r) - 1 : pv[r[l]] = r[l + 1]
    BY <2>5
  <2>8. Walk(pv, last, None, None) = r
    <3>1. IsPath(r, pv, last, None, None)
      BY <2>2, <2>3, <2>4, <2>6, <2>7 DEF IsPath
    <3> QED BY <1>1, <2>1, <3>1, WalkIs
  <2> QED BY <2>8 DEF r
<1> QED
  BY <1>6

\* So does walking along a part of it.
LEMMA LinkedWalks ==
  ASSUME NEW s \in Seq(Nodes), NEW first, NEW last,
         NEW nx \in [Nodes -> Nodes \cup {None}], NEW pv \in [Nodes -> Nodes \cup {None}],
         Linked(s, first, last, nx, pv)
  PROVE  Walk(nx, first, None, None) = s
<1> DEFINE k == Len(s)
<1>0. k \in Nat
  BY LenProperties
<1>1. IsFiniteSet(Nodes) /\ DOMAIN nx = Nodes /\ DOMAIN pv = Nodes
  BY OrderedNodesAssumption
<1>2. None \notin Nodes /\ \A l \in 1 .. k : s[l] \in Nodes /\ s[l] # None
  BY OrderedNodesAssumption, ElementOfSeq
<1>3. /\ \A l, m \in 1 .. k : s[l] = s[m] => l = m
      /\ \A l \in 1 .. k : nx[s[l]] = Entry(s, l + 1) /\ pv[s[l]] = Entry(s, l - 1)
      /\ first = Entry(s, 1) /\ last = Entry(s, k)
  BY DEF Linked
<1>4. \A l \in Int : Entry(s, l) = IF l \in 1 .. k THEN s[l] ELSE None
  BY DEF Entry
<1>5. \A l \in 1 .. Len(s) : s[l] \notin {None, None}
  BY <1>2
<1>6. /\ first = IF Len(s) = 0 THEN first ELSE s[1]
      /\ Len(s) = 0 => first \in {None, None}
  BY <1>0, <1>3, <1>4
<1>7. ASSUME NEW l \in 1 .. Len(s) - 1 PROVE nx[s[l]] = s[l + 1]
  <2>1. l \in 1 .. k /\ l + 1 \in 1 .. k
    BY <1>0
  <2>2. nx[s[l]] = Entry(s, l + 1)
    BY <1>3, <2>1
  <2> QED BY <1>4, <2>1, <2>2
<1>8. Len(s) > 0 => nx[s[Len(s)]] \in {None, None}
  <2> SUFFICES ASSUME k > 0 PROVE nx[s[k]] = None
    OBVIOUS
  <2>1. k \in 1 .. k /\ k + 1 \notin 1 .. k
    BY <1>0
  <2>2. nx[s[k]] = Entry(s, k + 1)
    BY <1>3, <2>1
  <2> QED BY <1>0, <1>4, <2>1, <2>2
<1>9. IsPath(s, nx, first, None, None)
  BY <1>3, <1>5, <1>6, <1>7, <1>8 DEF IsPath
<1> QED BY <1>1, <1>9, WalkIs

\* And so is each part of it.
LEMMA LinkedWalksPart ==
  ASSUME NEW s \in Seq(Nodes), NEW first, NEW last,
         NEW nx \in [Nodes -> Nodes \cup {None}], NEW pv \in [Nodes -> Nodes \cup {None}],
         Linked(s, first, last, nx, pv),
         NEW i \in 1 .. Len(s), NEW j \in i .. Len(s), NEW to, to = Entry(s, j + 1)
  PROVE  Walk(nx, s[i], to, None) = SubSeq(s, i, j)
<1> DEFINE k == Len(s)
<1>0. k \in Nat /\ i \in 1 .. k /\ j \in i .. k
  BY LenProperties
<1>1. IsFiniteSet(Nodes) /\ DOMAIN nx = Nodes /\ DOMAIN pv = Nodes
  BY OrderedNodesAssumption
<1>2. None \notin Nodes /\ \A l \in 1 .. k : s[l] \in Nodes /\ s[l] # None
  BY OrderedNodesAssumption, ElementOfSeq
<1>3. /\ \A l, m \in 1 .. k : s[l] = s[m] => l = m
      /\ \A l \in 1 .. k : nx[s[l]] = Entry(s, l + 1) /\ pv[s[l]] = Entry(s, l - 1)
      /\ first = Entry(s, 1) /\ last = Entry(s, k)
  BY DEF Linked
<1>4. \A l \in Int : Entry(s, l) = IF l \in 1 .. k THEN s[l] ELSE None
  BY DEF Entry
<1> DEFINE r == SubSeq(s, i, j)
           n == j - i + 1
           from == s[i]
<1>5. /\ r \in Seq(Nodes) /\ Len(r) = n /\ \A l \in 1 .. n : r[l] = s[l + i - 1]
      /\ n \in 1 .. k /\ n > 0 /\ n + i - 1 = j
  BY <1>0, <1>2
<1>6. \A l \in 1 .. n : l + i - 1 \in 1 .. k /\ l + i - 1 <= j
  BY <1>0
<1>7. to = IF j + 1 \in 1 .. k THEN s[j + 1] ELSE None
  BY <1>0, <1>4
<1> HIDE DEF r, k
<1>8. \A l, m \in 1 .. Len(r) : r[l] = r[m] => l = m
  <2> SUFFICES ASSUME NEW l \in 1 .. n, NEW m \in 1 .. n, r[l] = r[m] PROVE l = m
    BY <1>5
  <2>1. l + i - 1 = m + i - 1
    <3> DEFINE x == l + i - 1
               y == m + i - 1
    <3>1. s[x] = s[y]
      BY <1>5
    <3>2. x \in 1 .. k /\ y \in 1 .. k
      BY <1>6
    <3> HIDE DEF x, y
    <3>3. x = y
      BY <1>3, <3>1, <3>2
    <3> QED BY <3>3 DEF x, y
  <2> QED BY <2>1
<1>9. \A l \in 1 .. Len(r) : r[l] \notin {to, None}
  <2> SUFFICES ASSUME NEW l \in 1 .. n PROVE r[l] \notin {to, None}
    BY <1>5
  <2>1. r[l] = s[l + i - 1] /\ l + i - 1 \in 1 .. k /\ l + i - 1 # j + 1
    BY <1>0, <1>5, <1>6
  <2> QED BY <1>2, <1>3, <1>7, <2>1
<1>10. from = (IF Len(r) = 0 THEN from ELSE r[1]) /\ (Len(r) = 0 => from \in {to, None})
  <2>1. 1 \in 1 .. n /\ 1 + i - 1 = i /\ n # 0
    BY <1>5
  <2> QED BY <1>5, <2>1
<1>11. ASSUME NEW l \in 1 .. Len(r) - 1 PROVE nx[r[l]] = r[l + 1]
  <2>1. /\ l \in 1 .. n /\ l + 1 \in 1 .. n /\ l + i - 1 \in 1 .. k /\ l + 1 + i - 1 \in 1 .. k
        /\ (l + i - 1) + 1 = l + 1 + i - 1
    <3>1. l \in 1 .. n /\ l + 1 \in 1 .. n
      BY <1>5
    <3> HIDE DEF n
    <3>2. l + i - 1 \in 1 .. k /\ (l + 1) + i - 1 \in 1 .. k
      BY <1>6, <3>1
    <3>3. (l + 1) + i - 1 = l + 1 + i - 1 /\ (l + i - 1) + 1 = l + 1 + i - 1
      BY <3>1
    <3> QED BY <3>1, <3>2, <3>3
  <2>2. r[l] = s[l + i - 1] /\ r[l + 1] = s[l + 1 + i - 1]
    BY <1>5, <2>1
  <2>3. nx[s[l + i - 1]] = Entry(s, (l + i - 1) + 1)
    BY <1>3, <2>1
  <2>4. Entry(s, l + 1 + i - 1) = s[l + 1 + i - 1]
    BY <1>4, <2>1
  <2> QED BY <2>1, <2>2, <2>3, <2>4
<1>12. Len(r) > 0 => nx[r[Len(r)]] \in {to, None}
  <2>1. n \in 1 .. n /\ j \in 1 .. k
    BY <1>0, <1>5
  <2>2. r[n] = s[j]
    BY <1>5, <2>1
  <2>3. nx[s[j]] = Entry(s, j + 1)
    BY <1>3, <2>1
  <2> QED BY <1>5, <2>2, <2>3
<1>13. Walk(nx, from, to, None) = r
  <2> HIDE DEF from, n
  <2>1. \A l \in 1 .. Len(r) - 1 : nx[r[l]] = r[l + 1]
    BY <1>11
  <2>2. IsPath(r, nx, from, to, None)
    BY <1>8, <1>9, <1>10, <1>12, <2>1 DEF IsPath
  <2> QED BY <1>1, <1>5, <2>2, WalkIs
<1> QED BY <1>13 DEF r

LEMMA ToSetInsert ==
  ASSUME NEW s \in Seq(Nodes), NEW h \in 0 .. Len(s), NEW e \in Nodes
  PROVE  ToSet(InsertAt(s, h + 1, e)) = ToSet(s) \cup {e}
<1> DEFINE i == h + 1
           t == InsertAt(s, i, e)
           k == Len(s)
<1>0. k \in Nat /\ i \in 1 .. k + 1 /\ i - 1 = h /\ i + 1 = h + 2
  BY LenProperties
<1>1. /\ t \in Seq(Nodes) /\ Len(t) = k + 1
      /\ \A j \in 1 .. i - 1 : t[j] = s[j]
      /\ t[i] = e
      /\ \A j \in i + 1 .. k + 1 : t[j] = s[j - 1]
  <2>1. IsInserted(InsertAt(s, h + 1, e), Nodes, s, h, e)
    BY InsertAtIs
  <2> QED BY <1>0, <2>1 DEF IsInserted
<1> HIDE DEF t, i
<1>2. ToSet(t) = {t[j] : j \in 1 .. k + 1} /\ ToSet(s) = {s[j] : j \in 1 .. k}
  BY <1>1, ToSetIs
<1> HIDE DEF k
<1>3. ASSUME NEW j \in 1 .. k + 1 PROVE t[j] \in ToSet(s) \cup {e}
  <2>1. CASE j < i
    BY <1>0, <1>1, <1>2, <2>1
  <2>2. CASE j = i
    BY <1>1, <2>2
  <2>3. CASE j > i
    <3>1. t[j] = s[j - 1] /\ j - 1 \in 1 .. k
      BY <1>0, <1>1, <2>3
    <3> QED BY <1>2, <3>1
  <2> QED BY <1>0, <2>1, <2>2, <2>3
<1>4. ASSUME NEW j \in 1 .. k PROVE s[j] \in ToSet(t)
  <2>1. CASE j < i
    <3>1. t[j] = s[j] /\ j \in 1 .. k + 1
      BY <1>0, <1>1, <2>1
    <3> QED BY <1>2, <3>1
  <2>2. CASE j >= i
    <3>1. j + 1 \in i + 1 .. k + 1 /\ j + 1 \in 1 .. k + 1 /\ (j + 1) - 1 = j
      BY <1>0, <2>2
    <3>2. t[j + 1] = s[j]
      BY <1>1, <3>1
    <3> QED BY <1>2, <3>1, <3>2
  <2> QED BY <1>0, <2>1, <2>2
<1>5. e \in ToSet(t)
  BY <1>0, <1>1, <1>2
<1>6. ToSet(t) \subseteq ToSet(s) \cup {e}
  BY <1>2, <1>3
<1>7. ToSet(s) \subseteq ToSet(t)
  BY <1>2, <1>4
<1> QED BY <1>5, <1>6, <1>7 DEF t, i

LEMMA ToSetWithout ==
  ASSUME NEW s \in Seq(Nodes), \A a, b \in 1 .. Len(s) : s[a] = s[b] => a = b,
         NEW i \in 1 .. Len(s), NEW j \in i .. Len(s)
  PROVE  /\ ToSet(Without(s, i - 1, j)) = ToSet(s) \ ToSet(SubSeq(s, i, j))
         /\ ToSet(SubSeq(s, i, j)) = {s[l] : l \in i .. j}
         /\ ToSet(SubSeq(s, i, j)) \subseteq ToSet(s)
<1> DEFINE w == Without(s, i - 1, j)
           k == Len(s)
           h == i - 1
           d == j - h
           r == SubSeq(s, i, j)
<1>0. /\ k \in Nat /\ h \in 0 .. k /\ d \in 1 .. k /\ h + d = j /\ j \in 1 .. k /\ i = h + 1
      /\ h <= j /\ h < j
  BY LenProperties
<1>1. /\ w \in Seq(Nodes) /\ Len(w) = k - d
      /\ \A l \in 1 .. h : w[l] = s[l]
      /\ \A l \in h + 1 .. k - d : w[l] = s[l + d]
  <2>1. h \in Nat /\ j \in Nat /\ h <= j /\ j <= Len(s)
    BY <1>0
  <2>2. IsWithout(Without(s, h, j), Nodes, s, h, j)
    <3> HIDE DEF h
    <3> QED BY ONLY s \in Seq(Nodes), <2>1, WithoutIs
  <2> QED BY <2>2 DEF IsWithout
<1>2. ToSet(w) = {w[l] : l \in 1 .. k - d} /\ ToSet(s) = {s[l] : l \in 1 .. k}
  <2>1. ToSet(s) = {s[l] : l \in 1 .. k}
    BY ToSetIs
  <2> HIDE DEF w, k, d
  <2>2. w \in Seq(Nodes) /\ Len(w) = k - d
    BY <1>1
  <2>3. ToSet(w) = {w[l] : l \in 1 .. Len(w)}
    BY ONLY <2>2, ToSetIs
  <2> QED BY <2>1, <2>2, <2>3
<1>3. ToSet(r) = {s[l] : l \in i .. j}
  <2> DEFINE n == j - i + 1
  <2>1. r \in Seq(Nodes) /\ Len(r) = n /\ \A l \in 1 .. n : r[l] = s[l + i - 1]
    OBVIOUS
  <2>2. n \in Nat
    BY <1>0
  <2> HIDE DEF r
  <2>3. ToSet(r) = {r[l] : l \in 1 .. n}
    BY <2>1, ToSetIs
  <2>4. ASSUME NEW l \in 1 .. n PROVE r[l] \in {s[m] : m \in i .. j}
    <3>1. l + i - 1 \in i .. j
      BY <1>0
    <3>2. r[l] = s[l + i - 1]
      BY <2>1
    <3> QED BY <3>1, <3>2
  <2>5. ASSUME NEW l \in i .. j PROVE s[l] \in ToSet(r)
    <3>1. l - i + 1 \in 1 .. n /\ (l - i + 1) + i - 1 = l
      BY <1>0
    <3>2. r[l - i + 1] = s[l]
      BY <2>1, <3>1
    <3> QED BY <2>3, <3>1, <3>2
  <2>6. ToSet(r) \subseteq {s[l] : l \in i .. j}
    <3> HIDE DEF n
    <3> QED BY <2>3, <2>4
  <2> QED BY <2>5, <2>6
<1> HIDE DEF w, k, h, d, r
<1>4. ASSUME NEW l \in 1 .. k - d PROVE w[l] \in ToSet(s) /\ w[l] \notin ToSet(r)
  <2> DEFINE m == IF l <= h THEN l ELSE l + d
  <2>1. w[l] = s[m] /\ m \in 1 .. k /\ m \notin i .. j
    <3>1. CASE l <= h
      BY <1>0, <1>1, <3>1
    <3>2. CASE l > h
      BY <1>0, <1>1, <3>2
    <3> QED BY <1>0, <3>1, <3>2
  <2> HIDE DEF m
  <2>2. ASSUME NEW p \in i .. j PROVE s[p] # s[m]
    <3>1. p \in 1 .. k
      BY <1>0
    <3> QED BY <2>1, <3>1 DEF k
  <2> QED BY <1>2, <1>3, <2>1, <2>2
<1>5. ASSUME NEW l \in 1 .. k, l \notin i .. j PROVE s[l] \in ToSet(w)
  <2>1. CASE l < i
    <3>1. l \in 1 .. h /\ l \in 1 .. k - d
      BY <1>0, <2>1
    <3>2. w[l] = s[l]
      BY <1>1, <3>1
    <3> QED BY <1>2, <3>1, <3>2
  <2>2. CASE l > j
    <3>1. l - d \in h + 1 .. k - d /\ l - d \in 1 .. k - d /\ (l - d) + d = l
      BY <1>0, <2>2
    <3>2. w[l - d] = s[l]
      BY <1>1, <3>1
    <3> QED BY <1>2, <3>1, <3>2
  <2> QED BY <1>0, <1>5, <2>1, <2>2
<1>6. ToSet(w) \subseteq ToSet(s) \ ToSet(r)
  BY <1>2, <1>4
<1>7. ToSet(s) \ ToSet(r) \subseteq ToSet(w)
  BY <1>2, <1>3, <1>5
<1>8. ToSet(r) \subseteq ToSet(s)
  <2>1. i .. j \subseteq 1 .. k
    BY <1>0
  <2> QED BY <1>2, <1>3, <2>1
<1> QED BY <1>3, <1>6, <1>7, <1>8 DEF w, r

-----------------------------------------------------------------------------
(* What the operations on nodes keep                                       *)

Lists == \A c \in Containers : Linked(index[c], head[c], tail[c], next, prev)

Apart ==
  /\ live = UNION {ToSet(index[c]) : c \in Containers}
  /\ \A c, d \in Containers : c # d => ToSet(index[c]) \cap ToSet(index[d]) = {}

Sizes == IsMap => \A c \in Containers : size[c] = Len(index[c])

LinksOK ==
  /\ live \subseteq Nodes
  /\ prev \in [Nodes -> Nodes \cup {None}] /\ next \in [Nodes -> Nodes \cup {None}]
  /\ head \in [Containers -> Nodes \cup {None}] /\ tail \in [Containers -> Nodes \cup {None}]
  /\ DOMAIN index = Containers /\ \A c \in Containers : index[c] \in Seq(Nodes)
  /\ size \in [Containers -> Nat]

Shape == LinksOK /\ Lists /\ Apart /\ Sizes

LEMMA NewNodeIsFree ==
  ASSUME live \subseteq Nodes, CanAllocate PROVE NewNode \in Nodes \ live
<1>1. Nodes \ live # {} /\ Nodes \ live \subseteq Nat
  BY OrderedNodesAssumption DEF CanAllocate
<1>2. \E n \in Nodes \ live : \A m \in Nodes \ live : n <= m
  BY <1>1, NatMin
<1> QED BY <1>2 DEF NewNode

LEMMA AtIsEntry ==
  ASSUME NEW c \in Containers, index[c] \in Seq(Nodes), NEW i \in 0 .. Len(index[c])
  PROVE  At(c, i) = Entry(index[c], i + 1)
<1> DEFINE k == Len(index[c])
<1>1. k \in Nat /\ i \in 0 .. k
  BY LenProperties
<1>2. At(c, i) = IF i = k THEN None ELSE index[c][i + 1]
  BY DEF At
<1>3. Entry(index[c], i + 1) = IF i + 1 \in 1 .. k THEN index[c][i + 1] ELSE None
  BY DEF Entry
<1> HIDE DEF k
<1>4. i + 1 \in 1 .. k <=> i # k
  BY <1>1
<1> QED BY <1>2, <1>3, <1>4

LEMMA EntryIs ==
  ASSUME NEW s \in Seq(Nodes), NEW i \in 0 .. Len(s) + 1
  PROVE  /\ Entry(s, i) \in Nodes \cup {None}
         /\ Entry(s, i) # None => Entry(s, i) \in ToSet(s)
  BY ToSetIs DEF Entry

\* A new node, somewhere in one of the containers.
LEMMA LinkKeeps ==
  ASSUME Shape, NEW c \in Containers, CanAllocate, NEW i \in 0 .. Len(index[c]), Link(c, i), kind' = kind
  PROVE  /\ Shape'
         /\ NewNode \in Nodes \ live /\ live' = live \cup {NewNode}
         /\ index'[c] = InsertAt(index[c], i + 1, NewNode)
         /\ \A d \in Containers : d # c => index'[d] = index[d]
<1> DEFINE n == NewNode
           s == index[c]
           k == Len(s)
           before == Entry(s, i)
           after == Entry(s, i + 1)
<1>1. LinksOK /\ Lists /\ Apart /\ Sizes
  BY DEF Shape
<1>2. s \in Seq(Nodes) /\ k \in Nat /\ i \in 0 .. k /\ i + 1 \in 1 .. k + 1
  BY <1>1, LenProperties DEF LinksOK
<1>3. n \in Nodes /\ n \notin live
  BY <1>1, NewNodeIsFree DEF LinksOK
<1>4. Linked(s, head[c], tail[c], next, prev)
  BY <1>1 DEF Lists
<1>5. At(c, i) = after
  BY <1>2, AtIsEntry
<1>6. (IF IsMap THEN IF after = None THEN tail[c] ELSE prev[after]
       ELSE IF i = 0 THEN None ELSE index[c][i]) = before
  <2>1. CASE ~IsMap
    BY <1>2, <2>1 DEF Entry
  <2>2. CASE IsMap
    <3>1. tail[c] = Entry(s, k) /\ \A j \in 1 .. k : prev[s[j]] = Entry(s, j - 1)
      BY <1>4 DEF Linked
    <3>2. None \notin Nodes /\ \A j \in 1 .. k : s[j] \in Nodes
      BY <1>2, OrderedNodesAssumption, ElementOfSeq
    <3>3. after = IF i = k THEN None ELSE s[i + 1]
      <4>1. after = IF i + 1 \in 1 .. k THEN s[i + 1] ELSE None
        BY DEF Entry
      <4> HIDE DEF k, s, after
      <4>2. i + 1 \in 1 .. k <=> i # k
        BY <1>2
      <4> QED BY <4>1, <4>2
    <3> HIDE DEF s, k, before, after
    <3>4. CASE i = k
      BY <2>2, <3>1, <3>3, <3>4 DEF before
    <3>5. CASE i # k
      <4>1. i + 1 \in 1 .. k /\ (i + 1) - 1 = i
        BY <1>2, <3>5
      <4>2. after = s[i + 1] /\ after # None
        BY <3>2, <3>3, <3>5, <4>1
      <4>3. prev[s[i + 1]] = Entry(s, (i + 1) - 1)
        BY <3>1, <4>1
      <4> QED BY <2>2, <4>1, <4>2, <4>3 DEF before
    <3> QED BY <3>4, <3>5
  <2> QED BY <2>1, <2>2
<1>7. /\ live' = live \cup {n}
      /\ index' = [index EXCEPT ![c] = InsertAt(@, i + 1, n)]
      /\ prev' = [m \in Nodes |-> IF m = n THEN before ELSE IF m = after THEN n ELSE prev[m]]
      /\ next' = [m \in Nodes |-> IF m = n THEN after ELSE IF m = before THEN n ELSE next[m]]
      /\ head' = IF before = None THEN [head EXCEPT ![c] = n] ELSE head
      /\ tail' = IF after = None THEN [tail EXCEPT ![c] = n] ELSE tail
      /\ size' = IF IsMap THEN [size EXCEPT ![c] = @ + 1] ELSE size
  <2> HIDE DEF n, before, after
  <2> QED BY <1>5, <1>6 DEF Link, n
<1>8. before \in Nodes \cup {None} /\ after \in Nodes \cup {None}
      /\ (before # None => before \in ToSet(s)) /\ (after # None => after \in ToSet(s))
  <2> DEFINE l == i + 1
  <2>1. l \in 0 .. Len(s) + 1 /\ i \in 0 .. Len(s) + 1
    BY <1>2
  <2> HIDE DEF l
  <2>2. Entry(s, l) \in Nodes \cup {None} /\ (Entry(s, l) # None => Entry(s, l) \in ToSet(s))
    BY <1>2, <2>1, EntryIs
  <2>3. Entry(s, i) \in Nodes \cup {None} /\ (Entry(s, i) # None => Entry(s, i) \in ToSet(s))
    BY <1>2, <2>1, EntryIs
  <2> QED BY <2>2, <2>3 DEF l
<1> DEFINE t == InsertAt(s, i + 1, n)
<1>9. t \in Seq(Nodes) /\ Len(t) = k + 1 /\ ToSet(t) = ToSet(s) \cup {n}
  <2>1. s \in Seq(Nodes) /\ i \in 0 .. Len(s) /\ n \in Nodes
    BY <1>2, <1>3
  <2> HIDE DEF n, s
  <2>2. IsInserted(InsertAt(s, i + 1, n), Nodes, s, i, n)
    BY <2>1, InsertAtIs
  <2>3. ToSet(InsertAt(s, i + 1, n)) = ToSet(s) \cup {n}
    BY <2>1, ToSetInsert
  <2>4. Len(s) = k
    BY DEF s
  <2> QED BY <2>2, <2>3, <2>4 DEF IsInserted
<1>10. ToSet(s) \subseteq live /\ \A d \in Containers : ToSet(index[d]) \subseteq live
  BY <1>1 DEF Apart
<1>11. \A j \in 1 .. k : s[j] # n
  BY <1>2, <1>3, <1>10, ToSetIs
<1>12. DOMAIN index' = Containers /\ index'[c] = t
       /\ \A d \in Containers : d # c => index'[d] = index[d]
  BY <1>1, <1>7 DEF LinksOK
<1> HIDE DEF n, s, k, before, after, t
<1>13. LinksOK'
  <2>1. live' \subseteq Nodes
    BY <1>1, <1>3, <1>7 DEF LinksOK
  <2>2. prev' \in [Nodes -> Nodes \cup {None}] /\ next' \in [Nodes -> Nodes \cup {None}]
    BY <1>1, <1>3, <1>7, <1>8 DEF LinksOK
  <2>3. head' \in [Containers -> Nodes \cup {None}] /\ tail' \in [Containers -> Nodes \cup {None}]
    BY <1>1, <1>3, <1>7 DEF LinksOK
  <2>4. \A d \in Containers : index'[d] \in Seq(Nodes)
    BY <1>1, <1>9, <1>12 DEF LinksOK
  <2>5. size' \in [Containers -> Nat]
    BY <1>1, <1>7 DEF LinksOK
  <2> QED BY <1>12, <2>1, <2>2, <2>3, <2>4, <2>5 DEF LinksOK
<1>14. Lists'
  <2> SUFFICES ASSUME NEW d \in Containers
               PROVE  Linked(index'[d], head'[d], tail'[d], next', prev')
    BY DEF Lists
  <2>1. CASE d = c
    <3>1. Linked(t, IF before = None THEN n ELSE head[c], IF after = None THEN n ELSE tail[c], next', prev')
      <4>1. /\ next \in [Nodes -> Nodes \cup {None}] /\ prev \in [Nodes -> Nodes \cup {None}]
            /\ \A j \in 1 .. Len(s) : s[j] # n
            /\ i \in 0 .. Len(s)
        BY <1>1, <1>2, <1>11 DEF LinksOK, k
      <4>2. /\ next' = [m \in Nodes |-> IF m = n THEN Entry(s, i + 1) ELSE IF m = Entry(s, i) THEN n ELSE next[m]]
            /\ prev' = [m \in Nodes |-> IF m = n THEN Entry(s, i) ELSE IF m = Entry(s, i + 1) THEN n ELSE prev[m]]
        BY <1>7 DEF before, after
      <4>3. Linked(InsertAt(s, i + 1, n),
                IF Entry(s, i) = None THEN n ELSE head[c], IF Entry(s, i + 1) = None THEN n ELSE tail[c],
                next', prev')
        BY ONLY <1>2, <1>3, <1>4, <4>1, <4>2, LinkedInsert
      <4> QED BY <4>3 DEF t, before, after
    <3>2. /\ head'[c] = (IF before = None THEN n ELSE head[c])
          /\ tail'[c] = (IF after = None THEN n ELSE tail[c])
      BY <1>1, <1>7 DEF LinksOK
    <3> QED BY <1>12, <2>1, <3>1, <3>2
  <2>2. CASE d # c
    <3>1. index'[d] = index[d] /\ head'[d] = head[d] /\ tail'[d] = tail[d] /\ index[d] \in Seq(Nodes)
      BY <1>1, <1>7, <1>12, <2>2 DEF LinksOK
    <3>2. Linked(index[d], head[d], tail[d], next, prev)
      BY <1>1 DEF Lists
    <3>3. ASSUME NEW j \in 1 .. Len(index[d])
          PROVE  next'[index[d][j]] = next[index[d][j]] /\ prev'[index[d][j]] = prev[index[d][j]]
      <4>1. index[d][j] \in ToSet(index[d]) /\ index[d][j] \in Nodes
        BY <3>1, ToSetIs
      <4>2. ToSet(s) \cap ToSet(index[d]) = {} /\ n \notin ToSet(index[d]) /\ None \notin Nodes
        BY <1>1, <1>3, <1>10, <2>2, OrderedNodesAssumption DEF Apart, s
      <4>3. index[d][j] # n /\ index[d][j] # before /\ index[d][j] # after
        BY <1>8, <4>1, <4>2
      <4> QED BY <1>7, <4>1, <4>3
    <3>4. Linked(index[d], head[d], tail[d], next', prev')
      BY <3>1, <3>2, <3>3, LinkedElsewhere
    <3> QED BY <3>1, <3>4
  <2> QED BY <2>1, <2>2
<1>15. Apart'
  <2>1. \A d \in Containers : ToSet(index'[d]) = IF d = c THEN ToSet(s) \cup {n} ELSE ToSet(index[d])
    BY <1>9, <1>12
  <2>2. live' = UNION {ToSet(index'[d]) : d \in Containers}
    BY <1>1, <1>7, <2>1 DEF Apart, s
  <2>3. ASSUME NEW d \in Containers, NEW e \in Containers, d # e
        PROVE  ToSet(index'[d]) \cap ToSet(index'[e]) = {}
    <3>1. n \notin ToSet(index[d]) /\ n \notin ToSet(index[e])
      BY <1>3, <1>10
    <3>2. ToSet(index[d]) \cap ToSet(index[e]) = {}
      BY <1>1, <2>3 DEF Apart
    <3> QED BY <2>1, <2>3, <3>1, <3>2 DEF s
  <2> QED BY <2>2, <2>3 DEF Apart
<1>16. Sizes'
  <2> SUFFICES ASSUME IsMap', NEW d \in Containers PROVE size'[d] = Len(index'[d])
    BY DEF Sizes
  <2>1. IsMap
    BY DEF IsMap
  <2>2. size[d] = Len(index[d]) /\ size' = [size EXCEPT ![c] = @ + 1]
    BY <1>1, <1>7, <2>1 DEF Sizes
  <2> QED BY <1>1, <1>9, <1>12, <2>2 DEF LinksOK, s, k
<1> QED
  BY <1>3, <1>7, <1>12, <1>13, <1>14, <1>15, <1>16 DEF Shape, t, n, s

\* The nodes from one position to another leave one of the containers.
Removed(c, i, j) ==
  /\ index' = [index EXCEPT ![c] = Without(index[c], i - 1, j)]
  /\ Cut(c, Entry(index[c], i - 1), Entry(index[c], j + 1))
  /\ live' = live \ ToSet(SubSeq(index[c], i, j))
  /\ size' = CountDown(c, j - i + 1)

LEMMA RemovedKeeps ==
  ASSUME Shape, NEW c \in Containers, NEW i \in 1 .. Len(index[c]), NEW j \in i .. Len(index[c]),
         Removed(c, i, j), kind' = kind
  PROVE  /\ Shape'
         /\ index'[c] = Without(index[c], i - 1, j)
         /\ \A d \in Containers : d # c => index'[d] = index[d]
<1> DEFINE s == index[c]
           k == Len(s)
           before == Entry(s, i - 1)
           after == Entry(s, j + 1)
           gone == ToSet(SubSeq(s, i, j))
           w == Without(s, i - 1, j)
<1>1. LinksOK /\ Lists /\ Apart /\ Sizes
  BY DEF Shape
<1>2. s \in Seq(Nodes) /\ k \in Nat /\ i \in 1 .. k /\ j \in i .. k /\ j \in 1 .. k
  BY <1>1, LenProperties DEF LinksOK
<1>3. Linked(s, head[c], tail[c], next, prev)
  BY <1>1 DEF Lists
<1>4. \A a, b \in 1 .. k : s[a] = s[b] => a = b
  BY <1>3 DEF Linked
<1>5. /\ before \in Nodes \cup {None} /\ (before # None => before \in ToSet(s))
      /\ after \in Nodes \cup {None} /\ (after # None => after \in ToSet(s))
  <2> DEFINE l == i - 1
             m == j + 1
  <2>1. l \in 0 .. Len(s) + 1 /\ m \in 0 .. Len(s) + 1
    BY <1>2
  <2> HIDE DEF l, m
  <2>2. Entry(s, l) \in Nodes \cup {None} /\ (Entry(s, l) # None => Entry(s, l) \in ToSet(s))
    BY <1>2, <2>1, EntryIs
  <2>3. Entry(s, m) \in Nodes \cup {None} /\ (Entry(s, m) # None => Entry(s, m) \in ToSet(s))
    BY <1>2, <2>1, EntryIs
  <2> QED BY <2>2, <2>3 DEF l, m
<1>6. ToSet(w) = ToSet(s) \ gone /\ gone \subseteq ToSet(s)
  BY <1>2, <1>4, ToSetWithout
<1>7. w \in Seq(Nodes) /\ Len(w) = k - (j - i + 1)
  <2> DEFINE h == i - 1
             l == j
  <2>1. h \in Nat /\ l \in Nat /\ h <= l /\ l <= Len(s)
    BY <1>2
  <2>0. s \in Seq(Nodes)
    BY <1>2
  <2> HIDE DEF h, l, s
  <2>2. IsWithout(Without(s, h, l), Nodes, s, h, l)
    BY ONLY <2>0, <2>1, WithoutIs
  <2>3. k - (j - i + 1) = k - (j - (i - 1))
    BY <1>2
  <2> QED BY <2>2, <2>3 DEF IsWithout, h, l, s
<1>8. /\ index' = [index EXCEPT ![c] = w]
      /\ prev' = (IF after = None THEN prev ELSE [prev EXCEPT ![after] = before])
      /\ next' = (IF before = None THEN next ELSE [next EXCEPT ![before] = after])
      /\ head' = (IF before = None THEN [head EXCEPT ![c] = after] ELSE head)
      /\ tail' = (IF after = None THEN [tail EXCEPT ![c] = before] ELSE tail)
      /\ live' = live \ gone
      /\ size' = CountDown(c, j - i + 1)
  <2> HIDE DEF before, after, w, gone
  <2> QED BY DEF Removed, Cut, before, after, w, gone, s
<1>9. DOMAIN index' = Containers /\ index'[c] = w
      /\ \A d \in Containers : d # c => index'[d] = index[d]
  <2> HIDE DEF w
  <2> QED BY <1>1, <1>8 DEF LinksOK
<1>10. \A d \in Containers : d # c => ToSet(s) \cap ToSet(index[d]) = {}
  BY <1>1 DEF Apart
<1> HIDE DEF s, k, before, after, gone, w
<1>11. Sizes'
  <2> SUFFICES ASSUME IsMap', NEW d \in Containers PROVE size'[d] = Len(index'[d])
    BY DEF Sizes
  <2>1. IsMap
    BY DEF IsMap
  <2>2. size[d] = Len(index[d]) /\ size' = [size EXCEPT ![c] = @ - (j - i + 1)]
    BY <1>1, <1>8, <2>1 DEF Sizes, CountDown
  <2> QED BY <1>1, <1>7, <1>9, <2>2 DEF LinksOK, s, k
<1>12. LinksOK'
  <2>1. live' \subseteq Nodes
    BY <1>1, <1>8 DEF LinksOK
  <2>2. prev' \in [Nodes -> Nodes \cup {None}] /\ next' \in [Nodes -> Nodes \cup {None}]
    BY <1>1, <1>5, <1>8 DEF LinksOK
  <2>3. head' \in [Containers -> Nodes \cup {None}] /\ tail' \in [Containers -> Nodes \cup {None}]
    BY <1>1, <1>5, <1>8 DEF LinksOK
  <2>4. \A d \in Containers : index'[d] \in Seq(Nodes)
    BY <1>1, <1>7, <1>9 DEF LinksOK
  <2>5. size' \in [Containers -> Nat]
    <3>1. CASE ~IsMap
      BY <1>1, <1>8, <3>1 DEF LinksOK, CountDown
    <3>2. CASE IsMap
      <4>1. size[c] = k /\ size' = [size EXCEPT ![c] = @ - (j - i + 1)]
        BY <1>1, <1>8, <3>2 DEF Sizes, CountDown, k, s
      <4>2. k - (j - i + 1) \in Nat
        BY <1>2
      <4>3. size[c] - (j - i + 1) \in Nat
        BY <4>1, <4>2
      <4> QED BY <1>1, <4>1, <4>3 DEF LinksOK
    <3> QED BY <3>1, <3>2
  <2> QED BY <1>9, <2>1, <2>2, <2>3, <2>4, <2>5 DEF LinksOK
<1>13. Lists'
  <2> SUFFICES ASSUME NEW d \in Containers
               PROVE  Linked(index'[d], head'[d], tail'[d], next', prev')
    BY DEF Lists
  <2>1. CASE d = c
    <3>1. Linked(w, IF before = None THEN after ELSE head[c], IF after = None THEN before ELSE tail[c],
                 next', prev')
      <4>1. /\ next \in [Nodes -> Nodes \cup {None}] /\ prev \in [Nodes -> Nodes \cup {None}]
            /\ i \in 1 .. Len(s) /\ j \in i .. Len(s)
        BY <1>1, <1>2 DEF LinksOK, k
      <4>2. /\ before = Entry(s, i - 1) /\ after = Entry(s, j + 1)
            /\ next' = (IF before = None THEN next ELSE [next EXCEPT ![before] = after])
            /\ prev' = (IF after = None THEN prev ELSE [prev EXCEPT ![after] = before])
        BY <1>8 DEF before, after
      <4>3. Linked(Without(s, i - 1, j),
                IF before = None THEN after ELSE head[c], IF after = None THEN before ELSE tail[c],
                next', prev')
        <5> DEFINE nx2 == next'
                   pv2 == prev'
                   p == i
                   q == j
        <5>1. s \in Seq(Nodes) /\ p \in 1 .. Len(s) /\ q \in p .. Len(s)
          BY <1>2, <4>1
        <5>2. /\ before = Entry(s, p - 1) /\ after = Entry(s, q + 1)
              /\ \A m \in Nodes : nx2[m] = IF m = before THEN after ELSE next[m]
              /\ \A m \in Nodes : pv2[m] = IF m = after THEN before ELSE prev[m]
          BY <4>1, <4>2, OrderedNodesAssumption
        <5> HIDE DEF nx2, pv2, p, q
        <5>3. Linked(Without(s, p - 1, q),
                IF before = None THEN after ELSE head[c], IF after = None THEN before ELSE tail[c],
                nx2, pv2)
          BY ONLY <1>3, <4>1, <5>1, <5>2, LinkedCut
        <5> QED BY <5>3 DEF nx2, pv2, p, q
      <4> QED BY <4>3 DEF w
    <3>2. /\ head'[c] = (IF before = None THEN after ELSE head[c])
          /\ tail'[c] = (IF after = None THEN before ELSE tail[c])
      BY <1>1, <1>8 DEF LinksOK
    <3> QED BY <1>9, <2>1, <3>1, <3>2
  <2>2. CASE d # c
    <3>1. index'[d] = index[d] /\ head'[d] = head[d] /\ tail'[d] = tail[d] /\ index[d] \in Seq(Nodes)
      BY <1>1, <1>8, <1>9, <2>2 DEF LinksOK
    <3>2. Linked(index[d], head[d], tail[d], next, prev)
      BY <1>1 DEF Lists
    <3>3. ASSUME NEW l \in 1 .. Len(index[d])
          PROVE  next'[index[d][l]] = next[index[d][l]] /\ prev'[index[d][l]] = prev[index[d][l]]
      <4>1. index[d][l] \in ToSet(index[d]) /\ index[d][l] \in Nodes
        BY <3>1, ToSetIs
      <4>2. index[d][l] \notin ToSet(s) /\ index[d][l] # None
        BY <1>10, <2>2, <4>1, OrderedNodesAssumption
      <4>3. index[d][l] # before /\ index[d][l] # after
        BY <1>5, <4>2
      <4> QED BY <1>1, <1>8, <4>1, <4>3 DEF LinksOK
    <3>4. Linked(index[d], head[d], tail[d], next', prev')
      BY <3>1, <3>2, <3>3, LinkedElsewhere
    <3> QED BY <3>1, <3>4
  <2> QED BY <2>1, <2>2
<1>14. Apart'
  <2>1. \A d \in Containers : ToSet(index'[d]) = IF d = c THEN ToSet(s) \ gone ELSE ToSet(index[d])
    BY <1>6, <1>9
  <2>2. live' = UNION {ToSet(index'[d]) : d \in Containers}
    <3>1. live' = (UNION {ToSet(index[d]) : d \in Containers}) \ gone
      BY <1>1, <1>8 DEF Apart
    <3>2. \A d \in Containers : ToSet(index'[d]) = ToSet(index[d]) \ gone
      BY <1>6, <1>10, <2>1 DEF s
    <3> QED BY <3>1, <3>2
  <2>3. ASSUME NEW d \in Containers, NEW e \in Containers, d # e
        PROVE  ToSet(index'[d]) \cap ToSet(index'[e]) = {}
    <3>1. ToSet(index[d]) \cap ToSet(index[e]) = {}
      BY <1>1, <2>3 DEF Apart
    <3> QED BY <2>1, <2>3, <3>1 DEF s
  <2> QED BY <2>2, <2>3 DEF Apart
<1> QED
  BY <1>9, <1>11, <1>12, <1>13, <1>14 DEF Shape, w, s

-----------------------------------------------------------------------------
(* What a search finds                                                     *)

\* Keys grow along a sequence of nodes; equal ones are for multi alone.
Ascending(s, f, multi) ==
  \A i, j \in 1 .. Len(s) : i < j => IF multi THEN f[s[i]] <= f[s[j]] ELSE f[s[i]] < f[s[j]]

Sorted == \A c \in Containers : Ascending(index[c], key, Multi)

LEMMA SplitExists ==
  ASSUME NEW n \in Nat, NEW S, \A m \in S : \A l \in 0 .. n - 1 : l <= m => l \in S,
         S \subseteq 0 .. n - 1
  PROVE  \E p \in 0 .. n : \A m \in 0 .. n - 1 : m \in S <=> m < p
<1> DEFINE T == (0 .. n) \ S
<1>1. n \in T /\ T \subseteq Nat
  OBVIOUS
<1>2. \E p \in T : \A m \in T : p <= m
  <2> HIDE DEF T
  <2> QED BY <1>1, NatMin
<1>3. PICK p \in T : \A m \in T : p <= m
  BY <1>2
<1>4. ASSUME NEW m \in 0 .. n - 1 PROVE m \in S <=> m < p
  <2>1. CASE m < p
    <3>1. m \notin T
      BY <1>3, <2>1
    <3> QED BY <2>1, <3>1
  <2>2. CASE m >= p
    <3>1. p \in 0 .. n - 1 /\ p <= m
      BY <1>3, <2>2
    <3>2. m \notin S
      BY <1>3, <3>1
    <3> QED BY <1>3, <2>2, <3>2
  <2> QED BY <1>3, <2>1, <2>2
<1> QED BY <1>3, <1>4

\* The binary search for the first entry that is not to the right.
LEMMA SearchSplits ==
  ASSUME NEW s \in Seq(Nodes), NEW right, right \subseteq 0 .. Len(s) - 1,
         \A m \in right : \A l \in 0 .. Len(s) - 1 : l <= m => l \in right
  PROVE  /\ BinarySearch(Len(s), right) \in 0 .. Len(s)
         /\ \A m \in 1 .. BinarySearch(Len(s), right) : m - 1 \in right
         /\ \A m \in BinarySearch(Len(s), right) + 1 .. Len(s) : m - 1 \notin right
<1> DEFINE n == Len(s)
<1>0. n \in Nat
  BY LenProperties
<1> HIDE DEF n
<1>1. right \subseteq 0 .. n - 1 /\ \A m \in right : \A l \in 0 .. n - 1 : l <= m => l \in right
  BY DEF n
<1>2. PICK p \in 0 .. n : \A m \in 0 .. n - 1 : m \in right <=> m < p
  BY ONLY <1>0, <1>1, SplitExists
<1>3. BinarySearch(n, right) = p
  BY ONLY <1>0, <1>2, BinarySearchIs
<1>4. ASSUME NEW m \in 1 .. p PROVE m - 1 \in right
  <2>1. m - 1 \in 0 .. n - 1 /\ m - 1 < p
    BY <1>0, <1>2
  <2> QED BY <1>2, <2>1
<1>5. ASSUME NEW m \in p + 1 .. n PROVE m - 1 \notin right
  <2>1. m - 1 \in 0 .. n - 1 /\ ~(m - 1 < p)
    BY <1>0, <1>2
  <2> QED BY <1>2, <2>1
<1> QED BY <1>2, <1>3, <1>4, <1>5 DEF n

LEMMA LowerBoundIs ==
  ASSUME NEW c \in Containers, index[c] \in Seq(Nodes), key \in [Nodes -> Nat],
         Ascending(index[c], key, Multi), NEW k \in Nat
  PROVE  /\ LowerBoundIndex(c, k) \in 0 .. Len(index[c])
         /\ \A m \in 1 .. LowerBoundIndex(c, k) : key[index[c][m]] < k
         /\ \A m \in LowerBoundIndex(c, k) + 1 .. Len(index[c]) : k <= key[index[c][m]]
<1> DEFINE s == index[c]
           n == Len(s)
           right == {m \in 0 .. n - 1 : key[s[m + 1]] < k}
           p == LowerBoundIndex(c, k)
<1>0. n \in Nat /\ s \in Seq(Nodes) /\ \A m \in 1 .. n : key[s[m]] \in Nat
  BY LenProperties, ElementOfSeq
<1>1. p = BinarySearch(n, right)
  BY DEF LowerBoundIndex
<1>2. ASSUME NEW m \in right, NEW l \in 0 .. n - 1, l <= m PROVE l \in right
  <2>1. m + 1 \in 1 .. n /\ l + 1 \in 1 .. n /\ key[s[m + 1]] < k /\ (l + 1 < m + 1 \/ l = m)
    BY <1>0, <1>2
  <2>2. l + 1 < m + 1 => key[s[l + 1]] <= key[s[m + 1]]
    BY <1>0, <2>1 DEF Ascending
  <2>3. key[s[l + 1]] < k
    BY <1>0, <2>1, <2>2
  <2> QED BY <2>3
<1>3. right \subseteq 0 .. n - 1
  OBVIOUS
<1> HIDE DEF s, right
<1>4. /\ BinarySearch(n, right) \in 0 .. n
      /\ \A m \in 1 .. BinarySearch(n, right) : m - 1 \in right
      /\ \A m \in BinarySearch(n, right) + 1 .. n : m - 1 \notin right
  <2>1. \A m \in right : \A l \in 0 .. Len(s) - 1 : l <= m => l \in right
    BY <1>2
  <2> QED BY <1>0, <1>3, <2>1, SearchSplits
<1> HIDE DEF p, n
<1>5. p \in 0 .. n /\ (\A m \in 1 .. p : m - 1 \in right) /\ \A m \in p + 1 .. n : m - 1 \notin right
  BY <1>1, <1>4
<1>6. ASSUME NEW m \in 1 .. p PROVE key[s[m]] < k
  <2>1. m - 1 \in right /\ (m - 1) + 1 = m
    BY <1>5
  <2>2. key[s[(m - 1) + 1]] < k
    BY <2>1 DEF right
  <2> QED BY <2>1, <2>2
<1>7. ASSUME NEW m \in p + 1 .. n PROVE k <= key[s[m]]
  <2>1. m - 1 \notin right /\ (m - 1) + 1 = m /\ m - 1 \in 0 .. n - 1 /\ m \in 1 .. n
    BY <1>0, <1>5
  <2>2. ~(key[s[(m - 1) + 1]] < k)
    BY <2>1 DEF right
  <2>3. key[s[m]] \in Nat
    BY <1>0, <2>1
  <2> QED BY <2>1, <2>2, <2>3
<1> QED BY <1>5, <1>6, <1>7 DEF p, n, s

LEMMA UpperBoundIs ==
  ASSUME NEW c \in Containers, index[c] \in Seq(Nodes), key \in [Nodes -> Nat],
         Ascending(index[c], key, Multi), NEW k \in Nat
  PROVE  /\ UpperBoundIndex(c, k) \in 0 .. Len(index[c])
         /\ \A m \in 1 .. UpperBoundIndex(c, k) : key[index[c][m]] <= k
         /\ \A m \in UpperBoundIndex(c, k) + 1 .. Len(index[c]) : k < key[index[c][m]]
<1> DEFINE s == index[c]
           n == Len(s)
           right == {m \in 0 .. n - 1 : key[s[m + 1]] <= k}
           p == UpperBoundIndex(c, k)
<1>0. n \in Nat /\ s \in Seq(Nodes) /\ \A m \in 1 .. n : key[s[m]] \in Nat
  BY LenProperties, ElementOfSeq
<1>1. p = BinarySearch(n, right)
  BY DEF UpperBoundIndex
<1>2. ASSUME NEW m \in right, NEW l \in 0 .. n - 1, l <= m PROVE l \in right
  <2>1. m + 1 \in 1 .. n /\ l + 1 \in 1 .. n /\ key[s[m + 1]] <= k /\ (l + 1 < m + 1 \/ l = m)
    BY <1>0, <1>2
  <2>2. l + 1 < m + 1 => key[s[l + 1]] <= key[s[m + 1]]
    BY <1>0, <2>1 DEF Ascending
  <2>3. key[s[l + 1]] <= k
    BY <1>0, <2>1, <2>2
  <2> QED BY <2>3
<1>3. right \subseteq 0 .. n - 1
  OBVIOUS
<1> HIDE DEF s, right
<1>4. /\ BinarySearch(n, right) \in 0 .. n
      /\ \A m \in 1 .. BinarySearch(n, right) : m - 1 \in right
      /\ \A m \in BinarySearch(n, right) + 1 .. n : m - 1 \notin right
  <2>1. \A m \in right : \A l \in 0 .. Len(s) - 1 : l <= m => l \in right
    BY <1>2
  <2> QED BY <1>0, <1>3, <2>1, SearchSplits
<1> HIDE DEF p, n
<1>5. p \in 0 .. n /\ (\A m \in 1 .. p : m - 1 \in right) /\ \A m \in p + 1 .. n : m - 1 \notin right
  BY <1>1, <1>4
<1>6. ASSUME NEW m \in 1 .. p PROVE key[s[m]] <= k
  <2>1. m - 1 \in right /\ (m - 1) + 1 = m
    BY <1>5
  <2>2. key[s[(m - 1) + 1]] <= k
    BY <2>1 DEF right
  <2> QED BY <2>1, <2>2
<1>7. ASSUME NEW m \in p + 1 .. n PROVE k < key[s[m]]
  <2>1. m - 1 \notin right /\ (m - 1) + 1 = m /\ m - 1 \in 0 .. n - 1 /\ m \in 1 .. n
    BY <1>0, <1>5
  <2>2. ~(key[s[(m - 1) + 1]] <= k)
    BY <2>1 DEF right
  <2>3. key[s[m]] \in Nat
    BY <1>0, <2>1
  <2> QED BY <2>1, <2>2, <2>3
<1> QED BY <1>5, <1>6, <1>7 DEF p, n, s

\* find returns the first node with the key, if there is one.
LEMMA FoundIs ==
  ASSUME NEW c \in Containers, index[c] \in Seq(Nodes), key \in [Nodes -> Nat],
         Ascending(index[c], key, Multi), NEW k \in Nat
  PROVE  /\ Found(c, k) => /\ LowerBoundIndex(c, k) < Len(index[c])
                           /\ key[index[c][LowerBoundIndex(c, k) + 1]] = k
                           /\ At(c, LowerBoundIndex(c, k)) = index[c][LowerBoundIndex(c, k) + 1]
         /\ ~Found(c, k) => \A m \in 1 .. Len(index[c]) : key[index[c][m]] # k
<1> DEFINE s == index[c]
           n == Len(s)
           p == LowerBoundIndex(c, k)
<1>0. /\ n \in Nat /\ \A m \in 1 .. n : s[m] \in Nodes /\ s[m] # None /\ key[s[m]] \in Nat
  <2>1. n \in Nat /\ None \notin Nodes
    BY LenProperties, OrderedNodesAssumption
  <2>2. \A m \in 1 .. n : s[m] \in Nodes
    BY ElementOfSeq
  <2> HIDE DEF s, n
  <2> QED BY <2>1, <2>2
<1>1. /\ p \in 0 .. n
      /\ \A m \in 1 .. p : key[s[m]] < k
      /\ \A m \in p + 1 .. n : k <= key[s[m]]
  BY LowerBoundIs
<1>2. At(c, p) = IF p = n THEN None ELSE s[p + 1]
  BY DEF At
<1>3. Found(c, k) <=> At(c, p) # None /\ key[At(c, p)] = k
  BY DEF Found
<1>4. ASSUME NEW i \in 1 .. n, NEW j \in 1 .. n, i < j PROVE key[s[i]] <= key[s[j]]
  <2>1. IF Multi THEN key[s[i]] <= key[s[j]] ELSE key[s[i]] < key[s[j]]
    BY <1>4 DEF Ascending
  <2>2. key[s[i]] \in Nat /\ key[s[j]] \in Nat
    BY <1>0
  <2> HIDE DEF s, n
  <2> QED BY <2>1, <2>2
<1> HIDE DEF s, n, p
<1>5. ASSUME Found(c, k) PROVE p < n /\ key[s[p + 1]] = k /\ At(c, p) = s[p + 1]
  BY <1>0, <1>1, <1>2, <1>3, <1>5
<1>6. ASSUME ~Found(c, k), NEW m \in 1 .. n PROVE key[s[m]] # k
  <2>1. CASE m <= p
    BY <1>0, <1>1, <2>1
  <2>2. CASE m > p
    <3>1. p < n /\ p + 1 \in 1 .. n /\ p + 1 \in p + 1 .. n
      BY <1>0, <1>1, <2>2
    <3>2. key[s[p + 1]] # k
      BY <1>0, <1>1, <1>2, <1>3, <1>6, <3>1
    <3>3. k <= key[s[p + 1]] /\ key[s[p + 1]] <= key[s[m]]
      <4>1. p + 1 = m \/ p + 1 < m
        BY <1>0, <1>1, <2>2
      <4> QED BY <1>0, <1>1, <1>4, <3>1, <4>1
    <3> QED BY <1>0, <3>1, <3>2, <3>3
  <2> QED BY <1>0, <1>1, <2>1, <2>2
<1> QED BY <1>5, <1>6 DEF s, n, p

\* erase finds the entry of the node that it is given.
LEMMA IndexToEraseIs ==
  ASSUME NEW c \in Containers, index[c] \in Seq(Nodes), key \in [Nodes -> Nat],
         Ascending(index[c], key, Multi),
         \A i, j \in 1 .. Len(index[c]) : index[c][i] = index[c][j] => i = j,
         NEW i \in 1 .. Len(index[c])
  PROVE  IndexToErase(c, index[c][i]) = i - 1
<1> DEFINE s == index[c]
           n == Len(s)
           k == key[s[i]]
           p == LowerBoundIndex(c, k)
<1>0. /\ n \in Nat /\ i \in 1 .. n /\ \A m \in 1 .. n : key[s[m]] \in Nat
  BY LenProperties, ElementOfSeq
<1>1. /\ p \in 0 .. n
      /\ \A m \in 1 .. p : key[s[m]] < k
      /\ \A m \in p + 1 .. n : k <= key[s[m]]
  <2>1. k \in Nat
    BY <1>0
  <2> HIDE DEF k
  <2> QED BY <2>1, LowerBoundIs
<1>2. IndexToErase(c, s[i]) = IF kind = "set" THEN p ELSE CHOOSE x \in p .. n - 1 : s[x + 1] = s[i]
  BY DEF IndexToErase
<1>3. \A a, b \in 1 .. n : s[a] = s[b] => a = b
  OBVIOUS
<1>4. ~Multi => \A a, b \in 1 .. n : a < b => key[s[a]] < key[s[b]]
  BY DEF Ascending
<1> HIDE DEF s, n, p
<1>5. p <= i - 1
  <2>1. CASE i <= p
    <3>1. key[s[i]] < key[s[i]]
      BY <1>0, <1>1, <2>1
    <3> QED BY <1>0, <3>1
  <2> QED BY <1>0, <1>1, <2>1
<1>6. CASE kind = "set"
  <2>1. ~Multi
    BY <1>6 DEF Multi
  <2>2. CASE p < i - 1
    <3>1. p + 1 \in p + 1 .. n /\ p + 1 \in 1 .. n /\ p + 1 < i
      BY <1>0, <1>1, <2>2
    <3>2. key[s[p + 1]] < k /\ k <= key[s[p + 1]]
      BY <1>0, <1>1, <1>4, <2>1, <3>1
    <3> QED BY <1>0, <3>1, <3>2
  <2> QED BY <1>0, <1>1, <1>2, <1>5, <1>6, <2>2 DEF s
<1>7. CASE kind # "set"
  <2> DEFINE j == CHOOSE x \in p .. n - 1 : s[x + 1] = s[i]
  <2>1. i - 1 \in p .. n - 1 /\ (i - 1) + 1 = i
    BY <1>0, <1>1, <1>5
  <2>2. \E x \in p .. n - 1 : s[x + 1] = s[i]
    BY <2>1
  <2>3. j \in p .. n - 1 /\ s[j + 1] = s[i]
    BY <2>2
  <2> HIDE DEF j
  <2>4. j + 1 \in 1 .. n
    BY <1>0, <1>1, <2>3
  <2>5. j + 1 = i
    BY <1>0, <1>3, <2>3, <2>4
  <2>6. j = i - 1
    BY <1>0, <2>3, <2>5
  <2> QED BY <1>2, <1>7, <2>6 DEF j, s
<1> QED BY <1>6, <1>7

LEMMA AscendingSame ==
  ASSUME NEW s \in Seq(Nodes), NEW f, NEW g, NEW multi, Ascending(s, f, multi),
         \A n \in ToSet(s) : g[n] = f[n]
  PROVE  Ascending(s, g, multi)
<1>1. \A i \in 1 .. Len(s) : g[s[i]] = f[s[i]]
  BY ToSetIs
<1> QED BY <1>1 DEF Ascending

LEMMA AscendingInsert ==
  ASSUME NEW s \in Seq(Nodes), NEW f \in [Nodes -> Nat], NEW multi \in BOOLEAN,
         NEW i \in 0 .. Len(s), NEW n \in Nodes,
         Ascending(s, f, multi),
         \A j \in 1 .. i : IF multi THEN f[s[j]] <= f[n] ELSE f[s[j]] < f[n],
         \A j \in i + 1 .. Len(s) : IF multi THEN f[n] <= f[s[j]] ELSE f[n] < f[s[j]]
  PROVE  Ascending(InsertAt(s, i + 1, n), f, multi)
<1> DEFINE t == InsertAt(s, i + 1, n)
           k == Len(s)
           Less(a, b) == IF multi THEN f[a] <= f[b] ELSE f[a] < f[b]
<1>0. k \in Nat /\ i \in 0 .. k /\ i + 1 \in 1 .. k + 1
  BY LenProperties
<1>1. /\ t \in Seq(Nodes) /\ Len(t) = k + 1
      /\ \A j \in 1 .. i : t[j] = s[j]
      /\ t[i + 1] = n
      /\ \A j \in i + 2 .. k + 1 : t[j] = s[j - 1]
  <2>1. IsInserted(InsertAt(s, i + 1, n), Nodes, s, i, n)
    BY InsertAtIs
  <2> QED BY <2>1 DEF IsInserted
<1>2. \A a, b \in 1 .. k : a < b => Less(s[a], s[b])
  BY DEF Ascending
<1>3. /\ \A j \in 1 .. i : Less(s[j], n)
      /\ \A j \in i + 1 .. k : Less(n, s[j])
  OBVIOUS
<1> HIDE DEF t, k, Less
<1>4. ASSUME NEW a \in 1 .. k + 1, NEW b \in 1 .. k + 1, a < b PROVE Less(t[a], t[b])
  <2>1. CASE b <= i
    <3>1. a \in 1 .. i /\ b \in 1 .. i /\ a \in 1 .. k /\ b \in 1 .. k
      BY ONLY <1>0, <1>4, <2>1, a \in 1 .. k + 1, b \in 1 .. k + 1
    <3>2. t[a] = s[a] /\ t[b] = s[b]
      BY <1>1, <3>1
    <3> QED BY <1>2, <1>4, <3>1, <3>2
  <2>2. CASE b = i + 1
    <3>1. a \in 1 .. i
      BY <1>0, <1>4, <2>2
    <3>2. t[a] = s[a] /\ t[b] = n
      BY <1>1, <2>2, <3>1
    <3> QED BY <1>3, <3>1, <3>2
  <2>3. CASE b > i + 1
    <3>1. b \in i + 2 .. k + 1 /\ b - 1 \in i + 1 .. k /\ b - 1 \in 1 .. k
      BY <1>0, <2>3
    <3>2. t[b] = s[b - 1]
      BY <1>1, <3>1
    <3>3. CASE a <= i
      <4>1. a \in 1 .. i /\ a \in 1 .. k /\ a < b - 1
        BY <1>0, <2>3, <3>3
      <4>2. t[a] = s[a]
        BY <1>1, <4>1
      <4> QED BY <1>2, <3>1, <3>2, <4>1, <4>2
    <3>4. CASE a = i + 1
      <4>1. t[a] = n
        BY <1>1, <3>4
      <4> QED BY <1>3, <3>1, <3>2, <4>1
    <3>5. CASE a > i + 1
      <4>1. a \in i + 2 .. k + 1 /\ a - 1 \in 1 .. k /\ a - 1 < b - 1
        BY <1>0, <1>4, <3>5
      <4>2. t[a] = s[a - 1]
        BY <1>1, <4>1
      <4> QED BY <1>2, <3>1, <3>2, <4>1, <4>2
    <3> QED BY <1>0, <3>3, <3>4, <3>5
  <2> QED BY <1>0, <2>1, <2>2, <2>3
<1> QED BY <1>1, <1>4 DEF Ascending, t, Less

LEMMA AscendingWithout ==
  ASSUME NEW s \in Seq(Nodes), NEW f, NEW multi, Ascending(s, f, multi),
         NEW i \in 1 .. Len(s), NEW j \in i .. Len(s)
  PROVE  Ascending(Without(s, i - 1, j), f, multi)
<1> DEFINE w == Without(s, i - 1, j)
           k == Len(s)
           h == i - 1
           d == j - h
           Less(a, b) == IF multi THEN f[a] <= f[b] ELSE f[a] < f[b]
<1>0. /\ k \in Nat /\ h \in 0 .. k /\ d \in 1 .. k /\ h + d = j /\ j \in 1 .. k /\ h <= j
  BY LenProperties
<1>1. /\ w \in Seq(Nodes) /\ Len(w) = k - d
      /\ \A l \in 1 .. h : w[l] = s[l]
      /\ \A l \in h + 1 .. k - d : w[l] = s[l + d]
  <2>1. h \in Nat /\ j \in Nat /\ h <= j /\ j <= Len(s)
    BY <1>0
  <2>2. IsWithout(Without(s, h, j), Nodes, s, h, j)
    <3> HIDE DEF h
    <3> QED BY ONLY s \in Seq(Nodes), <2>1, WithoutIs
  <2> QED BY <2>2 DEF IsWithout
<1>2. \A a, b \in 1 .. k : a < b => Less(s[a], s[b])
  BY DEF Ascending
<1> HIDE DEF w, k, h, d, Less
<1>3. ASSUME NEW a \in 1 .. k - d, NEW b \in 1 .. k - d, a < b PROVE Less(w[a], w[b])
  <2> DEFINE x == IF a <= h THEN a ELSE a + d
             y == IF b <= h THEN b ELSE b + d
  <2>1. w[a] = s[x] /\ x \in 1 .. k
    <3>1. CASE a <= h
      BY <1>0, <1>1, <3>1
    <3>2. CASE a > h
      BY <1>0, <1>1, <3>2
    <3> QED BY <1>0, <3>1, <3>2
  <2>2. w[b] = s[y] /\ y \in 1 .. k
    <3>1. CASE b <= h
      BY <1>0, <1>1, <3>1
    <3>2. CASE b > h
      BY <1>0, <1>1, <3>2
    <3> QED BY <1>0, <3>1, <3>2
  <2>3. x < y
    BY <1>0, <1>3
  <2> HIDE DEF x, y
  <2> QED BY <1>2, <2>1, <2>2, <2>3
<1> QED BY <1>1, <1>3 DEF Ascending, w, Less

-----------------------------------------------------------------------------
(* What the operations take out of a container                             *)

LEMMA ShapeOf ==
  ASSUME Shape, NEW c \in Containers
  PROVE  /\ index[c] \in Seq(Nodes) /\ Len(index[c]) \in Nat
         /\ Linked(index[c], head[c], tail[c], next, prev)
         /\ \A i, j \in 1 .. Len(index[c]) : index[c][i] = index[c][j] => i = j
         /\ ToSet(index[c]) = {index[c][i] : i \in 1 .. Len(index[c])}
         /\ ToSet(index[c]) \subseteq live /\ live \subseteq Nodes
         /\ next \in [Nodes -> Nodes \cup {None}] /\ prev \in [Nodes -> Nodes \cup {None}]
<1>1. index[c] \in Seq(Nodes)
  BY DEF Shape, LinksOK
<1>2. Linked(index[c], head[c], tail[c], next, prev)
  BY DEF Shape, Lists
<1>3. ToSet(index[c]) = {index[c][i] : i \in 1 .. Len(index[c])}
  BY <1>1, ToSetIs
<1>4. ToSet(index[c]) \subseteq live
  BY DEF Shape, Apart
<1>5. \A i, j \in 1 .. Len(index[c]) : index[c][i] = index[c][j] => i = j
  BY <1>2 DEF Linked
<1>6. /\ next \in [Nodes -> Nodes \cup {None}] /\ prev \in [Nodes -> Nodes \cup {None}]
      /\ live \subseteq Nodes
  BY DEF Shape, LinksOK
<1> QED BY <1>1, <1>2, <1>3, <1>4, <1>5, <1>6, LenProperties

LEMMA UnlinkIs ==
  ASSUME Shape, Sorted, key \in [Nodes -> Nat], NEW c \in Containers,
         NEW i \in 1 .. Len(index[c]), Unlink(c, index[c][i])
  PROVE  Removed(c, i, i)
<1> DEFINE s == index[c]
           n == s[i]
<1>1. s \in Seq(Nodes) /\ Len(s) \in Nat /\ Linked(s, head[c], tail[c], next, prev)
      /\ \A a, b \in 1 .. Len(s) : s[a] = s[b] => a = b
  BY ShapeOf
<1>2. IndexToErase(c, n) = i - 1
  BY <1>1, IndexToEraseIs DEF Sorted
<1>3. /\ index' = [index EXCEPT ![c] = RemoveAt(@, IndexToErase(c, n) + 1)]
      /\ Cut(c, prev[n], next[n])
      /\ live' = live \ {n}
      /\ size' = CountDown(c, 1)
  BY DEF Unlink
<1>4. next[n] = Entry(s, i + 1) /\ prev[n] = Entry(s, i - 1)
  BY <1>1 DEF Linked
<1>5. (i - 1) + 1 = i /\ i - i + 1 = 1
  OBVIOUS
<1>6. RemoveAt(s, i) = Without(s, i - 1, i)
  BY DEF RemoveAt, Without
<1>7. ToSet(SubSeq(s, i, i)) = {n}
  <2> DEFINE r == SubSeq(s, i, i)
  <2>1. r \in Seq(Nodes) /\ Len(r) = 1 /\ r[1] = n
    BY <1>1
  <2> HIDE DEF r, n
  <2>2. ToSet(r) = {r[l] : l \in 1 .. 1}
    BY <2>1, ToSetIs
  <2> QED BY <2>1, <2>2 DEF r
<1> QED BY <1>2, <1>3, <1>4, <1>5, <1>6, <1>7 DEF Removed

LEMMA UnlinkRangeIs ==
  ASSUME Shape, Sorted, key \in [Nodes -> Nat], NEW c \in Containers,
         NEW i \in 1 .. Len(index[c]), NEW j \in i .. Len(index[c]),
         UnlinkRange(c, index[c][i], Entry(index[c], j + 1))
  PROVE  Removed(c, i, j)
<1> DEFINE s == index[c]
           k == Len(s)
           n == s[i]
           after == Entry(s, j + 1)
           gone == Walk(next, n, after, None)
           first == IndexToErase(c, n)
           last == IF kind # "set" THEN first + Len(gone)
                   ELSE IF after = None THEN k ELSE LowerBoundIndex(c, key[after])
<1>1. s \in Seq(Nodes) /\ k \in Nat /\ Linked(s, head[c], tail[c], next, prev)
      /\ (\A a, b \in 1 .. k : s[a] = s[b] => a = b) /\ i \in 1 .. k /\ j \in i .. k /\ j \in 1 .. k
  BY ShapeOf
<1>2. /\ index' = [index EXCEPT ![c] = SubSeq(@, 1, first) \o SubSeq(@, last + 1, Len(@))]
      /\ Cut(c, prev[n], after)
      /\ live' = live \ ToSet(gone)
      /\ size' = CountDown(c, Len(gone))
  BY DEF UnlinkRange
<1>3. first = i - 1
  BY <1>1, IndexToEraseIs DEF Sorted
<1>4. prev[n] = Entry(s, i - 1)
  BY <1>1 DEF Linked
<1>5. gone = SubSeq(s, i, j)
  <2>1. next \in [Nodes -> Nodes \cup {None}] /\ prev \in [Nodes -> Nodes \cup {None}]
    BY ShapeOf
  <2> HIDE DEF s
  <2>2. i \in 1 .. Len(s) /\ j \in i .. Len(s) /\ after = Entry(s, j + 1)
    BY <1>1
  <2> DEFINE h == head[c]
             l == tail[c]
  <2>3. s \in Seq(Nodes) /\ Linked(s, h, l, next, prev)
    BY <1>1
  <2> HIDE DEF after, h, l
  <2>4. Walk(next, s[i], after, None) = SubSeq(s, i, j)
    BY ONLY <2>1, <2>2, <2>3, LinkedWalksPart
  <2> QED BY <2>4 DEF after
<1>6. Len(SubSeq(s, i, j)) = j - i + 1
  BY <1>1
<1> HIDE DEF gone, first
<1>7. last = j
  <2>1. CASE kind # "set"
    BY <1>1, <1>3, <1>5, <1>6, <2>1
  <2>2. CASE kind = "set"
    <3>1. None \notin Nodes /\ \A a \in 1 .. k : s[a] \in Nodes
      BY <1>1, OrderedNodesAssumption, ElementOfSeq
    <3>2. CASE j = k
      <4>1. after = None
        BY <1>1, <3>2 DEF Entry
      <4> QED BY <2>2, <3>2, <4>1
    <3>3. CASE j # k
      <4>1. j + 1 \in 1 .. k /\ (j + 1) - 1 = j
        BY <1>1, <3>3
      <4>2. after = s[j + 1] /\ after # None
        BY <3>1, <4>1 DEF Entry
      <4>3. IndexToErase(c, s[j + 1]) = j
        <5> DEFINE m == j + 1
        <5>1. m \in 1 .. Len(index[c]) /\ m - 1 = j
          BY <4>1
        <5> HIDE DEF m
        <5>2. IndexToErase(c, index[c][m]) = m - 1
          BY <1>1, <5>1, IndexToEraseIs DEF Sorted
        <5> QED BY <5>1, <5>2 DEF m
      <4>4. LowerBoundIndex(c, key[s[j + 1]]) = j
        BY <2>2, <4>3 DEF IndexToErase
      <4> QED BY <2>2, <4>2, <4>4
    <3> QED BY <3>2, <3>3
  <2> QED BY <2>1, <2>2
<1> HIDE DEF last, after, n
<1>8. index' = [index EXCEPT ![c] = Without(s, i - 1, j)]
  BY <1>2, <1>3, <1>7 DEF Without, s
<1>9. Cut(c, Entry(s, i - 1), Entry(s, j + 1))
  BY <1>2, <1>4 DEF after
<1>10. live' = live \ ToSet(SubSeq(s, i, j)) /\ size' = CountDown(c, j - i + 1)
  BY <1>2, <1>5, <1>6
<1> QED BY <1>8, <1>9, <1>10 DEF Removed, s

\* erase(key) takes out the nodes with the key, which follow each other.
LEMMA EraseKeyIs ==
  ASSUME Shape, Sorted, key \in [Nodes -> Nat], NEW c \in Containers, NEW k \in Nat, EraseKey(c, k)
  PROVE  \E i \in 1 .. Len(index[c]) : \E j \in i .. Len(index[c]) : Removed(c, i, j)
<1> DEFINE s == index[c]
           n == Len(s)
           p == LowerBoundIndex(c, k)
           q == UpperBoundIndex(c, k)
<1>1. s \in Seq(Nodes) /\ n \in Nat /\ Ascending(s, key, Multi)
      /\ \A m \in 1 .. n : key[s[m]] \in Nat
  <2>1. s \in Seq(Nodes) /\ n \in Nat
    BY ShapeOf
  <2>2. Ascending(s, key, Multi)
    BY DEF Sorted
  <2> HIDE DEF s
  <2> QED BY <2>1, <2>2, ElementOfSeq
<1>2. Found(c, k)
  BY DEF EraseKey
<1>3. p < n /\ key[s[p + 1]] = k /\ At(c, p) = s[p + 1] /\ p \in 0 .. n
  BY <1>1, <1>2, FoundIs, LowerBoundIs
<1> HIDE DEF p, q
<1>4. p + 1 \in 1 .. n
  BY <1>1, <1>3
<1>5. CASE ~Multi
  <2>1. Unlink(c, s[p + 1])
    BY <1>3, <1>5 DEF EraseKey, p
  <2> DEFINE i == p + 1
  <2>2. i \in 1 .. Len(index[c])
    BY <1>4
  <2> HIDE DEF i
  <2>3. Unlink(c, index[c][i])
    BY <2>1 DEF i
  <2>4. Removed(c, i, i)
    BY <2>2, <2>3, UnlinkIs
  <2>5. i \in i .. Len(index[c])
    BY <1>1, <2>2
  <2> QED BY <2>2, <2>4, <2>5
<1>6. CASE Multi
  <2>1. /\ q \in 0 .. n
        /\ \A m \in q + 1 .. n : k < key[s[m]]
    BY <1>1, UpperBoundIs DEF q
  <2>2. p + 1 <= q
    <3>1. CASE q < p + 1
      <4>1. p + 1 \in q + 1 .. n
        BY <1>1, <1>3, <1>4, <2>1, <3>1
      <4>2. k < k
        BY <1>3, <2>1, <4>1
      <4> QED BY <4>2
    <3> QED BY <1>1, <1>3, <2>1, <3>1
  <2>3. At(c, q) = Entry(s, q + 1)
    BY <1>1, <2>1, AtIsEntry
  <2>4. UnlinkRange(c, s[p + 1], Entry(s, q + 1))
    BY <1>3, <1>6, <2>3 DEF EraseKey, p, q
  <2> DEFINE i == p + 1
             j == q
  <2>5. i \in 1 .. Len(index[c]) /\ j \in i .. Len(index[c])
    BY <1>1, <1>3, <1>4, <2>1, <2>2
  <2> HIDE DEF i, j
  <2>6. UnlinkRange(c, index[c][i], Entry(index[c], j + 1))
    BY <2>4 DEF i, j
  <2>7. Removed(c, i, j)
    BY <2>5, <2>6, UnlinkRangeIs
  <2> QED BY <2>5, <2>7
<1> QED BY <1>5, <1>6

LEMMA HeldIs ==
  ASSUME Shape, NEW c \in Containers PROVE Held(c) = ToSet(index[c])
<1>1. Walk(next, head[c], None, None) = index[c]
  BY ShapeOf, LinkedWalks
<1> QED BY <1>1 DEF Held

LEMMA ShapeSame ==
  ASSUME Shape, UNCHANGED <<kind, live, prev, next, head, tail, index, size>> PROVE Shape'
<1>1. LinksOK'
  BY DEF Shape, LinksOK
<1>2. Lists'
  BY DEF Shape, Lists
<1>3. Apart'
  BY DEF Shape, Apart
<1>4. Sizes'
  BY DEF Shape, Sizes, IsMap
<1> QED BY <1>1, <1>2, <1>3, <1>4 DEF Shape

LEMMA SortedSame ==
  ASSUME Shape, Sorted, UNCHANGED <<kind, index>>, \A n \in live : key'[n] = key[n]
  PROVE  Sorted'
<1> SUFFICES ASSUME NEW c \in Containers PROVE Ascending(index[c], key', Multi)
  BY DEF Sorted, Multi
<1>1. index[c] \in Seq(Nodes) /\ ToSet(index[c]) \subseteq live
  BY ShapeOf
<1>2. Ascending(index[c], key, Multi) /\ \A n \in ToSet(index[c]) : key'[n] = key[n]
  BY <1>1 DEF Sorted
<1> QED BY <1>1, <1>2, AscendingSame

LEMMA SortedAfterLink ==
  ASSUME Shape, Sorted, NEW c \in Containers, CanAllocate, NEW i \in 0 .. Len(index[c]),
         Link(c, i), kind' = kind, NEW k \in Nat,
         key' \in [Nodes -> Nat], key'[NewNode] = k, \A n \in live : key'[n] = key[n],
         \A j \in 1 .. i : IF Multi THEN key[index[c][j]] <= k ELSE key[index[c][j]] < k,
         \A j \in i + 1 .. Len(index[c]) : IF Multi THEN k <= key[index[c][j]] ELSE k < key[index[c][j]]
  PROVE  Sorted'
<1>1. /\ NewNode \in Nodes \ live
      /\ index'[c] = InsertAt(index[c], i + 1, NewNode)
      /\ \A d \in Containers : d # c => index'[d] = index[d]
  BY LinkKeeps
<1>2. Multi' = Multi /\ Multi \in BOOLEAN
  BY DEF Multi
<1>3. ASSUME NEW d \in Containers PROVE Ascending(index[d], key', Multi) /\ index[d] \in Seq(Nodes)
  <2>1. index[d] \in Seq(Nodes) /\ ToSet(index[d]) \subseteq live
    BY ShapeOf
  <2>2. Ascending(index[d], key, Multi) /\ \A n \in ToSet(index[d]) : key'[n] = key[n]
    BY <2>1 DEF Sorted
  <2> QED BY <2>1, <2>2, AscendingSame
<1>4. Ascending(index'[c], key', Multi)
  <2> DEFINE s == index[c]
             n == NewNode
             f == key'
             multi == Multi
  <2>1. s \in Seq(Nodes) /\ f \in [Nodes -> Nat] /\ multi \in BOOLEAN /\ i \in 0 .. Len(s) /\ n \in Nodes
        /\ Ascending(s, f, multi)
    BY <1>1, <1>2, <1>3
  <2>2. \A j \in 1 .. Len(s) : f[s[j]] = key[s[j]]
    <3>1. ToSet(s) \subseteq live /\ ToSet(s) = {s[j] : j \in 1 .. Len(s)}
      BY ShapeOf
    <3> QED BY <3>1
  <2>3. 1 .. i \subseteq 1 .. Len(s) /\ i + 1 .. Len(s) \subseteq 1 .. Len(s)
    <3>1. Len(s) \in Nat
      BY <2>1, LenProperties
    <3> HIDE DEF s
    <3> QED BY <2>1, <3>1
  <2>4. \A j \in 1 .. i : IF multi THEN f[s[j]] <= f[n] ELSE f[s[j]] < f[n]
    BY <2>2, <2>3
  <2>5. \A j \in i + 1 .. Len(s) : IF multi THEN f[n] <= f[s[j]] ELSE f[n] < f[s[j]]
    BY <2>2, <2>3
  <2> HIDE DEF s, n, f, multi
  <2>6. Ascending(InsertAt(s, i + 1, n), f, multi)
    BY ONLY <2>1, <2>4, <2>5, AscendingInsert
  <2> QED BY <1>1, <2>6 DEF s, n, f, multi
<1> SUFFICES ASSUME NEW d \in Containers PROVE Ascending(index'[d], key', Multi)
  BY <1>2 DEF Sorted
<1> QED BY <1>1, <1>3, <1>4

LEMMA SortedAfterRemoved ==
  ASSUME Shape, Sorted, NEW c \in Containers, NEW i \in 1 .. Len(index[c]), NEW j \in i .. Len(index[c]),
         Removed(c, i, j), kind' = kind, key' = key
  PROVE  Sorted'
<1>1. /\ index'[c] = Without(index[c], i - 1, j)
      /\ \A d \in Containers : d # c => index'[d] = index[d]
  BY RemovedKeeps
<1>2. Multi' = Multi
  BY DEF Multi
<1>3. \A d \in Containers : Ascending(index[d], key, Multi)
  BY DEF Sorted
<1>4. index[c] \in Seq(Nodes)
  BY ShapeOf
<1>5. Ascending(index'[c], key, Multi)
  BY <1>1, <1>3, <1>4, AscendingWithout
<1> SUFFICES ASSUME NEW d \in Containers PROVE Ascending(index'[d], key, Multi)
  BY <1>2 DEF Sorted
<1> QED BY <1>1, <1>3, <1>5

\* The nodes that stay when some are taken out.
LEMMA StaysAfterRemoved ==
  ASSUME Shape, NEW c \in Containers, NEW i \in 1 .. Len(index[c]), NEW j \in i .. Len(index[c]),
         Removed(c, i, j), kind' = kind
  PROVE  /\ ToSet(index'[c]) = ToSet(index[c]) \ {index[c][l] : l \in i .. j}
         /\ \A d \in Containers : d # c => index'[d] = index[d]
<1>1. /\ index'[c] = Without(index[c], i - 1, j)
      /\ \A d \in Containers : d # c => index'[d] = index[d]
  BY RemovedKeeps
<1>2. index[c] \in Seq(Nodes) /\ \A a, b \in 1 .. Len(index[c]) : index[c][a] = index[c][b] => a = b
  BY ShapeOf
<1> DEFINE s == index[c]
<1> HIDE DEF s
<1>3. /\ ToSet(Without(s, i - 1, j)) = ToSet(s) \ ToSet(SubSeq(s, i, j))
      /\ ToSet(SubSeq(s, i, j)) = {s[l] : l \in i .. j}
  BY <1>2, ToSetWithout DEF s
<1> QED BY <1>1, <1>3 DEF s

LEMMA EmptiedKeeps ==
  ASSUME Shape, Sorted, NEW c \in Containers, Emptied(c), UNCHANGED <<kind, key, prev, next>>
  PROVE  /\ Shape' /\ Sorted'
         /\ index'[c] = <<>> /\ \A d \in Containers : d # c => index'[d] = index[d]
<1>1. LinksOK /\ Lists /\ Apart /\ Sizes
  BY DEF Shape
<1>2. /\ live' = live \ ToSet(index[c])
      /\ head' = [head EXCEPT ![c] = None] /\ tail' = [tail EXCEPT ![c] = None]
      /\ index' = [index EXCEPT ![c] = <<>>] /\ size' = [size EXCEPT ![c] = 0]
  BY HeldIs DEF Emptied
<1>3. DOMAIN index' = Containers /\ index'[c] = <<>>
      /\ \A d \in Containers : d # c => index'[d] = index[d]
  BY <1>1, <1>2 DEF LinksOK
<1>4. <<>> \in Seq(Nodes) /\ Len(<<>>) = 0 /\ ToSet(<<>>) = {}
  BY DEF ToSet
<1>5. LinksOK'
  <2>1. live' \subseteq Nodes
    BY <1>1, <1>2 DEF LinksOK
  <2>2. head' \in [Containers -> Nodes \cup {None}] /\ tail' \in [Containers -> Nodes \cup {None}]
    BY <1>1, <1>2 DEF LinksOK
  <2>3. size' \in [Containers -> Nat]
    BY <1>1, <1>2 DEF LinksOK
  <2>4. \A d \in Containers : index'[d] \in Seq(Nodes)
    BY <1>1, <1>3, <1>4 DEF LinksOK
  <2> QED BY <1>1, <1>3, <2>1, <2>2, <2>3, <2>4 DEF LinksOK
<1>6. Lists'
  <2> SUFFICES ASSUME NEW d \in Containers
               PROVE  Linked(index'[d], head'[d], tail'[d], next, prev)
    BY DEF Lists
  <2>1. CASE d = c
    <3>1. head'[d] = None /\ tail'[d] = None
      BY <1>1, <1>2, <2>1 DEF LinksOK
    <3> QED BY <1>3, <2>1, <3>1, LinkedEmpty
  <2>2. CASE d # c
    <3>1. head'[d] = head[d] /\ tail'[d] = tail[d]
      BY <1>1, <1>2, <2>2 DEF LinksOK
    <3> QED BY <1>1, <1>3, <2>2, <3>1 DEF Lists
  <2> QED BY <2>1, <2>2
<1>7. Apart'
  <2>1. \A d \in Containers : ToSet(index'[d]) = IF d = c THEN {} ELSE ToSet(index[d])
    BY <1>3, <1>4
  <2>2. \A d \in Containers : d # c => ToSet(index[d]) \cap ToSet(index[c]) = {}
    BY <1>1 DEF Apart
  <2>3. live' = UNION {ToSet(index'[d]) : d \in Containers}
    <3>1. live = UNION {ToSet(index[d]) : d \in Containers}
      BY <1>1 DEF Apart
    <3>2. \A d \in Containers : ToSet(index'[d]) = ToSet(index[d]) \ ToSet(index[c])
      BY <2>1, <2>2
    <3> QED BY <1>2, <3>1, <3>2
  <2>4. ASSUME NEW d \in Containers, NEW e \in Containers, d # e
        PROVE  ToSet(index'[d]) \cap ToSet(index'[e]) = {}
    <3>1. ToSet(index[d]) \cap ToSet(index[e]) = {}
      BY <1>1, <2>4 DEF Apart
    <3> QED BY <2>1, <3>1
  <2> QED BY <2>3, <2>4 DEF Apart
<1>8. Sizes'
  <2> SUFFICES ASSUME IsMap, NEW d \in Containers PROVE size'[d] = Len(index'[d])
    BY DEF Sizes, IsMap
  <2>1. size[d] = Len(index[d])
    BY <1>1 DEF Sizes
  <2> QED BY <1>1, <1>2, <1>3, <1>4, <2>1 DEF LinksOK
<1>9. Sorted'
  <2> SUFFICES ASSUME NEW d \in Containers PROVE Ascending(index'[d], key, Multi)
    BY DEF Sorted, Multi
  <2>1. Ascending(index[d], key, Multi)
    BY DEF Sorted
  <2>2. Ascending(<<>>, key, Multi)
    BY <1>4 DEF Ascending
  <2> QED BY <1>3, <2>1, <2>2
<1> QED BY <1>3, <1>5, <1>6, <1>7, <1>8, <1>9 DEF Shape

LEMMA SwapKeeps ==
  ASSUME Shape, Sorted, NEW c \in Containers, NEW d \in Containers, c # d, Swap(c, d)
  PROVE  /\ Shape' /\ Sorted'
         /\ index'[c] = index[d] /\ index'[d] = index[c]
         /\ \A e \in Containers : e \notin {c, d} => index'[e] = index[e]
<1> DEFINE other(e) == IF e = c THEN d ELSE IF e = d THEN c ELSE e
<1>1. LinksOK /\ Lists /\ Apart /\ Sizes
  BY DEF Shape
<1>2. /\ head' = [head EXCEPT ![c] = head[d], ![d] = head[c]]
      /\ tail' = [tail EXCEPT ![c] = tail[d], ![d] = tail[c]]
      /\ index' = [index EXCEPT ![c] = index[d], ![d] = index[c]]
      /\ size' = [size EXCEPT ![c] = size[d], ![d] = size[c]]
      /\ UNCHANGED <<kind, live, key, prev, next>>
  BY DEF Swap, Exchanged
<1>3. DOMAIN index' = Containers /\ \A e \in Containers : other(e) \in Containers
  BY <1>1, <1>2 DEF LinksOK
<1>4. \A e \in Containers : /\ index'[e] = index[other(e)] /\ head'[e] = head[other(e)]
                            /\ tail'[e] = tail[other(e)] /\ size'[e] = size[other(e)]
  BY <1>1, <1>2 DEF LinksOK
<1>5. \A e, f \in Containers : e # f => other(e) # other(f)
  OBVIOUS
<1>6. \A e \in Containers : \E f \in Containers : e = other(f)
  OBVIOUS
<1>7. index'[c] = index[d] /\ index'[d] = index[c]
      /\ \A e \in Containers : e \notin {c, d} => index'[e] = index[e]
  BY <1>4
<1> HIDE DEF other
<1>8. LinksOK'
  <2>1. head' \in [Containers -> Nodes \cup {None}] /\ tail' \in [Containers -> Nodes \cup {None}]
    BY <1>1, <1>2 DEF LinksOK
  <2>2. size' \in [Containers -> Nat]
    BY <1>1, <1>2 DEF LinksOK
  <2>3. \A e \in Containers : index'[e] \in Seq(Nodes)
    BY <1>1, <1>3, <1>4 DEF LinksOK
  <2>4. live' \subseteq Nodes /\ prev' \in [Nodes -> Nodes \cup {None}] /\ next' \in [Nodes -> Nodes \cup {None}]
    BY <1>1, <1>2 DEF LinksOK
  <2> QED BY <1>3, <2>1, <2>2, <2>3, <2>4 DEF LinksOK
<1>9. Lists'
  <2> SUFFICES ASSUME NEW e \in Containers
               PROVE  Linked(index'[e], head'[e], tail'[e], next, prev)
    BY <1>2 DEF Lists
  <2>1. Linked(index[other(e)], head[other(e)], tail[other(e)], next, prev)
    BY <1>1, <1>3 DEF Lists
  <2> QED BY <1>4, <2>1
<1>10. Apart'
  <2>1. live' = UNION {ToSet(index'[e]) : e \in Containers}
    <3>1. {ToSet(index'[e]) : e \in Containers} = {ToSet(index[e]) : e \in Containers}
      BY <1>3, <1>4, <1>6
    <3>2. live = UNION {ToSet(index[e]) : e \in Containers} /\ live' = live
      BY <1>1, <1>2 DEF Apart
    <3> QED BY <3>1, <3>2
  <2>2. ASSUME NEW e \in Containers, NEW f \in Containers, e # f
        PROVE  ToSet(index'[e]) \cap ToSet(index'[f]) = {}
    <3>1. other(e) # other(f) /\ other(e) \in Containers /\ other(f) \in Containers
      BY <1>3, <1>5, <2>2
    <3>2. ToSet(index[other(e)]) \cap ToSet(index[other(f)]) = {}
      BY <1>1, <3>1 DEF Apart
    <3> QED BY <1>4, <3>2
  <2> QED BY <2>1, <2>2 DEF Apart
<1>11. Sizes'
  <2> SUFFICES ASSUME IsMap, NEW e \in Containers PROVE size'[e] = Len(index'[e])
    BY <1>2 DEF Sizes, IsMap
  <2> QED BY <1>1, <1>3, <1>4 DEF Sizes
<1>12. Sorted'
  <2> SUFFICES ASSUME NEW e \in Containers PROVE Ascending(index'[e], key, Multi)
    BY <1>2 DEF Sorted, Multi
  <2> QED BY <1>3, <1>4 DEF Sorted
<1> QED BY <1>7, <1>8, <1>9, <1>10, <1>11, <1>12 DEF Shape

LEMMA TakeKeeps ==
  ASSUME Shape, Sorted, NEW c \in Containers, NEW d \in Containers, c # d, Take(c, d)
  PROVE  /\ Shape' /\ Sorted'
         /\ index'[c] = index[d] /\ index'[d] = <<>>
         /\ \A e \in Containers : e \notin {c, d} => index'[e] = index[e]
<1>1. LinksOK /\ Lists /\ Apart /\ Sizes
  BY DEF Shape
<1>2. /\ head' = [head EXCEPT ![c] = head[d], ![d] = None]
      /\ tail' = [tail EXCEPT ![c] = tail[d], ![d] = None]
      /\ index' = [index EXCEPT ![c] = index[d], ![d] = <<>>]
      /\ size' = [size EXCEPT ![c] = size[d], ![d] = 0]
      /\ live' = live \ ToSet(index[c])
      /\ UNCHANGED <<kind, key, prev, next>>
  BY HeldIs DEF Take
<1>3. DOMAIN index' = Containers /\ index'[c] = index[d] /\ index'[d] = <<>>
      /\ \A e \in Containers : e \notin {c, d} => index'[e] = index[e]
  BY <1>1, <1>2 DEF LinksOK
<1>4. <<>> \in Seq(Nodes) /\ Len(<<>>) = 0 /\ ToSet(<<>>) = {}
  BY DEF ToSet
<1>5. /\ head'[c] = head[d] /\ head'[d] = None /\ tail'[c] = tail[d] /\ tail'[d] = None
      /\ size'[c] = size[d] /\ size'[d] = 0
      /\ \A e \in Containers : e \notin {c, d} =>
           head'[e] = head[e] /\ tail'[e] = tail[e] /\ size'[e] = size[e]
  BY <1>1, <1>2 DEF LinksOK
<1>6. LinksOK'
  <2>1. head' \in [Containers -> Nodes \cup {None}] /\ tail' \in [Containers -> Nodes \cup {None}]
    BY <1>1, <1>2 DEF LinksOK
  <2>2. size' \in [Containers -> Nat]
    BY <1>1, <1>2 DEF LinksOK
  <2>3. \A e \in Containers : index'[e] \in Seq(Nodes)
    BY <1>1, <1>3, <1>4 DEF LinksOK
  <2>4. live' \subseteq Nodes /\ prev' \in [Nodes -> Nodes \cup {None}] /\ next' \in [Nodes -> Nodes \cup {None}]
    BY <1>1, <1>2 DEF LinksOK
  <2> QED BY <1>3, <2>1, <2>2, <2>3, <2>4 DEF LinksOK
<1>7. Lists'
  <2> SUFFICES ASSUME NEW e \in Containers
               PROVE  Linked(index'[e], head'[e], tail'[e], next, prev)
    BY <1>2 DEF Lists
  <2>1. CASE e = c
    BY <1>1, <1>3, <1>5, <2>1 DEF Lists
  <2>2. CASE e = d
    BY <1>3, <1>5, <2>2, LinkedEmpty
  <2>3. CASE e \notin {c, d}
    BY <1>1, <1>3, <1>5, <2>3 DEF Lists
  <2> QED BY <2>1, <2>2, <2>3
<1>8. Apart'
  <2>1. \A e \in Containers : ToSet(index'[e]) = IF e = c THEN ToSet(index[d])
                                                 ELSE IF e = d THEN {} ELSE ToSet(index[e])
    BY <1>3, <1>4
  <2>2. live' = UNION {ToSet(index'[e]) : e \in Containers}
    <3>1. live = UNION {ToSet(index[e]) : e \in Containers}
          /\ \A e \in Containers : e # c => ToSet(index[e]) \cap ToSet(index[c]) = {}
      BY <1>1 DEF Apart
    <3>2. ASSUME NEW n \in live' PROVE \E e \in Containers : n \in ToSet(index'[e])
      <4>1. PICK e \in Containers : n \in ToSet(index[e]) /\ e # c
        BY <1>2, <3>1
      <4>2. CASE e = d
        BY <2>1, <4>1, <4>2
      <4>3. CASE e # d
        BY <2>1, <4>1, <4>3
      <4> QED BY <4>2, <4>3
    <3>3. ASSUME NEW e \in Containers, NEW n \in ToSet(index'[e]) PROVE n \in live'
      <4>1. \E f \in Containers : f # c /\ n \in ToSet(index[f])
        BY <2>1
      <4>2. n \in live /\ n \notin ToSet(index[c])
        BY <3>1, <4>1
      <4> QED BY <1>2, <4>2
    <3> QED BY <3>2, <3>3
  <2>3. ASSUME NEW e \in Containers, NEW f \in Containers, e # f
        PROVE  ToSet(index'[e]) \cap ToSet(index'[f]) = {}
    <3>1. \A g, h \in Containers : g # h => ToSet(index[g]) \cap ToSet(index[h]) = {}
      BY <1>1 DEF Apart
    <3> QED BY <2>1, <2>3, <3>1
  <2> QED BY <2>2, <2>3 DEF Apart
<1>9. Sizes'
  <2> SUFFICES ASSUME IsMap, NEW e \in Containers PROVE size'[e] = Len(index'[e])
    BY <1>2 DEF Sizes, IsMap
  <2>1. \A f \in Containers : size[f] = Len(index[f])
    BY <1>1 DEF Sizes
  <2> QED BY <1>3, <1>4, <1>5, <2>1
<1>10. Sorted'
  <2> SUFFICES ASSUME NEW e \in Containers PROVE Ascending(index'[e], key, Multi)
    BY <1>2 DEF Sorted, Multi
  <2>1. \A f \in Containers : Ascending(index[f], key, Multi)
    BY DEF Sorted
  <2>2. Ascending(<<>>, key, Multi)
    BY <1>4 DEF Ascending
  <2> QED BY <1>3, <2>1, <2>2
<1> QED BY <1>3, <1>6, <1>7, <1>8, <1>9, <1>10 DEF Shape

-----------------------------------------------------------------------------
(* The invariant                                                           *)

\* Where keys are copied or moved so that the source of a merge stays sorted, and
\* no element is moved into a node that is then thrown away.
Mergeable == ~(KeysMove /\ kind = "set") /\ ~(GrowthFailsInMerge /\ kind = "map")

LoopOK ==
  loop.op # "none" =>
    /\ loop.source \in Containers /\ loop.target \in Containers /\ loop.source # loop.target
    /\ loop.current \in ToSet(index[loop.source]) \cup {None}
    /\ loop.op = "copy" /\ ~Multi /\ loop.current # None =>
         \A n \in ToSet(index[loop.target]) : key[n] < key[loop.current]
    /\ loop.op \in {"merge", "drop"} => ~Multi
    /\ loop.op = "drop" => loop.current # None

OthersOK ==
  /\ kind \in {"set", "multiset", "map", "multimap"}
  /\ key \in [Nodes -> Keys \cup {MovedFrom}]
  /\ value \in [Nodes -> Values \cup {MovedFrom}]
  /\ capacity \in [Containers -> Nat]
  /\ loop \in [op : {"none", "copy", "merge", "drop"}, source : Containers \cup {None},
               target : Containers \cup {None}, current : Nodes \cup {None}]

Inv == OthersOK /\ Shape /\ Sorted /\ LoopOK /\ NoValueLost /\ Mergeable

LEMMA InvFacts ==
  ASSUME Inv
  PROVE  /\ OthersOK /\ Shape /\ Sorted /\ LoopOK /\ NoValueLost /\ Mergeable
         /\ key \in [Nodes -> Nat] /\ value \in [Nodes -> Nat]
         /\ None \notin Nodes /\ None \notin Containers
         /\ \A k \in Keys : k \in Nat /\ k # MovedFrom
         /\ \A v \in Values : v \in Nat /\ v # MovedFrom
<1>1. /\ Keys \subseteq Nat \ {0} /\ Values \subseteq Nat \ {0} /\ None \notin Nodes \cup Containers
      /\ MovedFrom = 0
  BY OrderedNodesAssumption DEF MovedFrom
<1>2. key \in [Nodes -> Keys \cup {MovedFrom}] /\ value \in [Nodes -> Values \cup {MovedFrom}]
  BY DEF Inv, OthersOK
<1>3. Keys \cup {MovedFrom} \subseteq Nat /\ Values \cup {MovedFrom} \subseteq Nat
  BY <1>1
<1>4. key \in [Nodes -> Nat] /\ value \in [Nodes -> Nat]
  BY <1>2, <1>3
<1>5. OthersOK /\ Shape /\ Sorted /\ LoopOK /\ NoValueLost /\ Mergeable
  BY DEF Inv
<1> QED BY <1>1, <1>4, <1>5

\* A node with key k is in order at position i.
Fits(c, i, k) ==
  /\ i \in 0 .. Len(index[c])
  /\ \A j \in 1 .. i : IF Multi THEN key[index[c][j]] <= k ELSE key[index[c][j]] < k
  /\ \A j \in i + 1 .. Len(index[c]) : IF Multi THEN k <= key[index[c][j]] ELSE k < key[index[c][j]]

LEMMA PositionFits ==
  ASSUME Inv, NEW c \in Containers, NEW k \in Nat, Multi \/ ~Found(c, k)
  PROVE  Fits(c, PositionOf(c, k), k)
<1>1. /\ key \in [Nodes -> Nat] /\ index[c] \in Seq(Nodes) /\ Ascending(index[c], key, Multi)
      /\ Len(index[c]) \in Nat
  BY InvFacts, ShapeOf DEF Sorted
<1> DEFINE s == index[c]
           n == Len(s)
<1>2. \A j \in 1 .. n : key[s[j]] \in Nat
  BY <1>1, ElementOfSeq
<1>3. CASE Multi
  <2> DEFINE p == UpperBoundIndex(c, k)
  <2>1. /\ p \in 0 .. n
        /\ \A m \in 1 .. p : key[s[m]] <= k
        /\ \A m \in p + 1 .. n : k < key[s[m]]
    BY <1>1, UpperBoundIs
  <2>2. PositionOf(c, k) = p
    BY <1>3 DEF PositionOf
  <2> HIDE DEF p
  <2>3. ASSUME NEW m \in p + 1 .. n PROVE k <= key[s[m]]
    <3>1. k < key[s[m]] /\ m \in 1 .. n
      BY <1>1, <2>1
    <3> QED BY <1>2, <3>1
  <2> QED BY <1>3, <2>1, <2>2, <2>3 DEF Fits
<1>4. CASE ~Multi
  <2> DEFINE p == LowerBoundIndex(c, k)
  <2>1. /\ p \in 0 .. n
        /\ \A m \in 1 .. p : key[s[m]] < k
        /\ \A m \in p + 1 .. n : k <= key[s[m]]
    BY <1>1, LowerBoundIs
  <2>2. PositionOf(c, k) = p
    BY <1>4 DEF PositionOf
  <2> HIDE DEF p
  <2>3. ASSUME NEW m \in p + 1 .. n PROVE k < key[s[m]]
    <3>1. k <= key[s[m]] /\ m \in 1 .. n
      BY <1>1, <2>1
    <3>2. key[s[m]] # k
      BY <1>1, <1>4, <3>1, FoundIs
    <3> QED BY <1>2, <3>1, <3>2
  <2> QED BY <1>4, <2>1, <2>2, <2>3 DEF Fits
<1> QED BY <1>3, <1>4

LEMMA LinkStep ==
  ASSUME Inv, NEW c \in Containers, CanAllocate, NEW k \in Nat, NEW i, Fits(c, i, k),
         Link(c, i), kind' = kind, key' \in [Nodes -> Nat], key'[NewNode] = k,
         \A n \in live : key'[n] = key[n]
  PROVE  /\ Shape' /\ Sorted' /\ capacity' \in [Containers -> Nat]
         /\ NewNode \in Nodes \ live
         /\ ToSet(index'[c]) = ToSet(index[c]) \cup {NewNode}
         /\ \A d \in Containers : d # c => index'[d] = index[d]
<1>1. Shape /\ Sorted /\ i \in 0 .. Len(index[c]) /\ index[c] \in Seq(Nodes) /\ Len(index[c]) \in Nat
  BY InvFacts, ShapeOf DEF Fits
<1>2. /\ Shape'
      /\ NewNode \in Nodes \ live
      /\ index'[c] = InsertAt(index[c], i + 1, NewNode)
      /\ \A d \in Containers : d # c => index'[d] = index[d]
  BY <1>1, LinkKeeps
<1>3. Sorted'
  BY <1>1, SortedAfterLink DEF Fits
<1>4. ToSet(index'[c]) = ToSet(index[c]) \cup {NewNode}
  <2> DEFINE s == index[c]
             n == NewNode
  <2>1. i \in 0 .. Len(s) /\ s \in Seq(Nodes) /\ n \in Nodes
    BY <1>1, <1>2
  <2> HIDE DEF s, n
  <2>2. ToSet(InsertAt(s, i + 1, n)) = ToSet(s) \cup {n}
    BY ONLY <2>1, ToSetInsert
  <2> QED BY <1>2, <2>2 DEF s, n
<1>5. capacity' \in [Containers -> Nat]
  <2>1. capacity \in [Containers -> Nat] /\ capacity' = [capacity EXCEPT ![c] = Grown(c)]
    BY InvFacts DEF OthersOK, Link
  <2>2. FirstCapacity \in Nat
    BY OrderedNodesAssumption
  <2>3. Grown(c) \in Nat
    BY <2>1, <2>2 DEF Grown
  <2> QED BY <2>1, <2>3
<1> QED BY <1>2, <1>3, <1>4, <1>5

LEMMA NextInList ==
  ASSUME Inv, NEW d \in Containers, NEW n \in ToSet(index[d])
  PROVE  /\ n \in Nodes /\ n \in live
         /\ next[n] \in (ToSet(index[d]) \ {n}) \cup {None}
         /\ ~Multi /\ next[n] # None => key[n] < key[next[n]]
<1> DEFINE s == index[d]
           k == Len(s)
<1>1. /\ s \in Seq(Nodes) /\ k \in Nat /\ ToSet(s) = {s[i] : i \in 1 .. k}
      /\ Linked(s, head[d], tail[d], next, prev)
      /\ ToSet(s) \subseteq live /\ live \subseteq Nodes
      /\ \A i, j \in 1 .. k : s[i] = s[j] => i = j
  BY InvFacts, ShapeOf
<1>2. PICK i \in 1 .. k : n = s[i]
  BY <1>1
<1>3. next[n] = Entry(s, i + 1)
  BY <1>2, <1>1 DEF Linked
<1>4. Ascending(s, key, Multi)
  BY InvFacts DEF Sorted
<1>5. CASE i = k
  BY <1>1, <1>2, <1>3, <1>5 DEF Entry
<1>6. CASE i # k
  <2>1. i + 1 \in 1 .. k /\ i < i + 1 /\ i # i + 1
    BY <1>1, <1>6
  <2>2. next[n] = s[i + 1]
    BY <1>3, <2>1 DEF Entry
  <2>3. s[i + 1] # s[i] /\ s[i + 1] \in ToSet(s)
    BY <1>1, <2>1
  <2>4. ~Multi => key[s[i]] < key[s[i + 1]]
    BY <1>4, <2>1 DEF Ascending
  <2> QED BY <1>1, <1>2, <2>2, <2>3, <2>4
<1> QED BY <1>5, <1>6

LEMMA HeadInList ==
  ASSUME Inv, NEW d \in Containers
  PROVE  head[d] \in ToSet(index[d]) \cup {None}
<1>1. /\ index[d] \in Seq(Nodes) /\ head[d] = Entry(index[d], 1) /\ Len(index[d]) \in Nat
  BY InvFacts, ShapeOf DEF Linked
<1>2. 1 \in 0 .. Len(index[d]) + 1
  BY <1>1
<1> QED BY <1>1, <1>2, EntryIs

-----------------------------------------------------------------------------
(* Each operation keeps it                                                 *)

LEMMA InvAtStart == ASSUME Init, Mergeable PROVE Inv
<1>1. OthersOK
  BY DEF Init, OthersOK, Idle
<1>2. <<>> \in Seq(Nodes) /\ Len(<<>>) = 0 /\ ToSet(<<>>) = {}
  BY DEF ToSet
<1>3. \A c \in Containers : index[c] = <<>> /\ head[c] = None /\ tail[c] = None /\ size[c] = 0
  BY DEF Init
<1>4. LinksOK
  BY <1>2, <1>3 DEF Init, LinksOK
<1>5. Lists
  BY <1>3, LinkedEmpty DEF Lists
<1>6. Apart
  BY <1>2, <1>3 DEF Apart, Init
<1>7. Sizes
  BY <1>2, <1>3 DEF Sizes
<1>8. Sorted
  BY <1>2, <1>3 DEF Sorted, Ascending
<1>9. LoopOK
  BY DEF Init, LoopOK, Idle
<1>10. NoValueLost
  BY <1>2, <1>3 DEF NoValueLost
<1> QED BY <1>1, <1>4, <1>5, <1>6, <1>7, <1>8, <1>9, <1>10 DEF Inv, Shape

LEMMA InsertStep ==
  ASSUME Inv, NEW c \in Containers, NEW k \in Keys, NEW v \in Values, Insert(c, k, v) PROVE Inv'
<1> DEFINE i == PositionOf(c, k)
           n == NewNode
<1>1. /\ loop = Idle /\ CanAllocate /\ (Multi \/ ~Found(c, k)) /\ Link(c, i)
      /\ key' = [key EXCEPT ![n] = k] /\ value' = [value EXCEPT ![n] = v]
      /\ kind' = kind /\ loop' = loop
  BY DEF Insert, Ready, Construct
<1>2. k \in Nat /\ OthersOK /\ Shape /\ key \in [Nodes -> Nat] /\ v # MovedFrom
  BY InvFacts
<1>3. Fits(c, i, k)
  BY <1>1, <1>2, PositionFits
<1>4. n \in Nodes \ live
  BY <1>1, <1>2, NewNodeIsFree DEF Shape, LinksOK
<1>5. key' \in [Nodes -> Nat] /\ key'[NewNode] = k /\ \A m \in live : key'[m] = key[m]
  <2>1. live \subseteq Nodes
    BY <1>2 DEF Shape, LinksOK
  <2> QED BY <1>1, <1>2, <1>4, <2>1
<1> HIDE DEF i
<1>6. /\ Shape' /\ Sorted' /\ capacity' \in [Containers -> Nat]
      /\ ToSet(index'[c]) = ToSet(index[c]) \cup {n}
      /\ \A d \in Containers : d # c => index'[d] = index[d]
  BY <1>1, <1>2, <1>3, <1>5, LinkStep
<1> HIDE DEF n
<1>7. OthersOK'
  BY <1>1, <1>2, <1>4, <1>6 DEF OthersOK
<1>8. NoValueLost'
  <2> SUFFICES ASSUME NEW d \in Containers, NEW m \in ToSet(index'[d]), value'[m] = MovedFrom PROVE FALSE
    BY DEF NoValueLost
  <2>1. CASE m = n
    BY <1>1, <1>2, <1>4, <2>1 DEF OthersOK
  <2>2. CASE m # n
    <3>1. m \in ToSet(index[d])
      BY <1>6, <2>2
    <3>2. value[m] = MovedFrom
      BY <1>1, <1>2, <2>2 DEF OthersOK
    <3> QED BY <1>1, <3>1, <3>2, InvFacts DEF NoValueLost, Idle
  <2> QED BY <2>1, <2>2
<1>9. LoopOK' /\ Mergeable'
  BY <1>1, InvFacts DEF LoopOK, Mergeable, Idle
<1> QED BY <1>6, <1>7, <1>8, <1>9 DEF Inv

LEMMA InsertFailsStep ==
  ASSUME Inv, NEW c \in Containers, NEW k \in Keys, InsertFails(c, k) PROVE Inv'
<1>1. /\ loop = Idle /\ CanAllocate
      /\ key' = [key EXCEPT ![NewNode] = k]
      /\ UNCHANGED <<kind, value, prev, next, head, tail, index, capacity, size, loop>>
      /\ live' = (live \cup {NewNode}) \ {NewNode}
  BY DEF InsertFails, Ready, Deleted
<1>2. OthersOK /\ Shape /\ Sorted
  BY InvFacts
<1>3. NewNode \in Nodes \ live /\ live \subseteq Nodes
  BY <1>1, <1>2, NewNodeIsFree DEF Shape, LinksOK
<1>4. live' = live
  BY <1>1, <1>3
<1>5. \A n \in live : key'[n] = key[n]
  BY <1>1, <1>2, <1>3 DEF OthersOK
<1>6. Shape' /\ Sorted'
  BY <1>1, <1>2, <1>4, <1>5, ShapeSame, SortedSame
<1>7. OthersOK'
  BY <1>1, <1>2 DEF OthersOK
<1>8. NoValueLost' /\ LoopOK' /\ Mergeable'
  BY <1>1, InvFacts DEF NoValueLost, LoopOK, Mergeable, Idle
<1> QED BY <1>6, <1>7, <1>8 DEF Inv

LEMMA AssignStep ==
  ASSUME Inv, NEW c \in Containers, NEW v \in Values, Assign(c, v) PROVE Inv'
<1>1. PICK n \in ToSet(index[c]) : value' = [value EXCEPT ![n] = v]
  BY DEF Assign
<1>2. /\ loop = Idle
      /\ UNCHANGED <<kind, live, key, prev, next, head, tail, index, capacity, size, loop>>
  BY DEF Assign, Ready
<1>3. OthersOK /\ Shape /\ Sorted /\ NoValueLost /\ v # MovedFrom
  BY InvFacts
<1>4. Shape' /\ Sorted'
  BY <1>2, <1>3, ShapeSame, SortedSame
<1>5. OthersOK'
  BY <1>1, <1>2, <1>3 DEF OthersOK
<1>6. NoValueLost'
  <2> SUFFICES ASSUME NEW d \in Containers, NEW m \in ToSet(index[d]), value'[m] = MovedFrom PROVE FALSE
    BY <1>2 DEF NoValueLost
  <2>1. value[m] = MovedFrom
    <3>1. m \in Nodes
      BY <1>3, ShapeOf
    <3> QED BY <1>1, <1>3, <3>1 DEF OthersOK
  <2> QED BY <1>2, <1>3, <2>1 DEF NoValueLost, Idle
<1>7. LoopOK' /\ Mergeable'
  BY <1>2, InvFacts DEF LoopOK, Mergeable, Idle
<1> QED BY <1>4, <1>5, <1>6, <1>7 DEF Inv

\* All operations that erase.
LEMMA RemovedStep ==
  ASSUME Inv, NEW c \in Containers, NEW i \in 1 .. Len(index[c]), NEW j \in i .. Len(index[c]),
         Removed(c, i, j), loop = Idle, UNCHANGED <<kind, key, value, capacity, loop>>
  PROVE  Inv'
<1>1. OthersOK /\ Shape /\ Sorted /\ NoValueLost
  BY InvFacts
<1>2. Shape' /\ Sorted'
  BY <1>1, RemovedKeeps, SortedAfterRemoved
<1>3. \A d \in Containers : ToSet(index'[d]) \subseteq ToSet(index[d])
  BY <1>1, StaysAfterRemoved
<1>4. OthersOK'
  BY <1>1 DEF OthersOK
<1>5. NoValueLost'
  BY <1>1, <1>3 DEF NoValueLost, Idle
<1>6. LoopOK' /\ Mergeable'
  BY InvFacts DEF LoopOK, Mergeable, Idle
<1> QED BY <1>2, <1>4, <1>5, <1>6 DEF Inv

LEMMA EraseIs ==
  ASSUME Inv, NEW c \in Containers, Erase(c) \/ EraseRange(c) \/ \E k \in Keys : EraseKey(c, k)
  PROVE  /\ loop = Idle /\ UNCHANGED <<kind, key, value, capacity, loop>>
         /\ \E i \in 1 .. Len(index[c]) : \E j \in i .. Len(index[c]) : Removed(c, i, j)
<1>1. Shape /\ Sorted /\ key \in [Nodes -> Nat] /\ index[c] \in Seq(Nodes) /\ Len(index[c]) \in Nat
      /\ ToSet(index[c]) = {index[c][i] : i \in 1 .. Len(index[c])}
  BY InvFacts, ShapeOf
<1>2. loop = Idle /\ UNCHANGED <<kind, key, value, capacity, loop>>
  BY DEF Erase, EraseRange, EraseKey, Ready
<1>3. \E i \in 1 .. Len(index[c]) : \E j \in i .. Len(index[c]) : Removed(c, i, j)
  <2>1. CASE Erase(c)
    <3>1. PICK n \in ToSet(index[c]) : Unlink(c, n)
      BY <2>1 DEF Erase
    <3>2. PICK i \in 1 .. Len(index[c]) : n = index[c][i]
      BY <1>1
    <3>3. Removed(c, i, i)
      BY <1>1, <3>1, <3>2, UnlinkIs
    <3>4. i \in i .. Len(index[c])
      BY <1>1
    <3> QED BY <3>3, <3>4
  <2>2. CASE EraseRange(c)
    <3>0. DOMAIN index[c] = 1 .. Len(index[c])
      BY <1>1, LenProperties
    <3>1. PICK i \in 1 .. Len(index[c]) : \E j \in i .. Len(index[c]) : UnlinkRange(c, index[c][i], At(c, j))
      BY <2>2, <3>0 DEF EraseRange
    <3>2. PICK j \in i .. Len(index[c]) : UnlinkRange(c, index[c][i], At(c, j))
      BY <3>1
    <3>3. j \in 0 .. Len(index[c])
      BY <1>1
    <3>4. At(c, j) = Entry(index[c], j + 1)
      BY <1>1, <3>3, AtIsEntry
    <3>5. Removed(c, i, j)
      BY <1>1, <3>2, <3>4, UnlinkRangeIs
    <3> QED BY <3>5
  <2>3. CASE \E k \in Keys : EraseKey(c, k)
    <3>1. PICK k \in Keys : EraseKey(c, k)
      BY <2>3
    <3>2. k \in Nat
      BY InvFacts
    <3> QED BY <1>1, <3>1, <3>2, EraseKeyIs
  <2> QED BY <2>1, <2>2, <2>3
<1> QED BY <1>2, <1>3

LEMMA EraseStep ==
  ASSUME Inv, NEW c \in Containers, Erase(c) \/ EraseRange(c) \/ \E k \in Keys : EraseKey(c, k)
  PROVE  Inv'
  BY EraseIs, RemovedStep

LEMMA ClearStep ==
  ASSUME Inv, NEW c \in Containers, Clear(c) PROVE Inv'
<1>1. loop = Idle /\ Emptied(c) /\ UNCHANGED <<kind, key, value, prev, next, capacity, loop>>
  BY DEF Clear, Ready
<1>2. OthersOK /\ Shape /\ Sorted /\ NoValueLost
  BY InvFacts
<1>3. /\ Shape' /\ Sorted'
      /\ index'[c] = <<>> /\ \A d \in Containers : d # c => index'[d] = index[d]
  BY <1>1, <1>2, EmptiedKeeps
<1>4. OthersOK'
  BY <1>1, <1>2 DEF OthersOK
<1>5. NoValueLost'
  <2>1. ToSet(<<>>) = {}
    BY DEF ToSet
  <2> QED BY <1>1, <1>2, <1>3, <2>1 DEF NoValueLost, Idle
<1>6. LoopOK' /\ Mergeable'
  BY <1>1, InvFacts DEF LoopOK, Mergeable, Idle
<1> QED BY <1>3, <1>4, <1>5, <1>6 DEF Inv

LEMMA SwapTakeStep ==
  ASSUME Inv, NEW c \in Containers, NEW d \in Containers, c # d, Swap(c, d) \/ Take(c, d) PROVE Inv'
<1>1. OthersOK /\ Shape /\ Sorted /\ NoValueLost
  BY InvFacts
<1>2. loop = Idle /\ UNCHANGED <<kind, key, value, prev, next, loop>>
  BY DEF Swap, Take, Ready
<1>3. /\ Shape' /\ Sorted'
      /\ \A e \in Containers : index'[e] = <<>> \/ \E f \in Containers : index'[e] = index[f]
  <2>1. CASE Swap(c, d)
    <3>1. /\ Shape' /\ Sorted' /\ index'[c] = index[d] /\ index'[d] = index[c]
          /\ \A e \in Containers : e \notin {c, d} => index'[e] = index[e]
      BY <1>1, <2>1, SwapKeeps
    <3> QED BY <3>1
  <2>2. CASE Take(c, d)
    <3>1. /\ Shape' /\ Sorted' /\ index'[c] = index[d] /\ index'[d] = <<>>
          /\ \A e \in Containers : e \notin {c, d} => index'[e] = index[e]
      BY <1>1, <2>2, TakeKeeps
    <3> QED BY <3>1
  <2> QED BY <2>1, <2>2
<1>4. capacity' \in [Containers -> Nat]
  <2>1. capacity \in [Containers -> Nat]
    BY <1>1 DEF OthersOK
  <2>2. CASE Swap(c, d)
    <3>1. capacity' = [capacity EXCEPT ![c] = capacity[d], ![d] = capacity[c]]
      BY <2>2 DEF Swap, Exchanged
    <3> QED BY <2>1, <3>1
  <2>3. CASE Take(c, d)
    <3>1. capacity' = [capacity EXCEPT ![c] = capacity[d], ![d] = 0]
      BY <2>3 DEF Take
    <3> QED BY <2>1, <3>1
  <2> QED BY <2>2, <2>3
<1>5. OthersOK'
  BY <1>1, <1>2, <1>4 DEF OthersOK
<1>6. NoValueLost'
  <2>1. ToSet(<<>>) = {}
    BY DEF ToSet
  <2> SUFFICES ASSUME NEW e \in Containers, NEW m \in ToSet(index'[e]), value[m] = MovedFrom PROVE FALSE
    BY <1>2 DEF NoValueLost
  <2>2. PICK f \in Containers : m \in ToSet(index[f])
    BY <1>3, <2>1
  <2> QED BY <1>1, <1>2, <2>2 DEF NoValueLost, Idle
<1>7. LoopOK' /\ Mergeable'
  BY <1>2, InvFacts DEF LoopOK, Mergeable, Idle
<1> QED BY <1>3, <1>5, <1>6, <1>7 DEF Inv

LEMMA BeginCopyStep ==
  ASSUME Inv, NEW c \in Containers, NEW d \in Containers, c # d, BeginCopy(c, d) PROVE Inv'
<1>1. /\ loop = Idle /\ Emptied(c) /\ UNCHANGED <<kind, key, value, prev, next, capacity>>
      /\ loop' = [op |-> "copy", source |-> d, target |-> c, current |-> head[d]]
  BY DEF BeginCopy, Ready
<1>2. OthersOK /\ Shape /\ Sorted /\ NoValueLost /\ Mergeable
  BY InvFacts
<1>3. /\ Shape' /\ Sorted'
      /\ index'[c] = <<>> /\ \A e \in Containers : e # c => index'[e] = index[e]
  BY <1>1, <1>2, EmptiedKeeps
<1>4. ToSet(<<>>) = {}
  BY DEF ToSet
<1>5. head[d] \in ToSet(index[d]) \cup {None} /\ head[d] \in Nodes \cup {None}
  BY <1>2, HeadInList DEF Shape, LinksOK
<1>6. OthersOK'
  BY <1>1, <1>2, <1>5 DEF OthersOK
<1>7. NoValueLost'
  BY <1>1, <1>2, <1>3, <1>4 DEF NoValueLost, Idle
<1>8. LoopOK'
  BY <1>1, <1>3, <1>4, <1>5 DEF LoopOK
<1>9. Mergeable'
  BY <1>1, <1>2 DEF Mergeable
<1> QED BY <1>3, <1>6, <1>7, <1>8, <1>9 DEF Inv

LEMMA BeginMergeStep ==
  ASSUME Inv, NEW c \in Containers, NEW d \in Containers, c # d, BeginMerge(c, d) PROVE Inv'
<1>1. /\ loop = Idle /\ ~Multi
      /\ UNCHANGED <<kind, live, key, value, prev, next, head, tail, index, capacity, size>>
      /\ loop' = [op |-> "merge", source |-> d, target |-> c, current |-> head[d]]
  BY DEF BeginMerge, Ready
<1>2. OthersOK /\ Shape /\ Sorted /\ NoValueLost /\ Mergeable
  BY InvFacts
<1>3. Shape' /\ Sorted'
  BY <1>1, <1>2, ShapeSame, SortedSame
<1>5. head[d] \in ToSet(index[d]) \cup {None} /\ head[d] \in Nodes \cup {None}
  BY <1>2, HeadInList DEF Shape, LinksOK
<1>6. OthersOK'
  BY <1>1, <1>2, <1>5 DEF OthersOK
<1>7. NoValueLost'
  BY <1>1, <1>2 DEF NoValueLost, Idle
<1>8. LoopOK'
  BY <1>1, <1>5 DEF LoopOK, Multi
<1>9. Mergeable'
  BY <1>1, <1>2 DEF Mergeable
<1> QED BY <1>3, <1>6, <1>7, <1>8, <1>9 DEF Inv

\* Where a loop that is under way stands.
LEMMA LoopFacts ==
  ASSUME Inv, loop.op # "none", loop.current # None
  PROVE  /\ loop.source \in Containers /\ loop.target \in Containers /\ loop.source # loop.target
         /\ loop.current \in ToSet(index[loop.source]) /\ loop.current \in Nodes /\ loop.current \in live
         /\ next[loop.current] \in (ToSet(index[loop.source]) \ {loop.current}) \cup {None}
         /\ next[loop.current] \in Nodes \cup {None}
         /\ loop.op \in {"merge", "drop"} => ~Multi
         /\ loop.op = "copy" /\ ~Multi =>
              \A n \in ToSet(index[loop.target]) : key[n] < key[loop.current]
<1>1. LoopOK /\ Shape
  BY InvFacts
<1>2. /\ loop.source \in Containers /\ loop.target \in Containers /\ loop.source # loop.target
      /\ loop.current \in ToSet(index[loop.source])
      /\ loop.op \in {"merge", "drop"} => ~Multi
      /\ loop.op = "copy" /\ ~Multi =>
           \A n \in ToSet(index[loop.target]) : key[n] < key[loop.current]
  BY <1>1 DEF LoopOK
<1>3. /\ loop.current \in Nodes /\ loop.current \in live
      /\ next[loop.current] \in (ToSet(index[loop.source]) \ {loop.current}) \cup {None}
  BY <1>2, NextInList
<1>4. next[loop.current] \in Nodes \cup {None}
  BY <1>1, <1>3 DEF Shape, LinksOK
<1> QED BY <1>2, <1>3, <1>4

\* A copy of a set or a map meets no key twice.
LEMMA CopyFindsNone ==
  ASSUME Inv, loop.op = "copy", loop.current # None
  PROVE  Multi \/ ~Found(loop.target, key[loop.current])
<1> DEFINE c == loop.target
           k == key[loop.current]
           s == index[c]
           p == LowerBoundIndex(c, k)
<1>1. /\ c \in Containers /\ loop.current \in Nodes
      /\ ~Multi => \A m \in ToSet(s) : key[m] < k
  BY LoopFacts
<1>2. /\ k \in Nat /\ key \in [Nodes -> Nat] /\ s \in Seq(Nodes) /\ Len(s) \in Nat
      /\ Ascending(s, key, Multi) /\ ToSet(s) = {s[m] : m \in 1 .. Len(s)}
  BY <1>1, InvFacts, ShapeOf DEF Sorted
<1> SUFFICES ASSUME ~Multi, Found(c, k) PROVE FALSE
  OBVIOUS
<1> HIDE DEF c, k
<1>3. p < Len(s) /\ key[s[p + 1]] = k /\ p \in 0 .. Len(s)
  BY <1>1, <1>2, FoundIs, LowerBoundIs
<1> HIDE DEF p, s
<1>4. p + 1 \in 1 .. Len(s)
  BY <1>2, <1>3
<1>5. k < k
  BY <1>1, <1>2, <1>3, <1>4
<1> QED BY <1>2, <1>5

LEMMA CopyNextStep == ASSUME Inv, CopyNext PROVE Inv'
<1> DEFINE n == loop.current
           c == loop.target
           d == loop.source
           new == NewNode
           k == key[n]
           i == PositionOf(c, k)
<1>1. /\ loop.op = "copy" /\ n # None /\ CanAllocate
      /\ Link(c, i) /\ key' = [key EXCEPT ![new] = k] /\ value' = [value EXCEPT ![new] = value[n]]
      /\ loop' = [loop EXCEPT !.current = next[n]] /\ kind' = kind
  BY DEF CopyNext, Construct
<1>2. OthersOK /\ Shape /\ Sorted /\ NoValueLost /\ Mergeable /\ key \in [Nodes -> Nat]
  BY InvFacts
<1>3. /\ d \in Containers /\ c \in Containers /\ d # c
      /\ n \in ToSet(index[d]) /\ n \in Nodes /\ n \in live
      /\ next[n] \in (ToSet(index[d]) \ {n}) \cup {None} /\ next[n] \in Nodes \cup {None}
      /\ ~Multi => \A m \in ToSet(index[c]) : key[m] < k
  BY <1>1, LoopFacts
<1>4. new \in Nodes \ live /\ live \subseteq Nodes /\ k \in Nat /\ new # n
  BY <1>1, <1>2, <1>3, NewNodeIsFree DEF Shape, LinksOK
<1>5. Multi \/ ~Found(c, k)
  BY <1>1, CopyFindsNone
<1>6. Fits(c, i, k)
  <2> HIDE DEF c, k
  <2> QED BY <1>3, <1>4, <1>5, PositionFits
<1>7. key' \in [Nodes -> Nat] /\ key'[NewNode] = k /\ \A m \in live : key'[m] = key[m]
  BY <1>1, <1>2, <1>4
<1> HIDE DEF i, c, d, k, n
<1>8. /\ Shape' /\ Sorted' /\ capacity' \in [Containers -> Nat]
      /\ ToSet(index'[c]) = ToSet(index[c]) \cup {new}
      /\ \A e \in Containers : e # c => index'[e] = index[e]
  BY <1>1, <1>3, <1>4, <1>6, <1>7, LinkStep
<1> HIDE DEF new
<1>9. OthersOK'
  <2>1. key' \in [Nodes -> Keys \cup {MovedFrom}] /\ value' \in [Nodes -> Values \cup {MovedFrom}]
    BY <1>1, <1>2, <1>3, <1>4 DEF OthersOK, k
  <2> QED BY <1>1, <1>2, <1>3, <1>8, <2>1 DEF OthersOK
<1>10. NoValueLost'
  <2> SUFFICES ASSUME NEW e \in Containers, NEW m \in ToSet(index'[e]), value'[m] = MovedFrom PROVE FALSE
    BY DEF NoValueLost
  <2>1. CASE m = new
    <3>1. value[n] = MovedFrom
      BY <1>1, <1>2, <1>4, <2>1 DEF OthersOK
    <3> QED BY <1>1, <1>2, <1>3, <3>1 DEF NoValueLost
  <2>2. CASE m # new
    <3>1. m \in ToSet(index[e])
      BY <1>8, <2>2
    <3>2. value[m] = MovedFrom
      BY <1>1, <1>2, <2>2 DEF OthersOK
    <3> QED BY <1>1, <1>2, <3>1, <3>2 DEF NoValueLost
  <2> QED BY <2>1, <2>2
<1>11. LoopOK'
  <2>1. /\ loop'.op = "copy" /\ loop'.source = d /\ loop'.target = c /\ loop'.current = next[n]
    BY <1>1, <1>2 DEF OthersOK, c, d, n
  <2>2. next[n] \in ToSet(index'[d]) \cup {None}
    BY <1>3, <1>8
  <2>3. ASSUME ~Multi, next[n] # None, NEW m \in ToSet(index'[c]) PROVE key'[m] < key'[next[n]]
    <3>1. key[n] < key[next[n]]
      BY <1>3, <2>3, NextInList
    <3>2. next[n] \in live /\ next[n] \in Nodes
      BY <1>2, <1>3, <1>4, <2>3, ShapeOf
    <3>3. key'[next[n]] = key[next[n]] /\ key[next[n]] \in Nat
      BY <1>2, <1>7, <3>2
    <3>4. CASE m = new
      BY <1>7, <3>1, <3>3, <3>4 DEF k, new
    <3>5. CASE m # new
      <4>1. m \in ToSet(index[c]) /\ m \in live
        BY <1>2, <1>3, <1>8, <2>3, <3>5, ShapeOf
      <4>2. key[m] < k /\ key'[m] = key[m] /\ key[m] \in Nat /\ k = key[n]
        BY <1>2, <1>3, <1>4, <1>7, <2>3, <4>1 DEF k
      <4> QED BY <1>4, <3>1, <3>3, <4>2
    <3> QED BY <3>4, <3>5
  <2>4. Multi' = Multi
    BY <1>1 DEF Multi
  <2> QED BY <1>3, <2>1, <2>2, <2>3, <2>4 DEF LoopOK
<1>12. Mergeable'
  BY <1>1, <1>2 DEF Mergeable
<1> QED BY <1>8, <1>9, <1>10, <1>11, <1>12 DEF Inv

LEMMA MergeSkipStep == ASSUME Inv, MergeSkip PROVE Inv'
<1>1. /\ loop.op = "merge" /\ loop.current # None
      /\ loop' = [loop EXCEPT !.current = next[loop.current]]
      /\ UNCHANGED <<kind, live, key, value, prev, next, head, tail, index, capacity, size>>
  BY DEF MergeSkip
<1>2. OthersOK /\ Shape /\ Sorted /\ NoValueLost /\ Mergeable
  BY InvFacts
<1>3. /\ loop.source \in Containers /\ loop.target \in Containers /\ loop.source # loop.target
      /\ next[loop.current] \in ToSet(index[loop.source]) \cup {None}
      /\ next[loop.current] \in Nodes \cup {None} /\ ~Multi
  BY <1>1, LoopFacts
<1>4. Shape' /\ Sorted'
  BY <1>1, <1>2, ShapeSame, SortedSame
<1>5. OthersOK'
  BY <1>1, <1>2, <1>3 DEF OthersOK
<1>6. /\ loop'.op = "merge" /\ loop'.source = loop.source /\ loop'.target = loop.target
      /\ loop'.current = next[loop.current]
  BY <1>1, <1>2 DEF OthersOK
<1>7. NoValueLost'
  BY <1>1, <1>2 DEF NoValueLost
<1>8. LoopOK'
  BY <1>1, <1>3, <1>6 DEF LoopOK, Multi
<1>9. Mergeable'
  BY <1>1, <1>2 DEF Mergeable
<1> QED BY <1>4, <1>5, <1>7, <1>8, <1>9 DEF Inv

\* What a merge leaves behind in a set is the key and the value, in a map the key.
LEMMA ShellIs ==
  ASSUME Inv, ~Multi, NEW n \in Nodes
  PROVE  /\ Shell(n).key = key[n]
         /\ Shell(n).value = IF IsMap THEN MovedFrom ELSE value[n]
<1>1. Shell(n).key = (IF KeysMove /\ ~IsMap THEN MovedFrom ELSE key[n])
      /\ Shell(n).value = (IF IsMap THEN MovedFrom ELSE value[n])
  BY DEF Shell
<1>2. ~(KeysMove /\ ~IsMap)
  BY InvFacts DEF Mergeable, OthersOK, Multi, IsMap
<1> QED BY <1>1, <1>2

\* The exception in a merge of sets is without consequences.
LEMMA MergeFailsIs ==
  ASSUME Inv, MergeFails PROVE UNCHANGED <<kind, key, value, index>>
<1> DEFINE n == loop.current
<1>1. /\ GrowthFailsInMerge \/ ~IsMap
      /\ loop.op = "merge" /\ n # None
      /\ key' = [key EXCEPT ![n] = Shell(n).key] /\ value' = [value EXCEPT ![n] = Shell(n).value]
      /\ UNCHANGED <<kind, index>>
  BY DEF MergeFails
<1>2. OthersOK /\ Mergeable
  BY InvFacts
<1>3. n \in Nodes /\ ~Multi
  BY <1>1, LoopFacts
<1>4. ~IsMap
  BY <1>1, <1>2, <1>3 DEF Mergeable, OthersOK, Multi, IsMap
<1>5. Shell(n).key = key[n] /\ Shell(n).value = value[n]
  BY <1>3, <1>4, ShellIs
<1> QED BY <1>1, <1>2, <1>3, <1>5 DEF OthersOK

LEMMA MergeInsertStep == ASSUME Inv, MergeInsert PROVE Inv'
<1> DEFINE n == loop.current
           c == loop.target
           d == loop.source
           new == NewNode
           k == key[n]
           i == LowerBoundIndex(c, k)
<1>1. /\ loop.op = "merge" /\ n # None /\ CanAllocate /\ ~Found(c, k)
      /\ Link(c, i) /\ key' = [key EXCEPT ![new] = k, ![n] = Shell(n).key]
      /\ value' = [value EXCEPT ![new] = value[n], ![n] = Shell(n).value]
      /\ loop' = [loop EXCEPT !.op = "drop"] /\ kind' = kind
  BY DEF MergeInsert
<1>2. OthersOK /\ Shape /\ Sorted /\ NoValueLost /\ Mergeable /\ key \in [Nodes -> Nat]
  BY InvFacts
<1>3. /\ d \in Containers /\ c \in Containers /\ d # c
      /\ n \in ToSet(index[d]) /\ n \in Nodes /\ n \in live /\ ~Multi
  BY <1>1, LoopFacts
<1>4. new \in Nodes \ live /\ live \subseteq Nodes /\ k \in Nat /\ new # n
  BY <1>1, <1>2, <1>3, NewNodeIsFree DEF Shape, LinksOK
<1>5. Fits(c, i, k)
  <2>1. PositionOf(c, k) = i
    BY <1>3 DEF PositionOf
  <2> HIDE DEF c, k
  <2> QED BY <1>1, <1>3, <1>4, <2>1, PositionFits
<1> HIDE DEF n
<1>6. Shell(n).key = k /\ Shell(n).value = (IF IsMap THEN MovedFrom ELSE value[n])
  BY <1>3, ShellIs
<1>7. key' \in [Nodes -> Nat] /\ key'[NewNode] = k /\ \A m \in live : key'[m] = key[m]
  BY <1>1, <1>2, <1>3, <1>4, <1>6
<1> HIDE DEF i, c, d, k
<1>8. /\ Shape' /\ Sorted' /\ capacity' \in [Containers -> Nat]
      /\ ToSet(index'[c]) = ToSet(index[c]) \cup {new}
      /\ \A e \in Containers : e # c => index'[e] = index[e]
  BY <1>1, <1>3, <1>4, <1>5, <1>7, LinkStep
<1> HIDE DEF new
<1>9. OthersOK'
  <2>1. k \in Keys \cup {MovedFrom} /\ value[n] \in Values \cup {MovedFrom}
    BY <1>2, <1>3 DEF OthersOK, k
  <2>2. key' \in [Nodes -> Keys \cup {MovedFrom}]
    BY <1>1, <1>2, <1>6, <2>1 DEF OthersOK
  <2>3. Shell(n).value \in Values \cup {MovedFrom}
    BY <1>6, <2>1
  <2>4. value' \in [Nodes -> Values \cup {MovedFrom}]
    BY <1>1, <1>2, <2>1, <2>3 DEF OthersOK
  <2> QED BY <1>1, <1>2, <1>8, <2>2, <2>4 DEF OthersOK
<1>10. /\ loop'.op = "drop" /\ loop'.source = d /\ loop'.target = c /\ loop'.current = n
  BY <1>1, <1>2 DEF OthersOK, c, d, n
<1>11. NoValueLost'
  <2> SUFFICES ASSUME NEW e \in Containers, NEW m \in ToSet(index'[e]), value'[m] = MovedFrom, m # n
               PROVE  FALSE
    BY <1>10 DEF NoValueLost
  <2>1. CASE m = new
    <3>1. value[n] = MovedFrom
      BY <1>1, <1>2, <1>4, <2>1 DEF OthersOK
    <3> QED BY <1>1, <1>2, <1>3, <3>1 DEF NoValueLost
  <2>2. CASE m # new
    <3>1. m \in ToSet(index[e])
      BY <1>8, <2>2
    <3>2. value[m] = MovedFrom
      <4>1. m \in Nodes
        BY <1>2, <3>1, ShapeOf
      <4>2. value' = [value EXCEPT ![new] = value[n], ![n] = Shell(n).value] /\ DOMAIN value = Nodes
        BY <1>1, <1>2 DEF OthersOK
      <4> QED BY <2>2, <4>1, <4>2
    <3> QED BY <1>1, <1>2, <3>1, <3>2 DEF NoValueLost
  <2> QED BY <2>1, <2>2
<1>12. LoopOK'
  <2>1. n \in ToSet(index'[d])
    BY <1>3, <1>8
  <2> QED BY <1>1, <1>3, <1>10, <2>1 DEF LoopOK, Multi
<1>13. Mergeable'
  BY <1>1, <1>2 DEF Mergeable
<1> QED BY <1>8, <1>9, <1>11, <1>12, <1>13 DEF Inv

LEMMA MergeEraseStep == ASSUME Inv, MergeErase PROVE Inv'
<1> DEFINE n == loop.current
           d == loop.source
<1>1. /\ loop.op = "drop" /\ Unlink(d, n)
      /\ loop' = [loop EXCEPT !.op = "merge", !.current = next[n]]
      /\ UNCHANGED <<kind, key, value, capacity>>
  BY DEF MergeErase, MergeDrop
<1>2. OthersOK /\ Shape /\ Sorted /\ NoValueLost /\ Mergeable /\ LoopOK /\ key \in [Nodes -> Nat]
  BY InvFacts
<1>3. n # None
  BY <1>1, <1>2 DEF LoopOK
<1>4. /\ d \in Containers /\ loop.target \in Containers /\ d # loop.target
      /\ n \in ToSet(index[d]) /\ n \in Nodes /\ n \in live /\ ~Multi
      /\ next[n] \in (ToSet(index[d]) \ {n}) \cup {None} /\ next[n] \in Nodes \cup {None}
  BY <1>1, <1>3, LoopFacts
<1>5. ToSet(index[d]) = {index[d][i] : i \in 1 .. Len(index[d])} /\ Len(index[d]) \in Nat
  BY <1>2, <1>4, ShapeOf
<1>6. PICK i \in 1 .. Len(index[d]) : n = index[d][i]
  BY <1>4, <1>5
<1>7. /\ loop'.op = "merge" /\ loop'.source = d /\ loop'.target = loop.target
      /\ loop'.current = next[n]
  BY <1>1, <1>2 DEF OthersOK
<1> HIDE DEF d, n
<1>8. Removed(d, i, i) /\ i \in i .. Len(index[d])
  BY <1>1, <1>2, <1>4, <1>5, <1>6, UnlinkIs
<1>9. Shape' /\ Sorted'
  BY <1>1, <1>2, <1>4, <1>8, RemovedKeeps, SortedAfterRemoved
<1>10. /\ ToSet(index'[d]) = ToSet(index[d]) \ {n}
       /\ \A e \in Containers : e # d => index'[e] = index[e]
  <2>1. /\ ToSet(index'[d]) = ToSet(index[d]) \ {index[d][l] : l \in i .. i}
        /\ \A e \in Containers : e # d => index'[e] = index[e]
    BY <1>1, <1>2, <1>4, <1>8, StaysAfterRemoved
  <2>2. {index[d][l] : l \in i .. i} = {n}
    BY <1>6
  <2> QED BY <2>1, <2>2
<1>11. OthersOK'
  BY <1>1, <1>2, <1>4 DEF OthersOK
<1>12. NoValueLost'
  <2> SUFFICES ASSUME NEW e \in Containers, NEW m \in ToSet(index'[e]), value[m] = MovedFrom PROVE FALSE
    BY <1>1 DEF NoValueLost
  <2>1. m \in ToSet(index[e])
    BY <1>10
  <2>2. m = n
    BY <1>2, <2>1 DEF NoValueLost, n
  <2>3. e = d
    BY <1>2, <1>4, <2>1, <2>2 DEF Shape, Apart
  <2> QED BY <1>10, <2>2, <2>3
<1>13. LoopOK'
  <2>1. next[n] \in ToSet(index'[d]) \cup {None}
    BY <1>4, <1>10
  <2> QED BY <1>1, <1>4, <1>7, <2>1 DEF LoopOK, Multi
<1>14. Mergeable'
  BY <1>1, <1>2 DEF Mergeable
<1> QED BY <1>9, <1>11, <1>12, <1>13, <1>14 DEF Inv

LEMMA MergeFailsStep == ASSUME Inv, MergeFails PROVE Inv'
<1>1. /\ loop' = Idle
      /\ UNCHANGED <<kind, live, prev, next, head, tail, index, capacity, size>>
  BY DEF MergeFails
<1>2. OthersOK /\ Shape /\ Sorted /\ NoValueLost /\ Mergeable
  BY InvFacts
<1>3. loop.op = "merge"
  BY DEF MergeFails
<1>4. key' = key /\ value' = value
  BY MergeFailsIs
<1>5. Shape' /\ Sorted'
  BY <1>1, <1>2, <1>4, ShapeSame, SortedSame
<1>6. OthersOK'
  BY <1>1, <1>2, <1>4 DEF OthersOK, Idle
<1>7. NoValueLost'
  BY <1>1, <1>2, <1>3, <1>4 DEF NoValueLost
<1>8. LoopOK' /\ Mergeable'
  BY <1>1, <1>2 DEF LoopOK, Mergeable, Idle
<1> QED BY <1>5, <1>6, <1>7, <1>8 DEF Inv

LEMMA LoopEndsStep == ASSUME Inv, LoopEnds PROVE Inv'
<1>1. /\ loop.op \in {"copy", "merge"} /\ loop' = Idle
      /\ UNCHANGED <<kind, live, key, value, prev, next, head, tail, index, capacity, size>>
  BY DEF LoopEnds
<1>2. OthersOK /\ Shape /\ Sorted /\ NoValueLost /\ Mergeable
  BY InvFacts
<1>3. Shape' /\ Sorted'
  BY <1>1, <1>2, ShapeSame, SortedSame
<1>4. OthersOK'
  BY <1>1, <1>2 DEF OthersOK, Idle
<1>5. NoValueLost'
  BY <1>1, <1>2 DEF NoValueLost
<1>6. LoopOK' /\ Mergeable'
  BY <1>1, <1>2 DEF LoopOK, Mergeable, Idle
<1> QED BY <1>3, <1>4, <1>5, <1>6 DEF Inv

LEMMA StutterStep == ASSUME Inv, UNCHANGED vars PROVE Inv'
<1>1. OthersOK /\ Shape /\ Sorted /\ NoValueLost /\ LoopOK /\ Mergeable
  BY InvFacts
<1>2. UNCHANGED <<kind, live, key, value, prev, next, head, tail, index, capacity, size, loop>>
  BY DEF vars
<1>3. Shape' /\ Sorted'
  BY <1>1, <1>2, ShapeSame, SortedSame
<1>4. OthersOK' /\ NoValueLost' /\ LoopOK' /\ Mergeable'
  BY <1>1, <1>2 DEF OthersOK, NoValueLost, LoopOK, Multi, Mergeable
<1> QED BY <1>3, <1>4 DEF Inv

LEMMA InvKept == Inv /\ [Next]_vars => Inv'
<1> SUFFICES ASSUME Inv, [Next]_vars PROVE Inv'
  OBVIOUS
<1>1. CASE \E c \in Containers, k \in Keys :
             \/ \E v \in Values : Insert(c, k, v)
             \/ InsertFails(c, k)
             \/ EraseKey(c, k)
  BY <1>1, InsertStep, InsertFailsStep, EraseStep
<1>2. CASE \E c \in Containers : \E v \in Values : Assign(c, v)
  BY <1>2, AssignStep
<1>3. CASE \E c \in Containers : Erase(c) \/ EraseRange(c) \/ Clear(c)
  BY <1>3, EraseStep, ClearStep
<1>4. CASE \E c \in Containers : \E d \in Containers \ {c} :
             Swap(c, d) \/ Take(c, d) \/ BeginCopy(c, d) \/ BeginMerge(c, d)
  BY <1>4, SwapTakeStep, BeginCopyStep, BeginMergeStep
<1>5. CASE CopyNext \/ MergeSkip \/ MergeInsert \/ MergeErase \/ MergeFails \/ LoopEnds
  BY <1>5, CopyNextStep, MergeSkipStep, MergeInsertStep, MergeEraseStep, MergeFailsStep, LoopEndsStep
<1>6. CASE UNCHANGED vars
  BY <1>6, StutterStep
<1> QED BY <1>1, <1>2, <1>3, <1>4, <1>5, <1>6 DEF Next

LEMMA InvShows == Inv => ListIsIndex /\ NoValueLost
<1> SUFFICES ASSUME Inv PROVE ListIsIndex
  BY InvFacts
<1>1. OthersOK /\ Shape
  BY InvFacts
<1>2. TypeOK
  BY <1>1 DEF Shape, LinksOK, OthersOK, TypeOK
<1>3. ASSUME NEW c \in Containers
      PROVE  /\ Walk(next, head[c], None, None) = index[c]
             /\ Walk(prev, tail[c], None, None) = Reverse(index[c])
  <2> DEFINE s == index[c]
             first == head[c]
             last == tail[c]
  <2>1. /\ s \in Seq(Nodes) /\ Linked(s, first, last, next, prev)
        /\ next \in [Nodes -> Nodes \cup {None}] /\ prev \in [Nodes -> Nodes \cup {None}]
    BY <1>1, ShapeOf
  <2> HIDE DEF s, first, last
  <2>2. Walk(next, first, None, None) = s
    BY ONLY <2>1, LinkedWalks
  <2>3. Walk(prev, last, None, None) = Reverse(s)
    BY ONLY <2>1, LinkedWalksBack
  <2> QED BY <2>2, <2>3 DEF s, first, last
<1>4. ASSUME NEW c \in Containers, IsMap PROVE size[c] = Len(index[c])
  BY <1>1, <1>4 DEF Shape, Sizes
<1>5. Apart
  BY <1>1 DEF Shape
<1> QED BY <1>2, <1>3, <1>4, <1>5 DEF ListIsIndex, Apart

(* In every container of every behaviour the list, the reverse list and    *)
(* the index are the same sequence of live nodes, each live node is in one *)
(* container, a map's size is its length, and only the node that a merge   *)
(* is about to erase has lost its value (set, multiset, __node_map).       *)
(* The behaviours left out are those of set::merge with keys that change   *)
(* when they are moved from, where ListIsIndex fails (the run              *)
(* set_merge_moves_keys), and of map::merge when the index cannot grow     *)
(* after the value was moved, where NoValueLost fails.                     *)
THEOREM ListsAreIndexes == Spec /\ Mergeable => []OrderedExact
<1>1. Init /\ Mergeable => Inv
  BY InvAtStart
<1>2. Inv /\ [Next]_vars => Inv'
  BY InvKept
<1>3. Inv => OrderedExact
  BY InvShows DEF OrderedExact
<1> QED BY <1>1, <1>2, <1>3, PTL DEF Spec

-----------------------------------------------------------------------------
(* The elements of the containers, and the promise about them              *)

\* The elements of all nodes.
Elements(k, v) == {[key |-> k[n], value |-> v[n]] : n \in Nodes}

\* The elements of nodes with these keys and values.
ElementsOf(s, k, v) == [i \in DOMAIN s |-> [key |-> k[s[i]], value |-> v[s[i]]]]

AreElements(t, s, k, v) ==
  /\ t \in Seq(Elements(k, v)) /\ Len(t) = Len(s)
  /\ \A i \in 1 .. Len(s) : t[i] = [key |-> k[s[i]], value |-> v[s[i]]]

LEMMA ElementsAre ==
  ASSUME NEW s \in Seq(Nodes), NEW k, NEW v
  PROVE  AreElements(ElementsOf(s, k, v), s, k, v)
<1> DEFINE n == Len(s)
           t == ElementsOf(s, k, v)
<1>1. n \in Nat /\ DOMAIN s = 1 .. n /\ \A i \in 1 .. n : s[i] \in Nodes
  BY ElementOfSeq, LenProperties
<1>2. t = [i \in 1 .. n |-> [key |-> k[s[i]], value |-> v[s[i]]]]
  BY <1>1 DEF ElementsOf
<1>3. \A i \in 1 .. n : [key |-> k[s[i]], value |-> v[s[i]]] \in Elements(k, v)
  BY <1>1 DEF Elements
<1> HIDE DEF n, t
<1>4. t \in [1 .. n -> Elements(k, v)]
  BY <1>2, <1>3
<1>5. t \in Seq(Elements(k, v)) /\ Len(t) = n
  BY <1>1, <1>4, SeqDef, LenProperties
<1> QED BY <1>2, <1>5 DEF n, t, AreElements

IsElement(e, n, k, v) == e = [key |-> k[n], value |-> v[n]]

\* On the nodes of s nothing changes.
Same(s, k, v, k2, v2) == \A m \in ToSet(s) : k2[m] = k[m] /\ v2[m] = v[m]

LEMMA SameElements ==
  ASSUME NEW s, NEW k, NEW v, NEW k2, NEW v2, Same(s, k, v, k2, v2)
  PROVE  ElementsOf(s, k2, v2) = ElementsOf(s, k, v)
<1>1. \A i \in DOMAIN s : s[i] \in ToSet(s)
  BY DEF ToSet
<1>2. \A i \in DOMAIN s : k2[s[i]] = k[s[i]] /\ v2[s[i]] = v[s[i]]
  BY <1>1 DEF Same
<1> QED BY <1>2 DEF ElementsOf

LEMMA InsertionIs ==
  ASSUME NEW s, NEW i \in Nat, NEW e
  PROVE  Promise!Insertion(s, i, e) = InsertAt(s, i + 1, e)
<1>1. (i + 1) - 1 = i
  OBVIOUS
<1> QED BY <1>1 DEF Promise!Insertion, InsertAt

LEMMA ElementsInserted ==
  ASSUME NEW s \in Seq(Nodes), NEW k, NEW v, NEW k2, NEW v2,
         Same(s, k, v, k2, v2),
         NEW p \in 1 .. Len(s) + 1, NEW n \in Nodes, NEW e, IsElement(e, n, k2, v2)
  PROVE  ElementsOf(InsertAt(s, p, n), k2, v2) = InsertAt(ElementsOf(s, k, v), p, e)
<1> DEFINE i == p - 1
<1>1. i \in 0 .. Len(s) /\ p = i + 1
  BY LenProperties
<1>2. e = [key |-> k2[n], value |-> v2[n]]
  BY DEF IsElement
<1> HIDE DEF i
<1>3. ElementsOf(s, k2, v2) = ElementsOf(s, k, v)
  BY SameElements
<1> DEFINE t == ElementsOf(s, k, v)
           l == Len(s)
           s2 == InsertAt(s, i + 1, n)
           a == ElementsOf(s2, k2, v2)
           b == InsertAt(t, i + 1, e)
<1>4. l \in Nat /\ i \in 0 .. l /\ i + 1 \in 1 .. l + 1 /\ e \in Elements(k2, v2)
  BY <1>1, <1>2, LenProperties DEF Elements
<1>5. t = ElementsOf(s, k2, v2)
  BY <1>3
<1>6. /\ t \in Seq(Elements(k2, v2)) /\ Len(t) = l
      /\ \A j \in 1 .. l : t[j] = [key |-> k2[s[j]], value |-> v2[s[j]]]
  <2> HIDE DEF t
  <2>1. AreElements(ElementsOf(s, k2, v2), s, k2, v2)
    BY ElementsAre
  <2> QED BY <1>5, <2>1 DEF AreElements
<1> HIDE DEF t
<1>7. /\ s2 \in Seq(Nodes) /\ Len(s2) = l + 1
      /\ \A j \in 1 .. i : s2[j] = s[j]
      /\ s2[i + 1] = n
      /\ \A j \in i + 2 .. l + 1 : s2[j] = s[j - 1]
  <2>1. IsInserted(InsertAt(s, i + 1, n), Nodes, s, i, n)
    BY <1>1, InsertAtIs
  <2> QED BY <2>1 DEF IsInserted
<1>8. /\ b \in Seq(Elements(k2, v2)) /\ Len(b) = l + 1
      /\ \A j \in 1 .. i : b[j] = t[j]
      /\ b[i + 1] = e
      /\ \A j \in i + 2 .. l + 1 : b[j] = t[j - 1]
  <2>1. t \in Seq(Elements(k2, v2)) /\ i \in 0 .. Len(t) /\ e \in Elements(k2, v2)
    BY <1>4, <1>6
  <2>2. IsInserted(InsertAt(t, i + 1, e), Elements(k2, v2), t, i, e)
    BY ONLY <2>1, InsertAtIs
  <2> QED BY <1>6, <2>2 DEF IsInserted
<1> HIDE DEF s2, b
<1>9. /\ a \in Seq(Elements(k2, v2)) /\ Len(a) = l + 1
      /\ \A j \in 1 .. l + 1 : a[j] = [key |-> k2[s2[j]], value |-> v2[s2[j]]]
  <2>1. AreElements(ElementsOf(s2, k2, v2), s2, k2, v2)
    BY <1>7, ElementsAre
  <2> QED BY <1>7, <2>1 DEF AreElements
<1> HIDE DEF a, l
<1>10. ASSUME NEW j \in 1 .. l + 1 PROVE a[j] = b[j]
  <2>1. CASE j \in 1 .. i
    <3>1. j \in 1 .. l
      BY <1>4, <2>1
    <3>2. b[j] = t[j] /\ s2[j] = s[j]
      BY <1>7, <1>8, <2>1
    <3> QED BY <1>6, <1>9, <3>1, <3>2
  <2>2. CASE j = i + 1
    <3>1. b[j] = e /\ s2[j] = n
      BY <1>7, <1>8, <2>2
    <3> QED BY <1>2, <1>9, <3>1
  <2>3. CASE j \in i + 2 .. l + 1
    <3>1. j - 1 \in 1 .. l
      BY <1>4, <2>3
    <3>2. b[j] = t[j - 1] /\ s2[j] = s[j - 1]
      BY <1>7, <1>8, <2>3
    <3>3. t[j - 1] = [key |-> k2[s[j - 1]], value |-> v2[s[j - 1]]]
      BY <1>6, <3>1
    <3>4. a[j] = [key |-> k2[s2[j]], value |-> v2[s2[j]]]
      BY <1>9
    <3> QED BY <3>2, <3>3, <3>4
  <2> QED BY <1>4, <2>1, <2>2, <2>3
<1>11. a = b
  BY ONLY <1>8, <1>9, <1>10, SeqEqual
<1> QED BY <1>1, <1>11 DEF a, b, s2, t

LEMMA ElementsWithout ==
  ASSUME NEW s \in Seq(Nodes), NEW k, NEW v,
         NEW i \in 1 .. Len(s), NEW j \in i .. Len(s)
  PROVE  ElementsOf(Without(s, i - 1, j), k, v) = Without(ElementsOf(s, k, v), i - 1, j)
<1> DEFINE t == ElementsOf(s, k, v)
           l == Len(s)
           h == i - 1
           w == Without(s, h, j)
           a == ElementsOf(w, k, v)
           b == Without(t, h, j)
<1>1. l \in Nat /\ h \in Nat /\ j \in Nat /\ h <= j /\ j <= l
  BY LenProperties
<1>2. /\ t \in Seq(Elements(k, v)) /\ Len(t) = l
      /\ \A m \in 1 .. l : t[m] = [key |-> k[s[m]], value |-> v[s[m]]]
  BY ElementsAre DEF AreElements
<1> HIDE DEF t, h
<1> DEFINE q == j
<1>3. h \in Nat /\ q \in Nat /\ h <= q /\ q <= Len(s) /\ q <= Len(t)
  BY <1>1, <1>2
<1> HIDE DEF q
<1>4. IsWithout(Without(s, h, q), Nodes, s, h, q)
  BY ONLY s \in Seq(Nodes), <1>3, WithoutIs
<1>5. IsWithout(Without(t, h, q), Elements(k, v), t, h, q)
  <2>1. t \in Seq(Elements(k, v))
    BY <1>2
  <2> QED BY ONLY <2>1, <1>3, WithoutIs
<1>6. /\ w \in Seq(Nodes) /\ Len(w) = l - (j - h)
      /\ \A m \in 1 .. h : w[m] = s[m]
      /\ \A m \in h + 1 .. l - (j - h) : w[m] = s[m + (j - h)]
  BY ONLY <1>4 DEF IsWithout, w, l, q
<1>7. /\ b \in Seq(Elements(k, v)) /\ Len(b) = l - (j - h)
      /\ \A m \in 1 .. h : b[m] = t[m]
      /\ \A m \in h + 1 .. l - (j - h) : b[m] = t[m + (j - h)]
  BY ONLY <1>2, <1>5 DEF IsWithout, b, q
<1> HIDE DEF w, b, l
<1>8. /\ a \in Seq(Elements(k, v)) /\ Len(a) = l - (j - h)
      /\ \A m \in 1 .. l - (j - h) : a[m] = [key |-> k[w[m]], value |-> v[w[m]]]
  <2>1. AreElements(ElementsOf(w, k, v), w, k, v)
    BY <1>6, ElementsAre
  <2> QED BY <1>6, <2>1 DEF AreElements
<1> HIDE DEF a
<1>9. ASSUME NEW m \in 1 .. l - (j - h) PROVE a[m] = b[m]
  <2>1. CASE m \in 1 .. h
    <3>1. m \in 1 .. l
      BY <1>1, <2>1
    <3>2. b[m] = t[m] /\ w[m] = s[m]
      BY <1>6, <1>7, <2>1
    <3> QED BY <1>2, <1>8, <3>1, <3>2
  <2>2. CASE m \in h + 1 .. l - (j - h)
    <3>1. m + (j - h) \in 1 .. l
      BY <1>1, <2>2
    <3>2. b[m] = t[m + (j - h)] /\ w[m] = s[m + (j - h)]
      BY <1>6, <1>7, <2>2
    <3> QED BY <1>2, <1>8, <3>1, <3>2
  <2> QED BY <1>1, <2>1, <2>2
<1>10. a = b
  BY ONLY <1>7, <1>8, <1>9, SeqEqual
<1> QED BY <1>10 DEF a, b, w, t, h

LEMMA ContentsAre ==
  /\ contents = [c \in Containers |-> ElementsOf(index[c], key, value)]
  /\ contents' = [c \in Containers |-> ElementsOf(index'[c], key', value')]
  BY DEF contents, ElementsOf

LEMMA ContentsOf ==
  ASSUME Inv, NEW c \in Containers
  PROVE  /\ index[c] \in Seq(Nodes) /\ contents[c] = ElementsOf(index[c], key, value)
         /\ Len(contents[c]) = Len(index[c]) /\ DOMAIN contents[c] = 1 .. Len(index[c])
         /\ \A i \in 1 .. Len(index[c]) :
              contents[c][i] = [key |-> key[index[c][i]], value |-> value[index[c][i]]]
<1>1. /\ index[c] \in Seq(Nodes) /\ key \in [Nodes -> Nat] /\ value \in [Nodes -> Nat]
      /\ Len(index[c]) \in Nat
  BY InvFacts, ShapeOf
<1> DEFINE s == index[c]
           t == contents[c]
<1>2. t = ElementsOf(s, key, value)
  BY ContentsAre
<1> HIDE DEF s, t
<1>3. s \in Seq(Nodes)
  BY <1>1 DEF s
<1>4. AreElements(t, s, key, value)
  BY <1>2, <1>3, ElementsAre
<1>5. t \in Seq(Elements(key, value)) /\ Len(t) = Len(s)
      /\ \A i \in 1 .. Len(s) : t[i] = [key |-> key[s[i]], value |-> value[s[i]]]
  BY <1>4 DEF AreElements
<1>6. DOMAIN t = 1 .. Len(s)
  BY <1>5, LenProperties
<1> QED BY <1>2, <1>3, <1>5, <1>6 DEF s, t

\* A step that changes the elements of one container.
LEMMA OneChanged ==
  ASSUME NEW c \in Containers, NEW s, ElementsOf(index'[c], key', value') = s,
         \A d \in Containers :
           d # c => index'[d] = index[d] /\ Same(index[d], key, value, key', value')
  PROVE  contents' = [contents EXCEPT ![c] = s]
<1>1. ASSUME NEW d \in Containers, d # c PROVE contents'[d] = contents[d]
  <2>1. ElementsOf(index[d], key', value') = ElementsOf(index[d], key, value)
    BY <1>1, SameElements
  <2> QED BY <1>1, <2>1, ContentsAre
<1>2. contents'[c] = s
  BY ContentsAre
<1>3. DOMAIN contents = Containers /\ contents' = [d \in Containers |-> contents'[d]]
  BY ContentsAre
<1>4. contents = [d \in Containers |-> contents[d]]
  BY ContentsAre
<1> QED BY <1>1, <1>2, <1>3, <1>4

LEMMA NothingChanged ==
  ASSUME kind' = kind,
         \A d \in Containers : index'[d] = index[d] /\ Same(index[d], key, value, key', value')
  PROVE  UNCHANGED <<Multi, contents>>
<1>1. ASSUME NEW d \in Containers PROVE contents'[d] = contents[d]
  <2>1. ElementsOf(index[d], key', value') = ElementsOf(index[d], key, value)
    BY SameElements
  <2> QED BY <2>1, ContentsAre
<1>2. contents' = [d \in Containers |-> contents'[d]] /\ contents = [d \in Containers |-> contents[d]]
  BY ContentsAre
<1>3. contents' = contents
  BY <1>1, <1>2
<1> QED BY <1>3 DEF Multi

\* All operations that change no element that there is.
LEMMA LiveSame ==
  ASSUME Inv, \A n \in live : key'[n] = key[n] /\ value'[n] = value[n], NEW d \in Containers
  PROVE  Same(index[d], key, value, key', value')
  BY InvFacts, ShapeOf DEF Same

\* Where a key is inserted, and that it may be.
LEMMA PositionBelongs ==
  ASSUME Inv, NEW c \in Containers, NEW k \in Nat, Multi \/ ~Found(c, k)
  PROVE  /\ PositionOf(c, k) \in 0 .. Len(contents[c])
         /\ Promise!Belongs(contents[c], k, PositionOf(c, k))
         /\ Multi \/ ~Promise!HasKey(contents[c], k)
<1> DEFINE s == index[c]
           t == contents[c]
           i == PositionOf(c, k)
<1>1. /\ key \in [Nodes -> Nat] /\ s \in Seq(Nodes) /\ Ascending(s, key, Multi) /\ Len(s) \in Nat
  BY InvFacts, ShapeOf DEF Sorted
<1>2. \A j \in 1 .. Len(s) : key[s[j]] \in Nat
  BY <1>1, ElementOfSeq
<1>3. /\ Len(t) = Len(s) /\ DOMAIN t = 1 .. Len(s)
      /\ \A j \in 1 .. Len(s) : t[j].key = key[s[j]]
  <2>1. /\ Len(t) = Len(s) /\ DOMAIN t = 1 .. Len(s)
        /\ \A j \in 1 .. Len(s) : t[j] = [key |-> key[s[j]], value |-> value[s[j]]]
    BY ContentsOf, Zenon
  <2> HIDE DEF s, t
  <2> QED BY <2>1
<1>4. ~Found(c, k) => \A m \in 1 .. Len(s) : key[s[m]] # k
  BY <1>1, FoundIs
<1>5. /\ i \in 0 .. Len(s)
      /\ \A j \in 1 .. i : key[s[j]] <= k
      /\ \A j \in i + 1 .. Len(s) : k < key[s[j]]
  <2>1. CASE Multi
    <3> DEFINE p == UpperBoundIndex(c, k)
    <3>1. /\ p \in 0 .. Len(s)
          /\ \A m \in 1 .. p : key[s[m]] <= k
          /\ \A m \in p + 1 .. Len(s) : k < key[s[m]]
      BY <1>1, UpperBoundIs
    <3>2. i = p
      BY <2>1 DEF PositionOf
    <3> HIDE DEF p, i, s
    <3> QED BY <3>1, <3>2
  <2>2. CASE ~Multi
    <3> HIDE DEF i
    <3>1. Fits(c, i, k)
      BY PositionFits DEF i
    <3>2. /\ i \in 0 .. Len(s)
          /\ \A j \in 1 .. i : key[s[j]] < k
          /\ \A j \in i + 1 .. Len(s) : k < key[s[j]]
      BY <2>2, <3>1 DEF Fits
    <3>3. ASSUME NEW j \in 1 .. i PROVE key[s[j]] <= k
      <4>1. key[s[j]] < k /\ j \in 1 .. Len(s)
        BY <1>1, <3>2
      <4> QED BY <1>2, <4>1
    <3> QED BY <3>2, <3>3
  <2> QED BY <2>1, <2>2
<1> HIDE DEF i, s, t
<1>6. Promise!Belongs(t, k, i)
  <2>1. ASSUME NEW j \in 1 .. i PROVE t[j].key <= k
    <3>1. j \in 1 .. Len(s)
      BY <1>1, <1>5
    <3> QED BY <1>3, <1>5, <3>1
  <2>2. ASSUME NEW j \in i + 1 .. Len(t) PROVE k < t[j].key
    <3>1. j \in 1 .. Len(s) /\ j \in i + 1 .. Len(s)
      BY <1>1, <1>3, <1>5
    <3> QED BY <1>3, <1>5, <3>1
  <2> QED BY <2>1, <2>2 DEF Promise!Belongs
<1>7. Multi \/ ~Promise!HasKey(t, k)
  BY <1>3, <1>4 DEF Promise!HasKey
<1> QED BY <1>3, <1>5, <1>6, <1>7 DEF i, s, t

\* What linking a new node does to the elements of the container.
LEMMA LinkElements ==
  ASSUME Inv, Inv', NEW c \in Containers, CanAllocate, NEW k \in Nat, Multi \/ ~Found(c, k),
         Link(c, PositionOf(c, k)), kind' = kind, key'[NewNode] = k,
         Same(index[c], key, value, key', value')
  PROVE  /\ ElementsOf(index'[c], key', value')
              = Promise!Insertion(contents[c], PositionOf(c, k), [key |-> k, value |-> value'[NewNode]])
         /\ \A d \in Containers : d # c => index'[d] = index[d]
<1> DEFINE i == PositionOf(c, k)
           s == index[c]
           n == NewNode
<1>1. /\ key \in [Nodes -> Nat] /\ value \in [Nodes -> Nat] /\ s \in Seq(Nodes) /\ Shape
      /\ contents[c] = ElementsOf(s, key, value)
  BY InvFacts, ContentsOf
<1>2. i \in 0 .. Len(s)
  <2>1. i \in 0 .. Len(contents[c])
    BY PositionBelongs
  <2> QED BY <2>1, ContentsOf
<1>3. key' \in [Nodes -> Nat] /\ value' \in [Nodes -> Nat]
  <2>1. (key \in [Nodes -> Nat] /\ value \in [Nodes -> Nat])'
    BY InvFacts, PTL
  <2> QED BY <2>1
<1> HIDE DEF i
<1>4. /\ index'[c] = InsertAt(s, i + 1, n) /\ n \in Nodes
      /\ \A d \in Containers : d # c => index'[d] = index[d]
  BY <1>1, <1>2, LinkKeeps DEF i
<1> HIDE DEF s, n
<1>5. Same(s, key, value, key', value')
  BY DEF s
<1>6. ElementsOf(InsertAt(s, i + 1, n), key', value')
        = InsertAt(ElementsOf(s, key, value), i + 1, [key |-> key'[n], value |-> value'[n]])
  <2> DEFINE k2 == key'
             v2 == value'
             e == [key |-> k2[n], value |-> v2[n]]
             p == i + 1
  <2>1. Same(s, key, value, k2, v2) /\ s \in Seq(Nodes) /\ n \in Nodes /\ IsElement(e, n, k2, v2)
    BY <1>1, <1>4, <1>5 DEF IsElement
  <2>2. p \in 1 .. Len(s) + 1
    BY <1>1, <1>2, LenProperties
  <2> HIDE DEF k2, v2, e, p
  <2>3. ElementsOf(InsertAt(s, p, n), k2, v2) = InsertAt(ElementsOf(s, key, value), p, e)
    BY ONLY <2>1, <2>2, ElementsInserted
  <2> QED BY <2>3 DEF k2, v2, e, p
<1>7. i \in Nat
  BY <1>1, <1>2, LenProperties
<1> QED BY <1>1, <1>4, <1>6, <1>7, InsertionIs DEF i, n


\* Nodes that leave a container take their elements with them.
LEMMA ErasePromised ==
  ASSUME Inv, NEW c \in Containers, NEW i \in 1 .. Len(index[c]), NEW j \in i .. Len(index[c]),
         Removed(c, i, j), UNCHANGED <<kind, key, value>>
  PROVE  i \in DOMAIN contents[c] /\ j \in i .. Len(contents[c]) /\ Promise!Erase(c, i, j)
<1> DEFINE s == index[c]
           t == contents[c]
<1>1. /\ s \in Seq(Nodes) /\ t = ElementsOf(s, key, value)
      /\ Len(t) = Len(s) /\ DOMAIN t = 1 .. Len(s)
  BY ContentsOf
<1>2. index'[c] = Without(s, i - 1, j) /\ \A d \in Containers : d # c => index'[d] = index[d]
  BY InvFacts, RemovedKeeps
<1>3. ElementsOf(Without(s, i - 1, j), key, value) = Without(t, i - 1, j)
  BY <1>1, ElementsWithout
<1>4. \A d \in Containers : Same(index[d], key, value, key', value')
  BY DEF Same
<1> HIDE DEF s, t
<1>5. ElementsOf(index'[c], key', value') = Without(t, i - 1, j)
  BY <1>2, <1>3
<1>6. contents' = [contents EXCEPT ![c] = Without(t, i - 1, j)]
  BY <1>2, <1>4, <1>5, OneChanged
<1>7. Promise!Erase(c, i, j)
  BY <1>6 DEF Promise!Erase, Without, t
<1> QED BY <1>1, <1>7 DEF s, t

\* clear, and the beginning of a copy.
LEMMA EmptiedPromised ==
  ASSUME Inv, NEW c \in Containers, Emptied(c), UNCHANGED <<kind, key, value, prev, next>>,
         contents' # contents
  PROVE  1 \in DOMAIN contents[c] /\ Len(contents[c]) \in 1 .. Len(contents[c])
         /\ Promise!Erase(c, 1, Len(contents[c]))
<1> DEFINE t == contents[c]
           n == Len(t)
<1>1. index'[c] = <<>> /\ \A d \in Containers : d # c => index'[d] = index[d]
  BY InvFacts, EmptiedKeeps
<1>2. \A d \in Containers : Same(index[d], key, value, key', value')
  BY DEF Same
<1>3. ElementsOf(index'[c], key', value') = <<>>
  BY <1>1 DEF ElementsOf
<1>4. contents' = [contents EXCEPT ![c] = <<>>]
  BY <1>1, <1>2, <1>3, OneChanged
<1>5. t \in Seq(Elements(key, value)) /\ n \in Nat
  <2>1. index[c] \in Seq(Nodes) /\ t = ElementsOf(index[c], key, value)
    BY ContentsOf
  <2> HIDE DEF t
  <2>2. AreElements(t, index[c], key, value)
    BY <2>1, ElementsAre
  <2> QED BY <2>2, LenProperties DEF AreElements
<1>6. n # 0
  <2> SUFFICES ASSUME n = 0 PROVE FALSE
    OBVIOUS
  <2>1. t = <<>>
    <3> HIDE DEF t
    <3> QED BY <1>5, EmptySeq
  <2>2. contents = [d \in Containers |-> contents[d]]
    BY ContentsAre
  <2>3. contents' = contents
    BY <1>4, <2>1, <2>2
  <2> QED BY <2>3
<1> HIDE DEF t
<1>7. DOMAIN t = 1 .. n
  BY <1>5, LenProperties
<1>8. SubSeq(t, 1, 1 - 1) \o SubSeq(t, n + 1, Len(t)) = <<>>
  BY <1>5
<1>9. Promise!Erase(c, 1, n)
  BY <1>4, <1>8 DEF Promise!Erase, t
<1> QED BY <1>5, <1>6, <1>7, <1>9 DEF t

LEMMA SwapPromised ==
  ASSUME Inv, NEW c \in Containers, NEW d \in Containers, c # d, Swap(c, d)
  PROVE  Promise!Swap(c, d)
<1>1. /\ index'[c] = index[d] /\ index'[d] = index[c]
      /\ \A e \in Containers : e \notin {c, d} => index'[e] = index[e]
  BY InvFacts, SwapKeeps
<1>2. UNCHANGED <<key, value>>
  BY DEF Swap
<1>3. /\ contents'[c] = contents[d] /\ contents'[d] = contents[c]
      /\ \A e \in Containers : e \notin {c, d} => contents'[e] = contents[e]
  BY <1>1, <1>2, ContentsAre
<1>4. DOMAIN contents = Containers /\ contents' = [e \in Containers |-> contents'[e]]
  BY ContentsAre
<1>5. contents' = [contents EXCEPT ![c] = contents[d], ![d] = contents[c]]
  BY <1>3, <1>4
<1> QED BY <1>5 DEF Promise!Swap

LEMMA TakePromised ==
  ASSUME Inv, NEW c \in Containers, NEW d \in Containers, c # d, Take(c, d)
  PROVE  Promise!Take(c, d)
<1>1. /\ index'[c] = index[d] /\ index'[d] = <<>>
      /\ \A e \in Containers : e \notin {c, d} => index'[e] = index[e]
  BY InvFacts, TakeKeeps
<1>2. UNCHANGED <<key, value>>
  BY DEF Take
<1>3. ElementsOf(<<>>, key', value') = <<>>
  BY DEF ElementsOf
<1>4. /\ contents'[c] = contents[d] /\ contents'[d] = <<>>
      /\ \A e \in Containers : e \notin {c, d} => contents'[e] = contents[e]
  BY <1>1, <1>2, <1>3, ContentsAre
<1>5. DOMAIN contents = Containers /\ contents' = [e \in Containers |-> contents'[e]]
  BY ContentsAre
<1>6. contents' = [contents EXCEPT ![c] = contents[d], ![d] = <<>>]
  BY <1>4, <1>5
<1> QED BY <1>6 DEF Promise!Take


\* One node's value changes.
OneValue(s, i, k, v, k2, v2, x) ==
  /\ k2[s[i]] = k[s[i]] /\ v2[s[i]] = x
  /\ \A j \in 1 .. Len(s) : j # i => k2[s[j]] = k[s[j]] /\ v2[s[j]] = v[s[j]]

WithValue(t2, t, i, x) == t2 = [t EXCEPT ![i].value = x]

LEMMA ValueChanged ==
  ASSUME NEW s \in Seq(Nodes), NEW i \in 1 .. Len(s), NEW k, NEW v, NEW k2, NEW v2, NEW x,
         OneValue(s, i, k, v, k2, v2, x)
  PROVE  WithValue(ElementsOf(s, k2, v2), ElementsOf(s, k, v), i, x)
<1> DEFINE t == ElementsOf(s, k, v)
           t2 == ElementsOf(s, k2, v2)
           w == [t EXCEPT ![i].value = x]
<1>1. AreElements(t, s, k, v) /\ AreElements(t2, s, k2, v2)
  BY ElementsAre
<1> HIDE DEF t, t2
<1>2. /\ t \in Seq(Elements(k, v)) /\ t2 \in Seq(Elements(k2, v2)) /\ Len(s) \in Nat
      /\ DOMAIN t = 1 .. Len(s) /\ DOMAIN t2 = 1 .. Len(s)
      /\ \A j \in 1 .. Len(s) : t[j] = [key |-> k[s[j]], value |-> v[s[j]]]
      /\ \A j \in 1 .. Len(s) : t2[j] = [key |-> k2[s[j]], value |-> v2[s[j]]]
  BY <1>1, LenProperties DEF AreElements
<1>3. ASSUME NEW j \in 1 .. Len(s) PROVE t2[j] = w[j]
  <2>1. CASE j = i
    <3>1. w[i] = [t[i] EXCEPT !.value = x]
      BY <1>2
    <3>2. t[i] = [key |-> k[s[i]], value |-> v[s[i]]]
      BY <1>2
    <3>3. w[i] = [key |-> k[s[i]], value |-> x]
      BY <3>1, <3>2
    <3>4. t2[i] = [key |-> k[s[i]], value |-> x]
      BY <1>2 DEF OneValue
    <3> QED BY <2>1, <3>3, <3>4
  <2>2. CASE j # i
    <3>1. w[j] = t[j]
      BY <1>2, <2>2
    <3>2. t2[j] = [key |-> k[s[j]], value |-> v[s[j]]]
      BY <1>2, <2>2 DEF OneValue
    <3> QED BY <1>2, <3>1, <3>2
  <2> QED BY <2>1, <2>2
<1>4. t2 = [j \in 1 .. Len(s) |-> t2[j]] /\ w = [j \in 1 .. Len(s) |-> w[j]]
  <2>1. t2 = [j \in DOMAIN t2 |-> t2[j]]
    BY <1>2
  <2>2. w = [j \in 1 .. Len(s) |-> IF j = i THEN [t[i] EXCEPT !.value = x] ELSE t[j]]
    BY <1>2
  <2> HIDE DEF w
  <2>3. w = [j \in 1 .. Len(s) |-> w[j]]
    BY <2>2
  <2> QED BY <1>2, <2>1, <2>3
<1>5. t2 = w
  <2> HIDE DEF w
  <2> QED BY <1>3, <1>4
<1> QED BY <1>5 DEF WithValue, t, t2

LEMMA AssignPromised ==
  ASSUME Inv, NEW c \in Containers, NEW v \in Values, Assign(c, v)
  PROVE  \E i \in DOMAIN contents[c] : Promise!Assign(c, i, v)
<1> DEFINE s == index[c]
           t == contents[c]
<1>1. PICK n \in ToSet(s) : value' = [value EXCEPT ![n] = v]
  BY DEF Assign
<1>2. UNCHANGED <<key, index>>
  BY DEF Assign
<1>3. /\ s \in Seq(Nodes) /\ ToSet(s) = {s[i] : i \in 1 .. Len(s)} /\ ToSet(s) \subseteq Nodes
      /\ \A i, j \in 1 .. Len(s) : s[i] = s[j] => i = j
      /\ value \in [Nodes -> Nat] /\ Apart
  BY InvFacts, ShapeOf DEF Shape
<1>4. t = ElementsOf(s, key, value) /\ DOMAIN t = 1 .. Len(s)
  BY ContentsOf
<1>5. PICK i \in 1 .. Len(s) : n = s[i]
  BY <1>1, <1>3
<1>6. OneValue(s, i, key, value, key', value', v)
  <2> HIDE DEF s
  <2>1. value'[n] = v /\ \A m \in Nodes : m # n => value'[m] = value[m]
    BY <1>1, <1>3
  <2>2. \A j \in 1 .. Len(s) : s[j] \in Nodes /\ (j # i => s[j] # n)
    BY <1>3, <1>5
  <2> QED BY <1>2, <1>5, <2>1, <2>2 DEF OneValue
<1>7. ASSUME NEW d \in Containers, d # c PROVE Same(index[d], key, value, key', value')
  <2>1. n \notin ToSet(index[d]) /\ ToSet(index[d]) \subseteq Nodes
    BY <1>1, <1>3, <1>7, InvFacts, ShapeOf DEF Apart
  <2> QED BY <1>1, <1>2, <1>3, <2>1 DEF Same
<1> HIDE DEF s, t
<1>8. WithValue(ElementsOf(s, key', value'), t, i, v)
  <2> DEFINE k2 == key'
             v2 == value'
  <2>1. OneValue(s, i, key, value, k2, v2, v)
    BY <1>6
  <2> HIDE DEF k2, v2
  <2>2. WithValue(ElementsOf(s, k2, v2), ElementsOf(s, key, value), i, v)
    BY <1>3, <2>1, ValueChanged
  <2> QED BY <1>4, <2>2 DEF k2, v2
<1>9. ElementsOf(index'[c], key', value') = [t EXCEPT ![i].value = v]
  BY <1>2, <1>8 DEF WithValue, s
<1>10. contents' = [contents EXCEPT ![c] = [t EXCEPT ![i].value = v]]
  <2> DEFINE w == [t EXCEPT ![i].value = v]
  <2>1. ElementsOf(index'[c], key', value') = w
    BY <1>9
  <2> HIDE DEF w
  <2>2. contents' = [contents EXCEPT ![c] = w]
    BY <1>2, <1>7, <2>1, OneChanged
  <2> QED BY <2>2 DEF w
<1>11. Promise!Assign(c, i, v)
  BY <1>10 DEF Promise!Assign, t
<1> QED BY <1>4, <1>11 DEF t

\* A new node is not among those that there are.
LEMMA NewElement ==
  ASSUME Inv, Inv', NEW c \in Containers, CanAllocate, NEW k \in Nat, Multi \/ ~Found(c, k),
         Link(c, PositionOf(c, k)), kind' = kind, key'[NewNode] = k,
         \A n \in live : key'[n] = key[n] /\ value'[n] = value[n]
  PROVE  Promise!Insert(c, [key |-> k, value |-> value'[NewNode]])
<1> DEFINE t == contents[c]
           i == PositionOf(c, k)
           e == [key |-> k, value |-> value'[NewNode]]
           w == Promise!Insertion(t, i, e)
<1>1. \A d \in Containers : Same(index[d], key, value, key', value')
  BY LiveSame
<1>2. ElementsOf(index'[c], key', value') = w /\ \A d \in Containers : d # c => index'[d] = index[d]
  BY <1>1, LinkElements
<1>3. i \in 0 .. Len(t) /\ Promise!Belongs(t, k, i) /\ (Multi \/ ~Promise!HasKey(t, k))
  BY PositionBelongs
<1>4. e.key = k
  OBVIOUS
<1> HIDE DEF w, i, e, t
<1>5. contents' = [contents EXCEPT ![c] = w]
  BY <1>1, <1>2, OneChanged
<1> QED BY <1>3, <1>4, <1>5 DEF Promise!Insert, w, t, e

LEMMA InsertPromised ==
  ASSUME Inv, Inv', NEW c \in Containers, NEW k \in Keys, NEW v \in Values, Insert(c, k, v)
  PROVE  Promise!Insert(c, [key |-> k, value |-> v])
<1>1. /\ CanAllocate /\ (Multi \/ ~Found(c, k)) /\ Link(c, PositionOf(c, k)) /\ kind' = kind
      /\ key' = [key EXCEPT ![NewNode] = k] /\ value' = [value EXCEPT ![NewNode] = v]
  BY DEF Insert, Construct
<1>2. /\ k \in Nat /\ Shape /\ key \in [Nodes -> Nat] /\ value \in [Nodes -> Nat]
      /\ live \subseteq Nodes
  BY InvFacts DEF Shape, LinksOK
<1>3. NewNode \in Nodes \ live
  BY <1>1, <1>2, NewNodeIsFree
<1>4. key'[NewNode] = k /\ value'[NewNode] = v
      /\ \A n \in live : key'[n] = key[n] /\ value'[n] = value[n]
  BY <1>1, <1>2, <1>3
<1>5. Promise!Insert(c, [key |-> k, value |-> value'[NewNode]])
  BY <1>1, <1>2, <1>4, NewElement
<1> QED BY <1>4, <1>5

LEMMA CopyNextPromised ==
  ASSUME Inv, Inv', CopyNext
  PROVE  /\ loop.target \in Containers /\ loop.current \in live
         /\ Promise!Insert(loop.target, [key |-> key[loop.current], value |-> value[loop.current]])
<1> DEFINE n == loop.current
           c == loop.target
           d == loop.source
           k == key[n]
           v == value[n]
<1>1. /\ loop.op = "copy" /\ n # None /\ CanAllocate /\ Link(c, PositionOf(c, k)) /\ kind' = kind
      /\ key' = [key EXCEPT ![NewNode] = k] /\ value' = [value EXCEPT ![NewNode] = v]
  BY DEF CopyNext, Construct
<1>2. /\ c \in Containers /\ n \in live /\ n \in Nodes
      /\ ~Multi => \A m \in ToSet(index[c]) : key[m] < key[n]
  BY <1>1, LoopFacts
<1>3. /\ k \in Nat /\ Shape /\ key \in [Nodes -> Nat] /\ value \in [Nodes -> Nat]
      /\ live \subseteq Nodes
  BY <1>2, InvFacts DEF Shape, LinksOK
<1>4. NewNode \in Nodes \ live
  BY <1>1, <1>3, NewNodeIsFree
<1>5. key'[NewNode] = k /\ value'[NewNode] = v
      /\ \A m \in live : key'[m] = key[m] /\ value'[m] = value[m]
  BY <1>1, <1>3, <1>4
<1>6. Multi \/ ~Found(c, k)
  BY <1>1, CopyFindsNone
<1> HIDE DEF c, k, v, n
<1>7. Promise!Insert(c, [key |-> k, value |-> value'[NewNode]])
  BY <1>1, <1>2, <1>3, <1>5, <1>6, NewElement
<1> QED BY <1>2, <1>5, <1>7 DEF c, k, v, n


LEMMA MergeErasePromised ==
  ASSUME Inv, MergeErase
  PROVE  \E c \in Containers : \E i \in DOMAIN contents[c] : \E j \in i .. Len(contents[c]) : Promise!Erase(c, i, j)
<1> DEFINE n == loop.current
           d == loop.source
<1>1. /\ loop.op = "drop" /\ Unlink(d, n) /\ UNCHANGED <<kind, key, value>>
  BY DEF MergeErase, MergeDrop
<1>2. Shape /\ Sorted /\ LoopOK /\ key \in [Nodes -> Nat]
  BY InvFacts
<1>3. n # None
  BY <1>1, <1>2 DEF LoopOK
<1>4. d \in Containers /\ n \in ToSet(index[d])
  BY <1>1, <1>3, LoopFacts
<1>5. ToSet(index[d]) = {index[d][i] : i \in 1 .. Len(index[d])} /\ Len(index[d]) \in Nat
  BY <1>2, <1>4, ShapeOf
<1>6. PICK i \in 1 .. Len(index[d]) : n = index[d][i]
  BY <1>4, <1>5
<1> HIDE DEF d, n
<1>7. Removed(d, i, i) /\ i \in i .. Len(index[d])
  BY <1>1, <1>2, <1>4, <1>5, <1>6, UnlinkIs
<1>8. i \in DOMAIN contents[d] /\ i \in i .. Len(contents[d]) /\ Promise!Erase(d, i, i)
  BY <1>1, <1>4, <1>7, ErasePromised
<1> QED BY <1>4, <1>8

LEMMA MergeInsertPromised ==
  ASSUME Inv, Inv', MergeInsert
  PROVE  \E c \in Containers : \E d \in Containers \ {c} :
           \E i \in DOMAIN contents[d], x \in Values \cup {MovedFrom} : Promise!Transfer(c, d, i, x)
<1> DEFINE n == loop.current
           c == loop.target
           d == loop.source
           k == key[n]
           new == NewNode
           x == Shell(n).value
           p == PositionOf(c, k)
<1>1. /\ loop.op = "merge" /\ n # None /\ CanAllocate /\ ~Found(c, k) /\ kind' = kind
      /\ Link(c, LowerBoundIndex(c, k)) /\ key' = [key EXCEPT ![new] = k, ![n] = Shell(n).key]
      /\ value' = [value EXCEPT ![new] = value[n], ![n] = x]
  BY DEF MergeInsert
<1>2. /\ d \in Containers /\ c \in Containers /\ d # c
      /\ n \in ToSet(index[d]) /\ n \in Nodes /\ n \in live /\ ~Multi
  BY <1>1, LoopFacts
<1>3. /\ OthersOK /\ Shape /\ key \in [Nodes -> Nat] /\ value \in [Nodes -> Nat]
      /\ live \subseteq Nodes /\ k \in Nat
  BY <1>2, InvFacts DEF Shape, LinksOK
<1>4. new \in Nodes \ live /\ new # n
  BY <1>1, <1>2, <1>3, NewNodeIsFree
<1>5. Link(c, p)
  BY <1>1, <1>2 DEF PositionOf
<1>6. Shell(n).key = k /\ x \in Values \cup {MovedFrom}
  <2>1. Shell(n).key = k /\ x = IF IsMap THEN MovedFrom ELSE value[n]
    BY <1>2, ShellIs
  <2>2. value[n] \in Values \cup {MovedFrom}
    BY <1>2, <1>3 DEF OthersOK
  <2> QED BY <2>1, <2>2
<1> HIDE DEF x, p
<1>7. /\ key'[new] = k /\ value'[new] = value[n] /\ value'[n] = x
      /\ \A m \in live : key'[m] = key[m] /\ (m # n => value'[m] = value[m])
  BY <1>1, <1>2, <1>3, <1>4, <1>6
<1> HIDE DEF n, c, d, k, new
<1>8. ASSUME NEW b \in Containers, b # d PROVE Same(index[b], key, value, key', value')
  <2>1. n \notin ToSet(index[b]) /\ ToSet(index[b]) \subseteq live
    BY <1>2, <1>3, <1>8, ShapeOf DEF Shape, Apart
  <2> QED BY <1>7, <2>1 DEF Same
<1> DEFINE s == index[d]
           t == contents[d]
<1>9. /\ s \in Seq(Nodes) /\ ToSet(s) = {s[i] : i \in 1 .. Len(s)} /\ ToSet(s) \subseteq live
      /\ \A i, j \in 1 .. Len(s) : s[i] = s[j] => i = j
  BY <1>2, <1>3, ShapeOf
<1>10. PICK i \in 1 .. Len(s) : n = s[i]
  BY <1>2, <1>9
<1>11. t = ElementsOf(s, key, value) /\ DOMAIN t = 1 .. Len(s) /\ t[i] = [key |-> k, value |-> value[n]]
  <2>1. t = ElementsOf(s, key, value) /\ DOMAIN t = 1 .. Len(s)
    BY <1>2, ContentsOf
  <2>2. t[i] = [key |-> key[s[i]], value |-> value[s[i]]]
    BY <1>2, ContentsOf
  <2> QED BY <1>10, <2>1, <2>2 DEF k
<1> DEFINE e == t[i]
           w == Promise!Insertion(contents[c], p, e)
           u == [t EXCEPT ![i].value = x]
<1>12. ElementsOf(index'[c], key', value') = w /\ index'[d] = s
       /\ \A b \in Containers : b # c => index'[b] = index[b]
  <2>1. /\ ElementsOf(index'[c], key', value')
             = Promise!Insertion(contents[c], p, [key |-> k, value |-> value'[new]])
        /\ \A b \in Containers : b # c => index'[b] = index[b]
    <3>1. Same(index[c], key, value, key', value')
      BY <1>2, <1>8
    <3> QED BY <1>1, <1>2, <1>3, <1>5, <1>7, <3>1, LinkElements DEF p, new
  <2> QED BY <1>2, <1>7, <1>11, <2>1
<1>13. ElementsOf(s, key', value') = u
  <2> HIDE DEF s, t, u
  <2>1. OneValue(s, i, key, value, key', value', x)
    <3>1. \A j \in 1 .. Len(s) : s[j] \in live /\ (j # i => s[j] # n)
      BY <1>9, <1>10
    <3> QED BY <1>2, <1>7, <1>10, <3>1 DEF OneValue
  <2> DEFINE k2 == key'
             v2 == value'
  <2>2. OneValue(s, i, key, value, k2, v2, x)
    BY <2>1
  <2> HIDE DEF k2, v2
  <2>3. WithValue(ElementsOf(s, k2, v2), ElementsOf(s, key, value), i, x)
    BY <1>9, <2>2, ValueChanged
  <2> QED BY <1>11, <2>3 DEF WithValue, u, k2, v2
<1> HIDE DEF w, u, e, s
<1>14. /\ contents'[c] = w /\ contents'[d] = u
       /\ \A b \in Containers : b \notin {c, d} => contents'[b] = contents[b]
  <2>1. contents'[c] = w
    BY <1>2, <1>12, ContentsAre
  <2>2. contents'[d] = u
    BY <1>2, <1>12, <1>13, ContentsAre DEF s
  <2>3. ASSUME NEW b \in Containers, b \notin {c, d} PROVE contents'[b] = contents[b]
    <3>1. index'[b] = index[b] /\ Same(index[b], key, value, key', value')
      BY <1>8, <1>12, <2>3
    <3>2. ElementsOf(index[b], key', value') = ElementsOf(index[b], key, value)
      BY <3>1, SameElements
    <3> QED BY <3>1, <3>2, ContentsAre
  <2> QED BY <2>1, <2>2, <2>3
<1>15. contents' = [contents EXCEPT ![c] = w, ![d] = u]
  <2>1. DOMAIN contents = Containers /\ contents' = [b \in Containers |-> contents'[b]]
    BY ContentsAre
  <2> QED BY <1>2, <1>14, <2>1
<1>16. /\ p \in 0 .. Len(contents[c]) /\ Promise!Belongs(contents[c], k, p)
       /\ ~Promise!HasKey(contents[c], k)
  BY <1>1, <1>2, <1>3, PositionBelongs DEF p
<1>17. contents' = [contents EXCEPT ![c] = Promise!Insertion(contents[c], p, contents[d][i]),
                                    ![d] = [contents[d] EXCEPT ![i].value = x]]
  BY <1>15 DEF w, u, e
<1>18. contents[d][i].key = k
  BY <1>11
<1>19. Promise!Transfer(c, d, i, x)
  <2> HIDE DEF t
  <2>1. contents' = [contents EXCEPT ![c] = Promise!Insertion(@, p, contents[d][i]), ![d][i].value = x]
    BY <1>2, <1>17
  <2> QED BY <1>16, <1>18, <2>1 DEF Promise!Transfer
<1> QED BY <1>2, <1>6, <1>11, <1>19


\* No element has a key that was moved from.
KeysReal == \A n \in live : key[n] \in Keys

LEMMA KeysRealKept == ASSUME Inv, KeysReal, [Next]_vars PROVE KeysReal'
<1>1. /\ Shape /\ key \in [Nodes -> Nat] /\ live \subseteq Nodes
  BY InvFacts DEF Shape, LinksOK
<1>2. CanAllocate => NewNode \in Nodes \ live
  BY <1>1, NewNodeIsFree
<1>3. ASSUME key' = key, live' \subseteq live PROVE KeysReal'
  BY <1>3 DEF KeysReal
<1>4. ASSUME NEW c \in Containers, NEW k \in Keys, NEW v \in Values, Insert(c, k, v) PROVE KeysReal'
  <2>1. CanAllocate /\ live' = live \cup {NewNode} /\ key' = [key EXCEPT ![NewNode] = k]
    BY <1>4 DEF Insert, Link, Construct
  <2> QED BY <1>1, <1>2, <2>1 DEF KeysReal
<1>5. ASSUME NEW c \in Containers, NEW k \in Keys, InsertFails(c, k) PROVE KeysReal'
  <2>1. CanAllocate /\ live' = (live \cup {NewNode}) \ {NewNode} /\ key' = [key EXCEPT ![NewNode] = k]
    BY <1>5 DEF InsertFails, Deleted
  <2> QED BY <1>1, <1>2, <2>1 DEF KeysReal
<1>6. ASSUME NEW c \in Containers,
             \/ Erase(c) \/ EraseRange(c) \/ Clear(c)
             \/ \E k \in Keys : EraseKey(c, k)
             \/ \E v \in Values : Assign(c, v)
      PROVE  KeysReal'
  <2>1. key' = key /\ live' \subseteq live
    BY <1>6 DEF Erase, EraseRange, EraseKey, Clear, Assign, Unlink, UnlinkRange, Emptied
  <2> QED BY <1>3, <2>1
<1>7. ASSUME NEW c \in Containers, NEW d \in Containers,
             Swap(c, d) \/ Take(c, d) \/ BeginCopy(c, d) \/ BeginMerge(c, d)
      PROVE  KeysReal'
  <2>1. key' = key /\ live' \subseteq live
    BY <1>7 DEF Swap, Take, BeginCopy, BeginMerge, Emptied
  <2> QED BY <1>3, <2>1
<1>8. CASE CopyNext
  <2> DEFINE k == key[loop.current]
  <2>1. /\ CanAllocate /\ live' = live \cup {NewNode} /\ key' = [key EXCEPT ![NewNode] = k]
        /\ loop.op # "none" /\ loop.current # None
    BY <1>8 DEF CopyNext, Link, Construct
  <2>2. k \in Keys
    BY <2>1, LoopFacts DEF KeysReal
  <2> HIDE DEF k
  <2> QED BY <1>1, <1>2, <2>1, <2>2 DEF KeysReal
<1>9. CASE MergeInsert
  <2> DEFINE n == loop.current
             k == key[n]
  <2>1. /\ CanAllocate /\ live' = live \cup {NewNode} /\ loop.op = "merge" /\ n # None
        /\ key' = [key EXCEPT ![NewNode] = k, ![n] = Shell(n).key]
    BY <1>9 DEF MergeInsert, Link
  <2>2. n \in live /\ n \in Nodes /\ ~Multi
    BY <2>1, LoopFacts
  <2>3. k \in Keys
    BY <2>2 DEF KeysReal
  <2>4. Shell(n).key = k
    BY <2>2, ShellIs
  <2> HIDE DEF n, k
  <2> QED BY <1>1, <1>2, <2>1, <2>2, <2>3, <2>4 DEF KeysReal
<1>10. CASE MergeErase
  <2>1. key' = key /\ live' \subseteq live
    BY <1>10 DEF MergeErase, MergeDrop, Unlink
  <2> QED BY <1>3, <2>1
<1>11. CASE MergeFails
  <2>1. live' = live
    BY <1>11 DEF MergeFails
  <2> QED BY <1>3, <1>11, <2>1, MergeFailsIs
<1>12. CASE MergeSkip \/ LoopEnds \/ UNCHANGED vars
  <2>1. key' = key /\ live' = live
    BY <1>12 DEF MergeSkip, LoopEnds, vars
  <2> QED BY <1>3, <2>1
<1> QED
  BY <1>4, <1>5, <1>6, <1>7, <1>8, <1>9, <1>10, <1>11, <1>12 DEF Next

\* Every step is one of the promise, or leaves the elements as they are.
LEMMA PromiseStep ==
  ASSUME Inv, Inv', KeysReal, [Next]_vars
  PROVE  [Promise!Next]_<<Multi, contents>>
<1>1. Multi' = Multi
  BY DEF Next, vars, Multi, Insert, InsertFails, EraseKey, Assign, Erase, EraseRange, Clear, Swap,
         Take, BeginCopy, BeginMerge, CopyNext, MergeSkip, MergeInsert, MergeErase, MergeFails, LoopEnds
<1> SUFFICES ASSUME contents' # contents PROVE Promise!Next
  BY <1>1
<1> DEFINE Steps ==
      \E c \in Containers :
        \/ \E e \in Promise!Element : Promise!Insert(c, e)
        \/ \E i \in DOMAIN contents[c], v \in Values \cup {MovedFrom} : Promise!Assign(c, i, v)
        \/ \E i \in DOMAIN contents[c] : \E j \in i .. Len(contents[c]) : Promise!Erase(c, i, j)
        \/ \E d \in Containers \ {c} :
             \/ Promise!Swap(c, d)
             \/ Promise!Take(c, d)
             \/ \E i \in DOMAIN contents[d], v \in Values \cup {MovedFrom} : Promise!Transfer(c, d, i, v)
<1>2. Steps => Promise!Next
  BY <1>1 DEF Promise!Next
<1>3. ASSUME kind' = kind, index' = index, \A n \in live : key'[n] = key[n] /\ value'[n] = value[n]
      PROVE  FALSE
  <2>1. \A d \in Containers : Same(index[d], key, value, key', value')
    BY <1>3, LiveSame
  <2>2. contents' = contents
    BY <1>3, <2>1, NothingChanged
  <2> QED BY <2>2
<1>4. ASSUME NEW c \in Containers, NEW k \in Keys, NEW v \in Values, Insert(c, k, v) PROVE Steps
  <2> DEFINE e == [key |-> k, value |-> v]
  <2>1. e \in Promise!Element
    BY DEF Promise!Element
  <2>2. Promise!Insert(c, e)
    BY <1>4, InsertPromised
  <2> HIDE DEF e
  <2> QED BY <2>1, <2>2
<1>5. ASSUME NEW c \in Containers, NEW k \in Keys, InsertFails(c, k) PROVE Steps
  <2>1. /\ CanAllocate /\ key' = [key EXCEPT ![NewNode] = k] /\ UNCHANGED <<kind, index, value>>
    BY <1>5 DEF InsertFails
  <2>2. key \in [Nodes -> Nat] /\ live \subseteq Nodes
    BY InvFacts DEF Shape, LinksOK
  <2>3. NewNode \notin live
    BY <2>1, <2>2, NewNodeIsFree
  <2>4. \A n \in live : key'[n] = key[n]
    BY <2>1, <2>2, <2>3
  <2> QED BY <1>3, <2>1, <2>4
<1>6. ASSUME NEW c \in Containers, Erase(c) \/ EraseRange(c) \/ \E k \in Keys : EraseKey(c, k)
      PROVE  Steps
  <2>1. PICK i \in 1 .. Len(index[c]) : \E j \in i .. Len(index[c]) : Removed(c, i, j)
    BY <1>6, EraseIs
  <2>2. PICK j \in i .. Len(index[c]) : Removed(c, i, j)
    BY <2>1
  <2>3. UNCHANGED <<kind, key, value>>
    BY <1>6, EraseIs
  <2>4. i \in DOMAIN contents[c] /\ j \in i .. Len(contents[c]) /\ Promise!Erase(c, i, j)
    BY <2>2, <2>3, ErasePromised
  <2> QED BY <2>4
<1>7. ASSUME NEW c \in Containers, Clear(c) \/ \E d \in Containers : BeginCopy(c, d) PROVE Steps
  <2>1. Emptied(c) /\ UNCHANGED <<kind, key, value, prev, next>>
    BY <1>7 DEF Clear, BeginCopy
  <2>2. 1 \in DOMAIN contents[c] /\ Len(contents[c]) \in 1 .. Len(contents[c])
        /\ Promise!Erase(c, 1, Len(contents[c]))
    BY <2>1, EmptiedPromised
  <2> QED BY <2>2
<1>8. ASSUME NEW c \in Containers, NEW v \in Values, Assign(c, v) PROVE Steps
  <2>1. \E i \in DOMAIN contents[c] : Promise!Assign(c, i, v)
    BY <1>8, AssignPromised
  <2> QED BY <2>1
<1>9. ASSUME NEW c \in Containers, NEW d \in Containers \ {c}, Swap(c, d) \/ Take(c, d) PROVE Steps
  <2>1. Promise!Swap(c, d) \/ Promise!Take(c, d)
    BY <1>9, SwapPromised, TakePromised
  <2> QED BY <2>1
<1>10. ASSUME (\E c, d \in Containers : BeginMerge(c, d)) \/ MergeSkip \/ LoopEnds \/ UNCHANGED vars
       PROVE  Steps
  <2>1. UNCHANGED <<kind, key, value, index>>
    BY <1>10 DEF BeginMerge, MergeSkip, LoopEnds, vars
  <2> QED BY <1>3, <2>1
<1>11. CASE MergeFails
  BY <1>3, <1>11, MergeFailsIs
<1>12. ASSUME CopyNext PROVE Steps
  <2> DEFINE e == [key |-> key[loop.current], value |-> value[loop.current]]
             c == loop.target
  <2>1. c \in Containers /\ loop.current \in live /\ Promise!Insert(c, e)
    BY <1>12, CopyNextPromised
  <2>2. key[loop.current] \in Keys /\ value[loop.current] \in Values \cup {MovedFrom}
    BY <2>1, InvFacts DEF KeysReal, OthersOK, Shape, LinksOK
  <2>3. e \in Promise!Element
    BY <2>2 DEF Promise!Element
  <2> HIDE DEF e, c
  <2> QED BY <2>1, <2>3
<1>13. ASSUME MergeInsert PROVE Steps
  <2>1. \E c \in Containers : \E d \in Containers \ {c} :
          \E i \in DOMAIN contents[d], v \in Values \cup {MovedFrom} : Promise!Transfer(c, d, i, v)
    BY <1>13, MergeInsertPromised
  <2> QED BY <2>1
<1>14. ASSUME MergeErase PROVE Steps
  <2>1. \E c \in Containers : \E i \in DOMAIN contents[c] : \E j \in i .. Len(contents[c]) : Promise!Erase(c, i, j)
    BY <1>14, MergeErasePromised
  <2> QED BY <2>1
<1> HIDE DEF Steps
<1> QED
  BY <1>2, <1>4, <1>5, <1>6, <1>7, <1>8, <1>9, <1>10, <1>11, <1>12, <1>13, <1>14 DEF Next

(* PromiseKept: a set, multiset, map or multimap is a sequence sorted by   *)
(* key, in which equal keys stay in the order of their insertion, and each *)
(* step of an operation, whatever allocations fail, inserts an element     *)
(* behind those that are not greater, erases a run of them, assigns a      *)
(* value, or moves one or all of them to another container.  The same      *)
(* merges are left out as above.                                           *)
THEOREM KeepsThePromise == Spec /\ Mergeable => PromiseKept
<1>1. Init /\ Mergeable => Inv /\ KeysReal
  BY InvAtStart DEF Init, KeysReal
<1>2. Inv /\ KeysReal /\ [Next]_vars => Inv' /\ KeysReal'
  BY InvKept, KeysRealKept
<1>3. Init => Promise!Init
  <2> SUFFICES ASSUME Init PROVE Promise!Init
    OBVIOUS
  <2>1. \A c \in Containers : index[c] = <<>> /\ ElementsOf(<<>>, key, value) = <<>>
    BY DEF Init, ElementsOf
  <2>2. contents = [c \in Containers |-> <<>>]
    BY <2>1, ContentsAre
  <2> QED BY <2>2 DEF Promise!Init, Multi
<1>4. Inv /\ Inv' /\ KeysReal /\ [Next]_vars => [Promise!Next]_<<Multi, contents>>
  BY PromiseStep
<1> QED BY <1>1, <1>2, <1>3, <1>4, PTL DEF Spec, PromiseKept, Promise!Spec

=============================================================================
