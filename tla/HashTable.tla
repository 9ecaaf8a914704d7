----------------------------- MODULE HashTable -----------------------------
(***************************************************************************)
(* unordered_map and unordered_multimap (include/unordered_map),           *)
(* unordered_set and unordered_multiset (include/unordered_set): an array  *)
(* of buckets, each the head of a chain of nodes, that is replaced by a    *)
(* larger one when it holds as many nodes as it has buckets.  The four     *)
(* differ in where a chain takes a new node and in what assignments do.    *)
(*                                                                         *)
(* A key is its hash value, mapped values change no structure and are left *)
(* out.  Hash functions do not throw; allocations may fail, and a copy     *)
(* then stops where it is.                                                 *)
(***************************************************************************)
EXTENDS Integers, FiniteSets, SequencesExt, Chains

CONSTANTS
  Containers,    \* the container objects
  Nodes,         \* the addresses of nodes, numbers
  None,          \* nullptr
  Keys,
  FirstBuckets,  \* of a new container (16 in the code)
  MaxBuckets     \* bound: no larger array of buckets

HashTableAssumption ==
  /\ Nodes \subseteq Nat /\ IsFiniteSet(Nodes)
  /\ None \notin Nodes \cup Containers
  /\ Keys \subseteq Nat
  /\ FirstBuckets \in 1 .. MaxBuckets /\ MaxBuckets \in Nat

VARIABLES
  kind,      \* "map", "multimap", "set" or "multiset": what is being used
  live,      \* SUBSET Nodes  allocated
  key,       \* [Nodes -> Keys]
  next,      \* [Nodes -> Nodes \cup {None}]
  nbuckets,  \* [Containers -> Nat]
  buckets,   \* [Containers -> [0 .. nbuckets - 1 -> Nodes \cup {None}]]
  size,      \* [Containers -> Nat]
  loop,      \* a copy or an erase_if in progress: [op, source, target, at]
  unseen     \* SUBSET Nodes  history: what an erase_if has still to come to

vars == <<kind, live, key, next, nbuckets, buckets, size, loop, unseen>>

Multi == kind \in {"multimap", "multiset"}

\* An iterator: a bucket and a node of it.
Iterator == [bucket : 0 .. MaxBuckets, node : Nodes \cup {None}]
Idle == [op |-> "none", source |-> None, target |-> None, at |-> [bucket |-> 0, node |-> None]]

TypeOK ==
  /\ kind \in {"map", "multimap", "set", "multiset"}
  /\ live \subseteq Nodes
  /\ key \in [Nodes -> Keys]
  /\ next \in [Nodes -> Nodes \cup {None}]
  /\ nbuckets \in [Containers -> 1 .. MaxBuckets]
  /\ \A c \in Containers : buckets[c] \in [0 .. nbuckets[c] - 1 -> Nodes \cup {None}]
  /\ size \in [Containers -> Nat]
  /\ loop \in [op : {"none", "copy", "erase_if"}, source : Containers \cup {None},
               target : Containers \cup {None}, at : Iterator]
  /\ unseen \subseteq Nodes

-----------------------------------------------------------------------------
(* Reading the table. *)

Bucket(c, k) == k % nbuckets[c]

Chain(c, b) == Walk(next, buckets[c][b], None, None)

\* The nodes of a container in the order of its buckets.
InOrder(c) ==
  LET from[b \in 0 .. nbuckets[c]] == IF b = nbuckets[c] THEN <<>> ELSE Chain(c, b) \o from[b + 1]
  IN  from[0]
Held(c) == ToSet(InOrder(c))

\* The nodes with a key, where find looks for them.
Found(c, k) == {n \in ToSet(Chain(c, Bucket(c, k))) : key[n] = k}

\* begin() of the buckets from b on.
Begin(c, b) ==
  LET used == {i \in b .. nbuckets[c] - 1 : buckets[c][i] # None}
  IN  IF used = {} THEN [bucket |-> nbuckets[c], node |-> None]
      ELSE LET i == CHOOSE i \in used : \A j \in used : i <= j
           IN  [bucket |-> i, node |-> buckets[c][i]]

\* ++it
After(c, it) ==
  IF next[it.node] # None THEN [it EXCEPT !.node = next[it.node]]
  ELSE Begin(c, it.bucket + 1)

-----------------------------------------------------------------------------
(* Changing it. *)

CanAllocate == live # Nodes
NewNode == CHOOSE n \in Nodes \ live : \A m \in Nodes \ live : n <= m

\* MUTANT: always in front, as in unordered_multiset.
NoTail(c, k) == None

\* _equivalent_tail: the last node of the chain that has the key, if there is one.
EquivalentTail(c, k) ==
  LET same == SelectSeq(Chain(c, Bucket(c, k)), LAMBDA n : key[n] = k)
  IN  IF same = <<>> THEN None ELSE Last(same)

\* A new node goes to the front of its chain, in unordered_multimap behind the
\* nodes with an equal key.
Link(c, k) ==
  LET n == NewNode
      b == Bucket(c, k)
      after == IF kind = "multimap" THEN EquivalentTail(c, k) ELSE None
  IN  /\ live' = live \cup {n}
      /\ key' = [key EXCEPT ![n] = k]
      /\ IF after = None
         THEN /\ next' = [next EXCEPT ![n] = buckets[c][b]]
              /\ buckets' = [buckets EXCEPT ![c][b] = n]
         ELSE /\ next' = [next EXCEPT ![n] = next[after], ![after] = n]
              /\ UNCHANGED buckets
      /\ size' = [size EXCEPT ![c] = @ + 1]

Unlink(c, n) ==
  LET b == Bucket(c, key[n])
      before == {m \in ToSet(Chain(c, b)) : next[m] = n}
  IN  /\ live' = live \ {n}
      /\ IF before = {}
         THEN buckets' = [buckets EXCEPT ![c][b] = next[n]] /\ UNCHANGED next
         ELSE next' = [m \in Nodes |-> IF m \in before THEN next[n] ELSE next[m]] /\ UNCHANGED buckets
      /\ size' = [size EXCEPT ![c] = @ - 1]

Emptied(c) == [b \in 0 .. nbuckets[c] - 1 |-> None]

Exchanged(f, c, d) == [f EXCEPT ![c] = f[d], ![d] = f[c]]

-----------------------------------------------------------------------------
(* Operations. *)

Ready == loop = Idle

\* MUTANT: the bucket is taken from the old number of buckets.
OldBucket(c, k, nb) == Bucket(c, k)
NewBucket(c, k, nb) == k % nb

\* The chains of _rehash: every node is taken in order and put in front.
Rebuilt(c, nb) ==
  [b \in 0 .. nb - 1 |->
     Reverse(SelectSeq(InOrder(c), LAMBDA n : NewBucket(c, key[n], nb) = b))]

\* rehash(count), and _maybe_rehash, which comes before the allocation of a
\* node: if that fails, the larger array stays.
Rehash(c) ==
  /\ Ready \/ (loop.op = "copy" /\ loop.target = c /\ size[c] + 1 > nbuckets[c])
  /\ \E nb \in nbuckets[c] + 1 .. MaxBuckets :
       /\ loop.op = "copy" => nb = 2 * nbuckets[c]
       /\ LET chains == Rebuilt(c, nb)
              successor(n) == LET s == chains[NewBucket(c, key[n], nb)]
                                  i == CHOOSE i \in DOMAIN s : s[i] = n
                              IN  IF i = Len(s) THEN None ELSE s[i + 1]
          IN  /\ buckets' = [buckets EXCEPT ![c] =
                   [b \in 0 .. nb - 1 |-> IF chains[b] = <<>> THEN None ELSE Head(chains[b])]]
              /\ next' = [n \in Nodes |-> IF n \in Held(c) THEN successor(n) ELSE next[n]]
       /\ nbuckets' = [nbuckets EXCEPT ![c] = nb]
  /\ UNCHANGED <<kind, live, key, size, loop, unseen>>

\* _maybe_rehash has made room.
HasRoom(c) == size[c] + 1 <= nbuckets[c]

Inserts(c, k) == Multi \/ Found(c, k) = {}

\* insert, emplace, try_emplace, operator[].
Insert(c, k) ==
  /\ Ready /\ CanAllocate /\ HasRoom(c)
  /\ Inserts(c, k)
  /\ Link(c, k)
  /\ UNCHANGED <<kind, nbuckets, loop, unseen>>

\* erase(position), erase(key): the node that find finds.
Erase(c) ==
  /\ Ready
  /\ \E n \in Held(c) : Unlink(c, n)
  /\ UNCHANGED <<kind, key, nbuckets, loop, unseen>>

Clear(c) ==
  /\ Ready
  /\ live' = live \ Held(c)
  /\ buckets' = [buckets EXCEPT ![c] = Emptied(c)]
  /\ size' = [size EXCEPT ![c] = 0]
  /\ UNCHANGED <<kind, key, next, nbuckets, loop, unseen>>

\* swap, and the move assignment of all but unordered_map.
Swap(c, d) ==
  /\ Ready
  /\ buckets' = Exchanged(buckets, c, d)
  /\ nbuckets' = Exchanged(nbuckets, c, d)
  /\ size' = Exchanged(size, c, d)
  /\ UNCHANGED <<kind, live, key, next, loop, unseen>>

\* The move assignment of unordered_map: destroy, then swap.
Take(c, d) ==
  /\ Ready /\ kind = "map"
  /\ live' = live \ Held(c)
  /\ buckets' = [buckets EXCEPT ![c] = buckets[d], ![d] = Emptied(c)]
  /\ nbuckets' = Exchanged(nbuckets, c, d)
  /\ size' = [size EXCEPT ![c] = size[d], ![d] = 0]
  /\ UNCHANGED <<kind, key, next, loop, unseen>>

\* Copy assignment: destroy, and insert one element after the other.
BeginCopy(c, d) ==
  /\ Ready
  /\ live' = live \ Held(c)
  /\ buckets' = [buckets EXCEPT ![c] = Emptied(c)]
  /\ size' = [size EXCEPT ![c] = 0]
  /\ loop' = [op |-> "copy", source |-> d, target |-> c, at |-> Begin(d, 0)]
  /\ UNCHANGED <<kind, key, next, nbuckets, unseen>>

CopyNext ==
  /\ loop.op = "copy" /\ loop.at.node # None
  /\ CanAllocate /\ HasRoom(loop.target)
  /\ Link(loop.target, key[loop.at.node])
  /\ loop' = [loop EXCEPT !.at = After(loop.source, @)]
  /\ UNCHANGED <<kind, nbuckets, unseen>>

\* erase_if, and erase(first, last).
BeginEraseIf(c) ==
  /\ Ready
  /\ loop' = [op |-> "erase_if", source |-> c, target |-> None, at |-> Begin(c, 0)]
  /\ unseen' = Held(c)
  /\ UNCHANGED <<kind, live, key, next, nbuckets, buckets, size>>

\* MUTANT: the end of a chain is taken for the end of the table.
NextInChain(c, it) == [bucket |-> it.bucket, node |-> next[it.node]]

\* What erase(it) returns: found while the node still has its successor.
ErasedNext(c, it) == After(c, it)

EraseIt ==
  /\ loop.op = "erase_if" /\ loop.at.node # None
  /\ Unlink(loop.source, loop.at.node)
  /\ loop' = [loop EXCEPT !.at = ErasedNext(loop.source, @)]
  /\ unseen' = unseen \ {loop.at.node}
  /\ UNCHANGED <<kind, key, nbuckets>>

KeepIt ==
  /\ loop.op = "erase_if" /\ loop.at.node # None
  /\ loop' = [loop EXCEPT !.at = After(loop.source, @)]
  /\ unseen' = unseen \ {loop.at.node}
  /\ UNCHANGED <<kind, live, key, next, nbuckets, buckets, size>>

\* The end of the elements; a copy also ends when it cannot allocate.
LoopEnds ==
  /\ loop.op # "none"
  /\ loop.op = "erase_if" => loop.at.node = None
  /\ loop' = Idle
  /\ unseen' = {}
  /\ UNCHANGED <<kind, live, key, next, nbuckets, buckets, size>>

-----------------------------------------------------------------------------
Init ==
  /\ kind \in {"map", "multimap", "set", "multiset"}
  /\ live = {}
  /\ key = [n \in Nodes |-> CHOOSE k \in Keys : TRUE]
  /\ next = [n \in Nodes |-> None]
  /\ nbuckets = [c \in Containers |-> FirstBuckets]
  /\ buckets = [c \in Containers |-> [b \in 0 .. FirstBuckets - 1 |-> None]]
  /\ size = [c \in Containers |-> 0]
  /\ loop = Idle
  /\ unseen = {}

Next ==
  \/ \E c \in Containers :
       \/ \E k \in Keys : Insert(c, k)
       \/ Rehash(c) \/ Erase(c) \/ Clear(c) \/ BeginEraseIf(c)
       \/ \E d \in Containers \ {c} : Swap(c, d) \/ Take(c, d) \/ BeginCopy(c, d)
  \/ CopyNext \/ EraseIt \/ KeepIt \/ LoopEnds

Spec == Init /\ [][Next]_vars

-----------------------------------------------------------------------------
(* What makes it correct. *)

\* Every node that was not deleted is on one chain, once, in the bucket where it
\* is looked for, and the sizes count them.
ChainsExact ==
  /\ TypeOK
  /\ live = UNION {Held(c) : c \in Containers}
  /\ \A c, d \in Containers : c # d => Held(c) \cap Held(d) = {}
  /\ \A c \in Containers :
       /\ size[c] = Len(InOrder(c)) /\ size[c] = Cardinality(Held(c))
       /\ \A b \in 0 .. nbuckets[c] - 1 : \A n \in ToSet(Chain(c, b)) : Bucket(c, key[n]) = b

\* The nodes of an unordered_multimap with equal keys follow each other, which
\* equal_range relies on.
EquivalentTogether ==
  kind = "multimap" =>
    \A c \in Containers :
      LET s == InOrder(c)
      IN  \A i, j \in DOMAIN s : i < j /\ key[s[i]] = key[s[j]] => key[s[i + 1]] = key[s[i]]

\* An erase_if comes to every element once, whichever it erases on the way.
VisitsEach ==
  loop.op = "erase_if" =>
    IF loop.at.node = None THEN unseen = {} ELSE loop.at.node \in unseen

\* Each container is a bag of keys as in Dictionary.
Promise == INSTANCE Dictionary WITH
  multi <- Multi,
  contents <- [c \in Containers |->
                 LET held == Held(c)
                 IN  [k \in Keys |-> Cardinality({n \in held : key[n] = k})]]

PromiseKept == Promise!Spec

=============================================================================
