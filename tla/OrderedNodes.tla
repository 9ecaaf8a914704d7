---------------------------- MODULE OrderedNodes ----------------------------
(***************************************************************************)
(* set, multiset (include/set), map and multimap (include/map on           *)
(* include/__psychicstd_node_map): doubly linked nodes, and an index of    *)
(* pointers to them (include/__psychicstd_ptr_index) that is sorted by     *)
(* key, for binary searches.  The four differ in where they link a node,   *)
(* how they find it in the index again, and what merge moves.              *)
(*                                                                         *)
(* Allocation may fail; copying and merging then stop where they are.      *)
(* Comparators do not throw.                                               *)
(***************************************************************************)
EXTENDS Integers, FiniteSets, SequencesExt, Chains

CONSTANTS
  Containers,     \* the container objects
  Nodes,          \* the addresses of nodes, numbers
  None,           \* nullptr
  Keys, Values,   \* positive numbers
  FirstCapacity,  \* of an index (4 in the code)
  KeysMove,       \* does moving from a key change it?
  GrowthFailsInMerge  \* may the index fail to grow when maps merge?

MovedFrom == 0    \* a key or value that was moved from

ASSUME OrderedNodesAssumption ==
  /\ Nodes \subseteq Nat \ {0} /\ IsFiniteSet(Nodes)
  /\ None \notin Nodes \cup Containers
  /\ Keys \subseteq Nat \ {0} /\ Values \subseteq Nat \ {0}
  /\ FirstCapacity \in Nat \ {0}
  /\ KeysMove \in BOOLEAN /\ GrowthFailsInMerge \in BOOLEAN

VARIABLES
  kind,      \* "set", "multiset", "map" or "multimap": what is being used
  live,      \* SUBSET Nodes  allocated
  key,       \* [Nodes -> Keys \cup {MovedFrom}]
  value,     \* [Nodes -> Values \cup {MovedFrom}]  of the maps; in sets, which copy it is
  prev, next,  \* [Nodes -> Nodes \cup {None}]
  head, tail,  \* [Containers -> Nodes \cup {None}]
  index,     \* [Containers -> Seq(Nodes)]  data_ or index_
  capacity,  \* [Containers -> Nat]  of the index
  size,      \* [Containers -> Nat]  size_ of the maps
  loop       \* a copy or merge in progress: [op, source, target, current]

vars == <<kind, live, key, value, prev, next, head, tail, index, capacity, size, loop>>

Multi == kind \in {"multiset", "multimap"}
IsMap == kind \in {"map", "multimap"}
Idle == [op |-> "none", source |-> None, target |-> None, current |-> None]

TypeOK ==
  /\ kind \in {"set", "multiset", "map", "multimap"}
  /\ live \subseteq Nodes
  /\ key \in [Nodes -> Keys \cup {MovedFrom}]
  /\ value \in [Nodes -> Values \cup {MovedFrom}]
  /\ prev \in [Nodes -> Nodes \cup {None}] /\ next \in [Nodes -> Nodes \cup {None}]
  /\ head \in [Containers -> Nodes \cup {None}] /\ tail \in [Containers -> Nodes \cup {None}]
  /\ DOMAIN index = Containers /\ \A c \in Containers : index[c] \in Seq(Nodes)
  /\ capacity \in [Containers -> Nat] /\ size \in [Containers -> Nat]
  /\ loop \in [op : {"none", "copy", "merge", "drop"}, source : Containers \cup {None},
               target : Containers \cup {None}, current : Nodes \cup {None}]

-----------------------------------------------------------------------------
(* Searching. *)

\* The binary search of an index of n entries, after n rounds, as it has ended by
\* then: right is where the answer is further to the right.
BinarySearch(n, right) ==
  LET search[i \in 0 .. n] ==
        IF i = 0 THEN [first |-> 0, count |-> n]
        ELSE LET now == search[i - 1]
                 step == now.count \div 2
             IN  IF now.count = 0 THEN now
                 ELSE IF now.first + step \in right
                 THEN [first |-> now.first + step + 1, count |-> now.count - step - 1]
                 ELSE [first |-> now.first, count |-> step]
  IN  search[n].first

\* Positions count from 0, as in the code.
At(c, i) == IF i = Len(index[c]) THEN None ELSE index[c][i + 1]

LowerBoundIndex(c, k) ==
  LET n == Len(index[c]) IN BinarySearch(n, {m \in 0 .. n - 1 : key[index[c][m + 1]] < k})

UpperBoundIndex(c, k) ==
  LET n == Len(index[c]) IN BinarySearch(n, {m \in 0 .. n - 1 : key[index[c][m + 1]] <= k})

Found(c, k) ==
  LET n == At(c, LowerBoundIndex(c, k)) IN n # None /\ key[n] = k

\* Where erase looks for a node in the index: set trusts the binary search, the
\* others go on from there until they meet it.
IndexToErase(c, n) ==
  LET first == LowerBoundIndex(c, key[n])
  IN  IF kind = "set" THEN first
      ELSE CHOOSE i \in first .. Len(index[c]) - 1 : index[c][i + 1] = n

-----------------------------------------------------------------------------
(* Linking and unlinking. *)

CanAllocate == live # Nodes
NewNode == CHOOSE n \in Nodes \ live : \A m \in Nodes \ live : n <= m

\* reserve_for_one
Grown(c) ==
  IF Len(index[c]) # capacity[c] THEN capacity[c]
  ELSE IF capacity[c] = 0 THEN FirstCapacity ELSE 2 * capacity[c]

\* The new node at a position of the index.  A map links it to the list in front
\* of the node there, a set between the index's neighbours.
Link(c, i) ==
  LET n == NewNode
      after == At(c, i)
      before == IF IsMap THEN IF after = None THEN tail[c] ELSE prev[after]
                ELSE IF i = 0 THEN None ELSE index[c][i]
  IN  /\ live' = live \cup {n}
      /\ index' = [index EXCEPT ![c] = InsertAt(@, i + 1, n)]
      /\ capacity' = [capacity EXCEPT ![c] = Grown(c)]
      /\ prev' = [m \in Nodes |-> IF m = n THEN before ELSE IF m = after THEN n ELSE prev[m]]
      /\ next' = [m \in Nodes |-> IF m = n THEN after ELSE IF m = before THEN n ELSE next[m]]
      /\ head' = IF before = None THEN [head EXCEPT ![c] = n] ELSE head
      /\ tail' = IF after = None THEN [tail EXCEPT ![c] = n] ELSE tail
      /\ size' = IF IsMap THEN [size EXCEPT ![c] = @ + 1] ELSE size

\* The new node holds this key and value.
Construct(k, v) ==
  /\ key' = [key EXCEPT ![NewNode] = k]
  /\ value' = [value EXCEPT ![NewNode] = v]

\* MUTANT: the last node's predecessor does not become the last one.
CutKeepingTail(c, before, after) ==
  /\ prev' = IF after = None THEN prev ELSE [prev EXCEPT ![after] = before]
  /\ next' = IF before = None THEN next ELSE [next EXCEPT ![before] = after]
  /\ head' = IF before = None THEN [head EXCEPT ![c] = after] ELSE head
  /\ tail' = tail

\* The list goes on from before to after.
Cut(c, before, after) ==
  /\ prev' = IF after = None THEN prev ELSE [prev EXCEPT ![after] = before]
  /\ next' = IF before = None THEN next ELSE [next EXCEPT ![before] = after]
  /\ head' = IF before = None THEN [head EXCEPT ![c] = after] ELSE head
  /\ tail' = IF after = None THEN [tail EXCEPT ![c] = before] ELSE tail

CountDown(c, count) == IF IsMap THEN [size EXCEPT ![c] = @ - count] ELSE size

\* erase(position)
Unlink(c, n) ==
  /\ index' = [index EXCEPT ![c] = RemoveAt(@, IndexToErase(c, n) + 1)]
  /\ Cut(c, prev[n], next[n])
  /\ live' = live \ {n}
  /\ size' = CountDown(c, 1)

\* erase(first, last): the nodes are found along the list, their place in the
\* index by searching for the first and, in set, for the last.
UnlinkRange(c, n, after) ==
  LET gone == Walk(next, n, after, None)
      first == IndexToErase(c, n)
      last == IF kind # "set" THEN first + Len(gone)
              ELSE IF after = None THEN Len(index[c]) ELSE LowerBoundIndex(c, key[after])
  IN  /\ index' = [index EXCEPT ![c] = SubSeq(@, 1, first) \o SubSeq(@, last + 1, Len(@))]
      /\ Cut(c, prev[n], after)
      /\ live' = live \ ToSet(gone)
      /\ size' = CountDown(c, Len(gone))

\* The nodes that clear frees: a set goes through the index, a map through the list.
Held(c) == ToSet(IF IsMap THEN Walk(next, head[c], None, None) ELSE index[c])

-----------------------------------------------------------------------------
(* Operations on one container. *)

Ready == loop = Idle

\* MUTANT: equal keys are inserted in front of the others.
PositionInFront(c, k) == LowerBoundIndex(c, k)
PositionOf(c, k) == IF Multi THEN UpperBoundIndex(c, k) ELSE LowerBoundIndex(c, k)

\* Any insert, emplace or try_emplace; only one of equal keys in set and map.
Insert(c, k, v) ==
  /\ Ready /\ CanAllocate
  /\ Multi \/ ~Found(c, k)
  /\ Link(c, PositionOf(c, k))
  /\ Construct(k, v)
  /\ UNCHANGED <<kind, loop>>

Deleted(n) == {n}

\* The index cannot grow: the owner of the node deletes it, and nothing else
\* has been touched.
InsertFails(c, k) ==
  /\ Ready /\ CanAllocate
  /\ Multi \/ ~Found(c, k)
  /\ Len(index[c]) = capacity[c]
  /\ live' = (live \cup {NewNode}) \ Deleted(NewNode)
  /\ key' = [key EXCEPT ![NewNode] = k]
  /\ UNCHANGED <<kind, value, prev, next, head, tail, index, capacity, size, loop>>

\* insert_or_assign and operator[] on an existing key, or through an iterator.
Assign(c, v) ==
  /\ Ready /\ IsMap
  /\ \E n \in ToSet(index[c]) : value' = [value EXCEPT ![n] = v]
  /\ UNCHANGED <<kind, live, key, prev, next, head, tail, index, capacity, size, loop>>

Erase(c) ==
  /\ Ready
  /\ \E n \in ToSet(index[c]) : Unlink(c, n)
  /\ UNCHANGED <<kind, key, value, capacity, loop>>

EraseRange(c) ==
  /\ Ready
  /\ \E i \in DOMAIN index[c] : \E j \in i .. Len(index[c]) :
       UnlinkRange(c, index[c][i], At(c, j))
  /\ UNCHANGED <<kind, key, value, capacity, loop>>

\* erase(key)
EraseKey(c, k) ==
  /\ Ready /\ Found(c, k)
  /\ IF Multi
     THEN UnlinkRange(c, At(c, LowerBoundIndex(c, k)), At(c, UpperBoundIndex(c, k)))
     ELSE Unlink(c, At(c, LowerBoundIndex(c, k)))
  /\ UNCHANGED <<kind, key, value, capacity, loop>>

Emptied(c) ==
  /\ live' = live \ Held(c)
  /\ head' = [head EXCEPT ![c] = None]
  /\ tail' = [tail EXCEPT ![c] = None]
  /\ index' = [index EXCEPT ![c] = <<>>]
  /\ size' = [size EXCEPT ![c] = 0]

Clear(c) ==
  /\ Ready
  /\ Emptied(c)
  /\ UNCHANGED <<kind, key, value, prev, next, capacity, loop>>

-----------------------------------------------------------------------------
(* Operations on two containers. *)

Exchanged(f, c, d) == [f EXCEPT ![c] = f[d], ![d] = f[c]]

\* swap; the move assignment of set and multiset.
Swap(c, d) ==
  /\ Ready
  /\ head' = Exchanged(head, c, d)
  /\ tail' = Exchanged(tail, c, d)
  /\ index' = Exchanged(index, c, d)
  /\ capacity' = Exchanged(capacity, c, d)
  /\ size' = Exchanged(size, c, d)
  /\ UNCHANGED <<kind, live, key, value, prev, next, loop>>

\* The move assignment of map and multimap.
Take(c, d) ==
  /\ Ready /\ IsMap
  /\ live' = live \ Held(c)
  /\ head' = [head EXCEPT ![c] = head[d], ![d] = None]
  /\ tail' = [tail EXCEPT ![c] = tail[d], ![d] = None]
  /\ index' = [index EXCEPT ![c] = index[d], ![d] = <<>>]
  /\ capacity' = [capacity EXCEPT ![c] = capacity[d], ![d] = 0]
  /\ size' = [size EXCEPT ![c] = size[d], ![d] = 0]
  /\ UNCHANGED <<kind, key, value, prev, next, loop>>

\* Copy assignment of all but multimap: clear, and insert one element after the other.
BeginCopy(c, d) ==
  /\ Ready /\ kind # "multimap"
  /\ Emptied(c)
  /\ loop' = [op |-> "copy", source |-> d, target |-> c, current |-> head[d]]
  /\ UNCHANGED <<kind, key, value, prev, next, capacity>>

CopyNext ==
  /\ loop.op = "copy" /\ loop.current # None /\ CanAllocate
  /\ LET n == loop.current
     IN  /\ Link(loop.target, PositionOf(loop.target, key[n]))
         /\ Construct(key[n], value[n])
         /\ loop' = [loop EXCEPT !.current = next[n]]
  /\ UNCHANGED kind

\* merge: what the target does not have is inserted there, moved from the
\* node of the source, and that node is erased.
BeginMerge(c, d) ==
  /\ Ready /\ ~Multi
  /\ loop' = [op |-> "merge", source |-> d, target |-> c, current |-> head[d]]
  /\ UNCHANGED <<kind, live, key, value, prev, next, head, tail, index, capacity, size>>

MergeSkip ==
  /\ loop.op = "merge" /\ loop.current # None
  /\ Found(loop.target, key[loop.current])
  /\ loop' = [loop EXCEPT !.current = next[@]]
  /\ UNCHANGED <<kind, live, key, value, prev, next, head, tail, index, capacity, size>>

\* What remains in the node of the source: a set moves the key out of it, a map
\* copies the key and moves the value.
Shell(n) ==
  [key |-> IF KeysMove /\ ~IsMap THEN MovedFrom ELSE key[n],
   value |-> IF IsMap THEN MovedFrom ELSE value[n]]

MergeInsert ==
  /\ loop.op = "merge" /\ loop.current # None /\ CanAllocate
  /\ ~Found(loop.target, key[loop.current])
  /\ LET n == loop.current
     IN  /\ Link(loop.target, LowerBoundIndex(loop.target, key[n]))
         /\ key' = [key EXCEPT ![NewNode] = key[n], ![n] = Shell(n).key]
         /\ value' = [value EXCEPT ![NewNode] = value[n], ![n] = Shell(n).value]
  /\ loop' = [loop EXCEPT !.op = "drop"]
  /\ UNCHANGED kind

\* MUTANT: the node of the source stays.
MergeKeeps(c, n) == UNCHANGED <<live, prev, next, head, tail, index, size>>

\* source.erase(current)
MergeDrop(c, n) == Unlink(c, n)

MergeErase ==
  /\ loop.op = "drop"
  /\ MergeDrop(loop.source, loop.current)
  /\ loop' = [loop EXCEPT !.op = "merge", !.current = next[@]]
  /\ UNCHANGED <<kind, key, value, capacity>>

\* The index of the target cannot grow: the new node is deleted, with what was
\* moved into it.
MergeFails ==
  /\ GrowthFailsInMerge \/ ~IsMap
  /\ loop.op = "merge" /\ loop.current # None /\ CanAllocate
  /\ ~Found(loop.target, key[loop.current])
  /\ Len(index[loop.target]) = capacity[loop.target]
  /\ key' = [key EXCEPT ![loop.current] = Shell(loop.current).key]
  /\ value' = [value EXCEPT ![loop.current] = Shell(loop.current).value]
  /\ loop' = Idle
  /\ UNCHANGED <<kind, live, prev, next, head, tail, index, capacity, size>>

\* The loop is at the end, or a node cannot be allocated.
LoopEnds ==
  /\ loop.op \in {"copy", "merge"}
  /\ loop' = Idle
  /\ UNCHANGED <<kind, live, key, value, prev, next, head, tail, index, capacity, size>>

-----------------------------------------------------------------------------
Init ==
  /\ kind \in {"set", "multiset", "map", "multimap"}
  /\ live = {}
  /\ key = [n \in Nodes |-> MovedFrom]
  /\ value = [n \in Nodes |-> MovedFrom]
  /\ prev = [n \in Nodes |-> None] /\ next = [n \in Nodes |-> None]
  /\ head = [c \in Containers |-> None] /\ tail = [c \in Containers |-> None]
  /\ index = [c \in Containers |-> <<>>]
  /\ capacity = [c \in Containers |-> 0] /\ size = [c \in Containers |-> 0]
  /\ loop = Idle

Next ==
  \/ \E c \in Containers, k \in Keys :
       \/ \E v \in Values : Insert(c, k, v)
       \/ InsertFails(c, k)
       \/ EraseKey(c, k)
  \/ \E c \in Containers :
       \/ \E v \in Values : Assign(c, v)
       \/ Erase(c) \/ EraseRange(c) \/ Clear(c)
       \/ \E d \in Containers \ {c} : Swap(c, d) \/ Take(c, d) \/ BeginCopy(c, d) \/ BeginMerge(c, d)
  \/ CopyNext \/ MergeSkip \/ MergeInsert \/ MergeErase \/ MergeFails \/ LoopEnds

Spec == Init /\ [][Next]_vars

-----------------------------------------------------------------------------
(* What makes it correct. *)

\* The list, forwards and backwards, and the index of a container name the same
\* nodes in the same order, and every node that was not deleted is in exactly
\* one container.
ListIsIndex ==
  /\ TypeOK
  /\ \A c \in Containers :
       /\ Walk(next, head[c], None, None) = index[c]
       /\ Walk(prev, tail[c], None, None) = Reverse(index[c])
       /\ IsMap => size[c] = Len(index[c])
  /\ live = UNION {ToSet(index[c]) : c \in Containers}
  /\ \A c, d \in Containers : c # d => ToSet(index[c]) \cap ToSet(index[d]) = {}

\* No value was moved away without arriving elsewhere: only the node that a
\* merge is about to erase is empty.
NoValueLost ==
  \A c \in Containers : \A n \in ToSet(index[c]) :
    value[n] = MovedFrom => loop.op = "drop" /\ n = loop.current

\* Sets and maps: list, reverse list and index are the same sequence of nodes, no
\* node leaks, and no value is lost in a merge (set, map, __node_map).
OrderedExact == ListIsIndex /\ NoValueLost

\* The elements of each container.
contents ==
  [c \in Containers |->
     [i \in DOMAIN index[c] |-> [key |-> key[index[c][i]], value |-> value[index[c][i]]]]]

Promise == INSTANCE SortedElements WITH multi <- Multi, Values <- Values \cup {MovedFrom}

\* Whatever allocations fail, each container is the sorted sequence of elements that
\* SortedElements promises (set, multiset, map, multimap).
PromiseKept == Promise!Spec

=============================================================================
