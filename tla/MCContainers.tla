---------------------------- MODULE MCContainers ----------------------------
(***************************************************************************)
(* Small instances of the three families of containers for TLC, one of     *)
(* them per behaviour: sets and maps (OrderedNodes), hash tables           *)
(* (HashTable, with variables named hash_) and vectors (Vector).           *)
(***************************************************************************)
EXTENDS OrderedNodes

CONSTANTS
  HashNodes, HashKeys, FirstBuckets, MaxBuckets,
  Blocks, Null, Raw, Moved, MaxCapacity, CopiesFail, ElementArguments

VARIABLES
  family,    \* "ordered", "unordered" or "vector"
  hash_kind, hash_live, hash_key, hash_next, nbuckets, buckets, hash_size, hash_loop, unseen,
  element, memory, headers, misuse, call

hash_vars == <<hash_kind, hash_live, hash_key, hash_next, nbuckets, buckets, hash_size,
               hash_loop, unseen>>
vector_vars == <<element, memory, headers, misuse, call>>

H == INSTANCE HashTable WITH
  Nodes <- HashNodes, Keys <- HashKeys,
  kind <- hash_kind, live <- hash_live, key <- hash_key, next <- hash_next,
  size <- hash_size, loop <- hash_loop

V == INSTANCE Vector WITH Vectors <- Containers

ASSUME H!HashTableAssumption /\ V!VectorAssumption

MCInit == family \in {"ordered", "unordered", "vector"} /\ Init /\ H!Init /\ V!Init

MCNext ==
  /\ UNCHANGED family
  /\ \/ family = "ordered" /\ Next /\ UNCHANGED <<hash_vars, vector_vars>>
     \/ family = "unordered" /\ H!Next /\ UNCHANGED <<vars, vector_vars>>
     \/ family = "vector" /\ V!Next /\ UNCHANGED <<vars, hash_vars>>

MCSpec == MCInit /\ [][MCNext]_<<family, vars, hash_vars, vector_vars>>

Allocated(f) == [n \in live |-> f[n]]
HashAllocated(f) == [n \in hash_live |-> f[n]]

\* What a node held before it was freed is never read again, and the last call
\* is read by no operation of a vector.  Families that are not used are alike.
View ==
  <<family,
    IF family = "ordered"
    THEN <<kind, Allocated(key), Allocated(value), Allocated(prev), Allocated(next),
           head, tail, index, capacity, size, loop>>
    ELSE IF family = "unordered"
    THEN <<hash_kind, HashAllocated(hash_key), HashAllocated(hash_next),
           nbuckets, buckets, hash_size, hash_loop, unseen>>
    ELSE <<element, memory, headers, misuse>>>>

Symmetry == Permutations(Containers)

\* Hash tables: every node is on one chain, where its key is looked for; equal keys
\* of unordered_multimap follow each other; erase_if sees every element once.
\* Vectors: the blocks and objects are exactly those that a header names, and no step
\* reads raw memory or constructs over an object.
StructuresExact ==
  H!ChainsExact /\ H!EquivalentTogether /\ H!VisitsEach /\ V!StorageExact

\* Whatever allocations fail, a hash table does to its elements what Dictionary
\* promises (unordered_map, unordered_set), and a vector is the sequence that
\* Contents promises (vector).
OtherPromisesKept == H!PromiseKept /\ V!PromiseKept

=============================================================================
