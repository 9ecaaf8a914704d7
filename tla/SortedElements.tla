--------------------------- MODULE SortedElements ---------------------------
(***************************************************************************)
(* What set, multiset, map and multimap promise: each container is a       *)
(* sequence of elements ordered by key, equal keys (in the containers that *)
(* allow them) in the order of their insertion.  No nodes, no index.       *)
(* Merging and copying go element by element, as an exception can end them *)
(* anywhere.                                                               *)
(***************************************************************************)
EXTENDS Integers, Sequences

CONSTANTS Containers, Keys, Values

VARIABLES
  multi,     \* BOOLEAN  equal keys are allowed
  contents   \* [Containers -> Seq([key : Keys, value : Values])]

Element == [key : Keys, value : Values]

HasKey(s, k) == \E i \in DOMAIN s : s[i].key = k

\* An element with key k belongs behind the first i elements of s: behind those that
\* are not greater.
Belongs(s, k, i) ==
  /\ \A j \in 1 .. i : s[j].key <= k
  /\ \A j \in i + 1 .. Len(s) : k < s[j].key

Insertion(s, i, e) == SubSeq(s, 1, i) \o <<e>> \o SubSeq(s, i + 1, Len(s))

Init ==
  /\ multi \in BOOLEAN
  /\ contents = [c \in Containers |-> <<>>]

Insert(c, e) ==
  /\ multi \/ ~HasKey(contents[c], e.key)
  /\ \E i \in 0 .. Len(contents[c]) :
       /\ Belongs(contents[c], e.key, i)
       /\ contents' = [contents EXCEPT ![c] = Insertion(@, i, e)]

Assign(c, i, v) == contents' = [contents EXCEPT ![c][i].value = v]

\* Elements i to j are erased.
Erase(c, i, j) ==
  contents' = [contents EXCEPT ![c] = SubSeq(@, 1, i - 1) \o SubSeq(@, j + 1, Len(@))]

Swap(c, d) == contents' = [contents EXCEPT ![c] = contents[d], ![d] = contents[c]]

Take(c, d) == contents' = [contents EXCEPT ![c] = contents[d], ![d] = <<>>]

\* One element of d whose key c does not have goes to c: it is inserted there,
\* and only its shell remains for the erasure that follows.
Transfer(c, d, i, shell) ==
  LET e == contents[d][i] IN
  /\ ~HasKey(contents[c], e.key)
  /\ \E j \in 0 .. Len(contents[c]) :
       /\ Belongs(contents[c], e.key, j)
       /\ contents' = [contents EXCEPT ![c] = Insertion(@, j, e), ![d][i].value = shell]

Next ==
  /\ UNCHANGED multi /\ contents' # contents
  /\ \E c \in Containers :
       \/ \E e \in Element : Insert(c, e)
       \/ \E i \in DOMAIN contents[c], v \in Values : Assign(c, i, v)
       \/ \E i \in DOMAIN contents[c] : \E j \in i .. Len(contents[c]) : Erase(c, i, j)
       \/ \E d \in Containers \ {c} :
            \/ Swap(c, d)
            \/ Take(c, d)
            \/ \E i \in DOMAIN contents[d], v \in Values : Transfer(c, d, i, v)

Spec == Init /\ [][Next]_<<multi, contents>>

=============================================================================
