----------------------------- MODULE Dictionary -----------------------------
(***************************************************************************)
(* What the unordered containers promise: each is a bag of keys, with one  *)
(* of each unless equal keys are allowed.  No buckets and no order.        *)
(* Copies go element by element, as an exception can end them anywhere.    *)
(***************************************************************************)
EXTENDS Integers

CONSTANTS Containers, Keys

VARIABLES
  multi,     \* BOOLEAN  equal keys are allowed
  contents   \* [Containers -> [Keys -> Nat]]  how many of each

Nothing == [k \in Keys |-> 0]

Init ==
  /\ multi \in BOOLEAN
  /\ contents = [c \in Containers |-> Nothing]

Inserted(c) ==
  {[contents EXCEPT ![c][k] = @ + 1] : k \in {k \in Keys : multi \/ contents[c][k] = 0}}

Erased(c) == {[contents EXCEPT ![c][k] = @ - 1] : k \in {k \in Keys : contents[c][k] > 0}}

Cleared(c) == [contents EXCEPT ![c] = Nothing]

Swapped(c, d) == [contents EXCEPT ![c] = contents[d], ![d] = contents[c]]

Taken(c, d) == [contents EXCEPT ![c] = contents[d], ![d] = Nothing]

Next ==
  /\ UNCHANGED multi /\ contents' # contents
  /\ contents' \in UNION {Inserted(c) \cup Erased(c) \cup {Cleared(c)} : c \in Containers}
                   \cup {Swapped(c, d) : c, d \in Containers}
                   \cup {Taken(c, d) : c, d \in Containers}

Spec == Init /\ [][Next]_<<multi, contents>>

=============================================================================
