------------------------------- MODULE Chains -------------------------------
(* Chains of nodes: a pointer member is a function from nodes to nodes. *)
EXTENDS Integers, FiniteSets, Sequences

\* The nodes from one up to another (or to the null pointer), in order.  A chain
\* that comes back to itself is cut off.
Walk(pointer, from, to, null) ==
  LET most == Cardinality(DOMAIN pointer)
      at[i \in 1 .. most] == IF i = 1 THEN from ELSE pointer[at[i - 1]]
      last == CHOOSE i \in 0 .. most :
                /\ \A j \in 1 .. i : at[j] \notin {to, null}
                /\ i < most => at[i + 1] \in {to, null}
  IN  [i \in 1 .. last |-> at[i]]

=============================================================================
