------------------------------ MODULE Contents ------------------------------
(***************************************************************************)
(* What a sequence container promises: a call that returns has done to the *)
(* elements what it says, and a call that throws has changed nothing; only *)
(* an assignment may leave the container empty, or with the first elements *)
(* of the range that it copies.  No memory, no objects.                    *)
(***************************************************************************)
EXTENDS Integers, Sequences

CONSTANTS Containers

VARIABLES
  contents,  \* [Containers -> a sequence of values]
  call       \* the last call, with its arguments and whether it returned

\* n equal elements x behind the first i.
Inserted(s, i, n, x) == SubSeq(s, 1, i) \o [k \in 1 .. n |-> x] \o SubSeq(s, i + 1, Len(s))

\* The elements whose position, from 0, is not in P.
Without(s, P) ==
  LET f[i \in 0 .. Len(s)] ==
        IF i = 0 THEN <<>> ELSE IF i - 1 \in P THEN f[i - 1] ELSE Append(f[i - 1], s[i])
  IN  f[Len(s)]

Init == contents = [c \in Containers |-> <<>>]

Insert == contents' = [contents EXCEPT ![call'.on] = Inserted(@, call'.at, call'.count, call'.value)]
Erase == contents' = [contents EXCEPT ![call'.on] = Without(@, call'.positions)]
Assign == contents' = [contents EXCEPT ![call'.on] = call'.list]
Take == contents' = [contents EXCEPT ![call'.on] = contents[call'.other], ![call'.other] = <<>>]
Swap == contents' = [contents EXCEPT ![call'.on] = contents[call'.other], ![call'.other] = contents[call'.on]]

Returns ==
  /\ call'.returned
  /\ \/ call'.op = "insert" /\ Insert
     \/ call'.op = "erase" /\ Erase
     \/ call'.op \in {"assign", "assign range"} /\ Assign
     \/ call'.op = "take" /\ Take
     \/ call'.op = "swap" /\ Swap

Throws ==
  /\ ~call'.returned
  /\ \/ call'.op # "assign range" /\ UNCHANGED contents
     \/ call'.op = "assign" /\ contents' = [contents EXCEPT ![call'.on] = <<>>]
     \/ call'.op = "assign range"
        /\ \E k \in 0 .. Len(call'.list) :
             contents' = [contents EXCEPT ![call'.on] = SubSeq(call'.list, 1, k)]

Next == <<contents, call>>' # <<contents, call>> /\ (Returns \/ Throws)

Spec == Init /\ [][Next]_<<contents, call>>

=============================================================================
