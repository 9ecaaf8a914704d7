----------------------------- MODULE Lifetimes -----------------------------
(***************************************************************************)
(* What containers do to memory: blocks are allocated and freed, objects   *)
(* constructed in their slots, moved, assigned and destroyed.  An operation *)
(* of a container is a program of such steps; any of them that may throw   *)
(* can end it.  A step that the language leaves undefined is recorded.     *)
(***************************************************************************)
EXTENDS Integers, SequencesExt

CONSTANTS
  Blocks,      \* the addresses of blocks
  Null,        \* nullptr
  Raw, Moved   \* what a slot holds without an object, and with a moved-from one

Tmp == <<"temporary", 0>>     \* the slot of a local variable
Outside(x) == <<"outside", x>>  \* an object x of the caller

-----------------------------------------------------------------------------
(* The steps. *)

Allocate(b, n) == [op |-> "allocate", to |-> b, from |-> n]
Free(b) == [op |-> "free", to |-> b, from |-> Null]
Construct(s, from) == [op |-> "construct", to |-> s, from |-> from]
MoveConstruct(s, from) == [op |-> "move_construct", to |-> s, from |-> from]
Assign(s, from) == [op |-> "assign", to |-> s, from |-> from]
MoveAssign(s, from) == [op |-> "move_assign", to |-> s, from |-> from]
Destroy(s) == [op |-> "destroy", to |-> s, from |-> Null]
\* The destructor of a local variable, if it has been constructed.
Leave(s) == [op |-> "leave", to |-> s, from |-> Null]
\* The members of the container get new values.
Become(c, header) == [op |-> "become", to |-> c, from |-> header]

Constructs(i) == i.op \in {"construct", "move_construct"}
Assigns(i) == i.op \in {"assign", "move_assign"}

-----------------------------------------------------------------------------
(* Their meaning, in a state [memory, headers, misuse]. *)

Exists(memory, s) == s[1] \in DOMAIN memory /\ s[2] \in DOMAIN memory[s[1]]
Object(memory, s) == IF s[1] = "outside" THEN s[2] ELSE memory[s[1]][s[2]]
Live(memory, s) == s[1] = "outside" \/ (Exists(memory, s) /\ Object(memory, s) # Raw)

Defined(memory, i) ==
  /\ Constructs(i) => Exists(memory, i.to) /\ Object(memory, i.to) = Raw /\ Live(memory, i.from)
  /\ Assigns(i) => Live(memory, i.to) /\ Live(memory, i.from)
  /\ i.op = "destroy" => Live(memory, i.to)
  /\ i.op = "free" => i.to \in DOMAIN memory

Put(memory, s, x) == [memory EXCEPT ![s[1]][s[2]] = x]

\* element is "moves" if moving leaves a moved-from object behind, and "copies"
\* if a move is a copy.
Transfer(memory, i, element) ==
  LET written == Put(memory, i.to, Object(memory, i.from))
  IN  IF i.op \in {"move_construct", "move_assign"} /\ element = "moves" /\ i.from[1] # "outside"
         /\ i.from # i.to
      THEN Put(written, i.from, Moved) ELSE written

Effect(memory, i, element) ==
  CASE i.op = "allocate" -> (i.to :> [k \in 0 .. i.from - 1 |-> Raw]) @@ memory
    [] i.op = "free" -> [b \in DOMAIN memory \ {i.to} |-> memory[b]]
    [] Constructs(i) \/ Assigns(i) -> Transfer(memory, i, element)
    [] i.op \in {"destroy", "leave"} -> Put(memory, i.to, Raw)
    [] OTHER -> memory

Step(s, i, element) ==
  IF Defined(s.memory, i)
  THEN [memory |-> Effect(s.memory, i, element),
        headers |-> IF i.op = "become" THEN [s.headers EXCEPT ![i.to] = i.from] ELSE s.headers,
        misuse |-> s.misuse]
  ELSE [s EXCEPT !.misuse = TRUE]

Run(s, program, element) == FoldLeft(LAMBDA t, i : Step(t, i, element), s, program)

\* Is this step a copy?  A copy can throw, a move of an element that moves cannot.
IsCopy(i, element) ==
  \/ i.op \in {"construct", "assign"}
  \/ i.op \in {"move_construct", "move_assign"} /\ element = "copies"

\* One step after the other for i from a to b, and for i down from b to a.
Upwards(a, b, Do(_)) == [k \in 1 .. (IF b < a THEN 0 ELSE b - a + 1) |-> Do(a + k - 1)]
Downwards(a, b, Do(_)) == Reverse(Upwards(a, b, Do))

=============================================================================
