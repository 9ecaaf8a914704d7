------------------------------- MODULE Vector -------------------------------
(***************************************************************************)
(* vector (include/vector): a block of raw slots with objects in the first *)
(* size_ of them.  Every operation is a program of Lifetimes, in the order *)
(* of the code, so an allocation or a copy can fail between any two steps  *)
(* and arguments can be elements of the vector itself.  The bitwise        *)
(* shortcuts for trivial element types are left out, and so are unequal    *)
(* allocators.                                                             *)
(***************************************************************************)
EXTENDS Lifetimes, FiniteSets

CONSTANTS
  Vectors,       \* the vector objects
  Values,        \* of elements
  FirstCapacity, \* 4 in the code
  MaxCapacity,   \* bound: no larger block
  CopiesFail,    \* may a copy into the vector's own slots throw?
  ElementArguments  \* may every argument be an element of the vector?

VectorAssumption ==
  /\ IsFiniteSet(Blocks) /\ Null \notin Blocks \cup {"temporary", "outside"}
  /\ Blocks \cap {"temporary", "outside"} = {}
  /\ FirstCapacity \in 1 .. MaxCapacity /\ MaxCapacity \in Nat
  /\ Raw \notin Values /\ Moved \notin Values \cup {Raw}
  /\ CopiesFail \in BOOLEAN /\ ElementArguments \in BOOLEAN

VARIABLES
  element,   \* "moves" or "copies": the kind of element, see Lifetimes
  memory,    \* [allocated blocks -> [0 .. capacity - 1 -> contents]]
  headers,   \* [Vectors -> [data, size, cap]]
  misuse,    \* BOOLEAN  a step has been undefined
  call       \* history: the last call, see Contents

vars == <<element, memory, headers, misuse, call>>

Empty == [data |-> Null, size |-> 0, cap |-> 0]

TypeOK ==
  /\ element \in {"moves", "copies"}
  /\ DOMAIN memory \subseteq Blocks \cup {"temporary"}
  /\ \A b \in DOMAIN memory : \A k \in DOMAIN memory[b] : memory[b][k] \in Values \cup {Raw, Moved}
  /\ headers \in [Vectors -> [data : Blocks \cup {Null}, size : Nat, cap : Nat]]
  /\ \A v \in Vectors : headers[v].size <= headers[v].cap /\ headers[v].cap <= MaxCapacity
  /\ misuse \in BOOLEAN

-----------------------------------------------------------------------------
(* Parts of programs.  h is the header that the step starts from. *)

NewBlock == CHOOSE b \in Blocks \ DOMAIN memory : TRUE

\* _xfer: moved if that cannot throw, copied otherwise.
Xfer(s, from) == IF element = "moves" THEN MoveConstruct(s, from) ELSE Construct(s, from)

FreeMem(h) == IF h.data = Null THEN <<>> ELSE <<Free(h.data)>>

DestroySlots(h, a, b) == Upwards(a, b - 1, LAMBDA i : Destroy(<<h.data, i>>))
DestroyAll(h) == DestroySlots(h, 0, h.size)

\* reserve(n): each element goes over and is destroyed before the next one.
Reserved(h, n) == IF n <= h.cap THEN h ELSE [h EXCEPT !.data = NewBlock, !.cap = n]
Reserve(v, h, n) ==
  IF n <= h.cap THEN <<>>
  ELSE <<Allocate(NewBlock, n)>>
       \o FlattenSeq(Upwards(0, h.size - 1,
            LAMBDA i : <<Xfer(<<NewBlock, i>>, <<h.data, i>>), Destroy(<<h.data, i>>)>>))
       \o FreeMem(h)
       \o <<Become(v, Reserved(h, n))>>

\* The capacity that growth asks for: _grow_to(needed) takes what is needed if
\* that is more than twice the old one, _grow_and_shift goes on doubling.
Next2(h) == IF h.cap = 0 THEN FirstCapacity ELSE 2 * h.cap
GrownTo(h, needed) == IF needed <= h.cap THEN h.cap
                      ELSE IF Next2(h) < needed THEN needed ELSE Next2(h)
Doubled(h, needed) ==
  LET double[c \in 1 .. 2 * needed + Next2(h)] == IF c < needed THEN double[2 * c] ELSE c
  IN  IF needed <= h.cap THEN h.cap ELSE double[Next2(h)]

\* MUTANT: from the front, over elements that have not been moved yet.
ShiftRightForwards(h, idx, n) ==
  Upwards(idx, h.size - 1,
    LAMBDA i : IF i + n >= h.size THEN MoveConstruct(<<h.data, i + n>>, <<h.data, i>>)
               ELSE MoveAssign(<<h.data, i + n>>, <<h.data, i>>))
  \o DestroySlots(h, idx, IF idx + n < h.size THEN idx + n ELSE h.size)

\* _shift_right(idx, n)
ShiftRight(h, idx, n) ==
  Downwards(idx, h.size - 1,
    LAMBDA i : IF i + n >= h.size THEN MoveConstruct(<<h.data, i + n>>, <<h.data, i>>)
               ELSE MoveAssign(<<h.data, i + n>>, <<h.data, i>>))
  \o DestroySlots(h, idx, IF idx + n < h.size THEN idx + n ELSE h.size)

\* _shift_left(from, n)
ShiftLeft(h, from, n) ==
  Upwards(from, h.size - 1, LAMBDA i : MoveAssign(<<h.data, i - n>>, <<h.data, i>>))

\* _undo_shift(idx, n, i)
UndoShift(h, idx, n, i) ==
  IF idx >= h.size THEN <<>>
  ELSE Upwards(0, i - 1, LAMBDA j : MoveConstruct(<<h.data, idx + j>>, <<h.data, idx + j + n>>))
       \o Upwards(i, h.size - idx - 1, LAMBDA j : MoveAssign(<<h.data, idx + j>>, <<h.data, idx + j + n>>))
       \o DestroySlots(h, h.size, h.size + n)

-----------------------------------------------------------------------------
(* Performing a program. *)

\* What may throw: an allocation, and a copy; outside of CopiesFail only one that
\* is made before the vector is touched.
CanThrow(i) ==
  \/ i.op = "allocate"
  \/ IsCopy(i, element) /\ (CopiesFail \/ i.to = Tmp)

Result(program) == Run([memory |-> memory, headers |-> headers, misuse |-> misuse], program, element)

Perform(program, c) ==
  LET s == Result(program)
  IN  memory' = s.memory /\ headers' = s.headers /\ misuse' = s.misuse /\ call' = c

\* The program runs to its end, or a step of it throws; then what handler holds
\* for that step is done, and the local variable is destroyed.
Try(program, handler, c) ==
  /\ \/ Perform(program \o <<Leave(Tmp)>>, c @@ [returned |-> TRUE])
     \/ \E k \in DOMAIN program :
          /\ CanThrow(program[k])
          /\ Perform(SubSeq(program, 1, k - 1) \o handler[k] \o <<Leave(Tmp)>>, c @@ [returned |-> FALSE])
  /\ UNCHANGED element

NoHandler == [k \in Nat |-> <<>>]

Fits(n) == n <= MaxCapacity
HasBlock == Blocks \ DOMAIN memory # {}

\* What can be an argument: an object of the caller or an element.
Arguments(v) == {Outside(x) : x \in Values} \cup {<<headers[v].data, i>> : i \in 0 .. headers[v].size - 1}
\* A range: objects of the caller, of which there are at most two (a bound), or
\* another vector's elements.
Lists == UNION {[1 .. n -> {Outside(x) : x \in Values}] : n \in 0 .. 2}
ElementsOf(v) == [i \in 1 .. headers[v].size |-> <<headers[v].data, i - 1>>]
Foreign(v) == IF ElementArguments THEN Arguments(v) ELSE {Outside(x) : x \in Values}

Inserting(v, idx, n, from) ==
  [op |-> "insert", on |-> v, at |-> idx, count |-> n, value |-> Object(memory, from)]
Erasing(v, P) == [op |-> "erase", on |-> v, positions |-> P]

-----------------------------------------------------------------------------
(* Operations. *)

\* reserve
ReserveTo(v, n) ==
  /\ HasBlock
  /\ Try(Reserve(v, headers[v], n), NoHandler, Erasing(v, {}))

\* push_back: through a local copy.
PushBack(v, from) ==
  LET h == headers[v]
      n == GrownTo(h, h.size + 1)
      r == Reserved(h, n)
  IN  /\ Fits(n) /\ HasBlock
      /\ Try(<<Construct(Tmp, from)>> \o Reserve(v, h, n)
             \o <<Xfer(<<r.data, r.size>>, Tmp), Become(v, [r EXCEPT !.size = @ + 1])>>,
             NoHandler, Inserting(v, h.size, 1, from))

\* emplace_back: in place; if there is no room, behind the elements in a new block,
\* before the old one is destroyed.
EmplacedHeader(h, new) ==
  IF h.size < h.cap THEN [h EXCEPT !.size = @ + 1]
  ELSE [data |-> new, size |-> h.size + 1, cap |-> Next2(h)]
Emplacing(v, h, new, from) ==
  (IF h.size < h.cap THEN <<Construct(<<h.data, h.size>>, from)>>
   ELSE <<Allocate(new, Next2(h))>>
        \o Upwards(0, h.size - 1, LAMBDA i : Xfer(<<new, i>>, <<h.data, i>>))
        \o <<Construct(<<new, h.size>>, from)>>
        \o DestroyAll(h) \o FreeMem(h))
  \o <<Become(v, EmplacedHeader(h, new))>>

EmplaceBack(v, from) ==
  LET h == headers[v]
  IN  /\ HasBlock /\ Fits(EmplacedHeader(h, NewBlock).cap)
      /\ h.size = h.cap /\ from[1] # "outside" => ElementArguments
      /\ Try(Emplacing(v, h, NewBlock, from), NoHandler, Inserting(v, h.size, 1, from))

PopBack(v) ==
  LET h == headers[v]
  IN  /\ h.size > 0
      /\ Try(<<Become(v, [h EXCEPT !.size = @ - 1]), Destroy(<<h.data, h.size - 1>>)>>,
             NoHandler, Erasing(v, {h.size - 1}))

\* insert(pos, value), emplace(pos, ...): through a local copy.
InsertOne(v, idx, from) ==
  LET h == headers[v]
      n == Doubled(h, h.size + 1)
      r == Reserved(h, n)
  IN  /\ Fits(n) /\ HasBlock
      /\ Try(<<Construct(Tmp, from)>> \o Reserve(v, h, n) \o ShiftRight(r, idx, 1)
             \o <<Xfer(<<r.data, idx>>, Tmp), Become(v, [r EXCEPT !.size = @ + 1])>>,
             NoHandler, Inserting(v, idx, 1, from))

\* insert(pos, n, value), insert(pos, first, last): if a copy throws, those made
\* are destroyed and the shift is undone.
InsertMany(v, idx, n, from) ==
  LET h == headers[v]
      cap == Doubled(h, h.size + n)
      r == Reserved(h, cap)
      shift == Reserve(v, h, cap) \o ShiftRight(r, idx, n)
      Undo(k) == LET i == k - Len(shift) - 1
                 IN  IF i < 0 THEN <<>> ELSE DestroySlots(r, idx, idx + i) \o UndoShift(r, idx, n, i)
  IN  /\ Fits(cap) /\ HasBlock
      /\ Try(shift \o Upwards(0, n - 1, LAMBDA i : Construct(<<r.data, idx + i>>, from))
             \o <<Become(v, [r EXCEPT !.size = @ + n])>>,
             [k \in 1 .. Len(shift) + n + 1 |-> Undo(k)], Inserting(v, idx, n, from))

\* erase(first, last)
Erase(v, idx, n) ==
  LET h == headers[v]
  IN  Try(ShiftLeft(h, idx + n, n) \o <<Become(v, [h EXCEPT !.size = @ - n])>>
          \o DestroySlots(h, h.size - n, h.size),
          NoHandler, Erasing(v, idx .. idx + n - 1))

\* erase_if: what is kept moves to the front, the rest is erased.
EraseIf(v, P) ==
  LET h == headers[v]
      kept == (0 .. h.size - 1) \ P
      out(i) == Cardinality({j \in kept : j < i})
      moves == Upwards(0, h.size - 1,
                 LAMBDA i : IF i \in P \/ out(i) = i THEN <<>>
                            ELSE <<MoveAssign(<<h.data, out(i)>>, <<h.data, i>>)>>)
      left == Cardinality(kept)
  IN  Try(FlattenSeq(moves) \o <<Become(v, [h EXCEPT !.size = left])>> \o DestroySlots(h, left, h.size),
          NoHandler, Erasing(v, P))

\* resize(n, value)
Resize(v, n, from) ==
  LET h == headers[v]
      cap == GrownTo(h, n)
      r == Reserved(h, cap)
  IN  /\ Fits(cap) /\ HasBlock
      /\ IF n > h.size
         THEN Try(Reserve(v, h, cap)
                  \o Upwards(h.size, n - 1, LAMBDA i : Construct(<<r.data, i>>, from))
                  \o <<Become(v, [r EXCEPT !.size = n])>>,
                  NoHandler, Inserting(v, h.size, n - h.size, from))
         ELSE Try(DestroySlots(h, n, h.size) \o <<Become(v, [h EXCEPT !.size = n])>>,
                  NoHandler, Erasing(v, n .. h.size - 1))

\* _assign_copy and assign(n, value), within the capacity.
Overwrite(h, n, from) ==
  Upwards(0, (IF h.size < n THEN h.size ELSE n) - 1, LAMBDA i : Assign(<<h.data, i>>, from[i + 1]))
  \o Upwards(h.size, n - 1, LAMBDA i : Construct(<<h.data, i>>, from[i + 1]))
  \o DestroySlots(h, n, h.size)

\* The elements become copies of the objects from.
AssignCopy(v, from) ==
  LET h == headers[v]
      n == Len(from)
      list == [i \in 1 .. n |-> Object(memory, from[i])]
      r == [data |-> NewBlock, size |-> n, cap |-> n]
  IN  /\ Fits(n) /\ HasBlock
      /\ Try(IF n <= h.cap
             THEN Overwrite(h, n, from) \o <<Become(v, [h EXCEPT !.size = n])>>
             ELSE DestroyAll(h) \o FreeMem(h) \o <<Become(v, Empty), Allocate(NewBlock, n)>>
                  \o Upwards(0, n - 1, LAMBDA i : Construct(<<NewBlock, i>>, from[i + 1]))
                  \o <<Become(v, r)>>,
             NoHandler, [op |-> "assign", on |-> v, list |-> list])

\* operator=(const vector&)
CopyAssign(v, w) == AssignCopy(v, ElementsOf(w))

\* assign(n, value)
Fill(v, n, from) == AssignCopy(v, [i \in 1 .. n |-> from])

\* assign(first, last): clear(), and emplace_back of each object of the range.
AssignRange(v, from) ==
  LET h == headers[v]
      free == ((Blocks \ DOMAIN memory) \cup {h.data}) \ {Null}
      cleared == [h EXCEPT !.size = 0]
      Emplace(done, x) ==
        LET new == CHOOSE b \in free : b # done.header.data
        IN  [header |-> EmplacedHeader(done.header, new),
             program |-> done.program \o Emplacing(v, done.header, new, x)]
      all == FoldLeft(Emplace, [header |-> cleared, program |-> <<>>], from)
      list == [i \in DOMAIN from |-> Object(memory, from[i])]
  IN  /\ Fits(all.header.cap) /\ Cardinality(free) > 1
      /\ Try(DestroyAll(h) \o <<Become(v, cleared)>> \o all.program,
             NoHandler, [op |-> "assign range", on |-> v, list |-> list])

Clear(v) ==
  LET h == headers[v]
  IN  Try(DestroyAll(h) \o <<Become(v, [h EXCEPT !.size = 0])>>,
          NoHandler, Erasing(v, 0 .. h.size - 1))

\* The destructor; the next vector at the address is empty.
Destruct(v) ==
  LET h == headers[v]
  IN  Try(DestroyAll(h) \o FreeMem(h) \o <<Become(v, Empty)>>,
          NoHandler, Erasing(v, 0 .. h.size - 1))

\* operator=(vector&&)
MoveFrom(v, w) ==
  LET h == headers[v]
  IN  Try(DestroyAll(h) \o FreeMem(h) \o <<Become(v, headers[w]), Become(w, Empty)>>,
          NoHandler, [op |-> "take", on |-> v, other |-> w])

Swap(v, w) ==
  Try(<<Become(v, headers[w]), Become(w, headers[v])>>,
      NoHandler, [op |-> "swap", on |-> v, other |-> w])

-----------------------------------------------------------------------------
Init ==
  /\ element \in {"moves", "copies"}
  /\ memory = ("temporary" :> [k \in 0 .. 0 |-> Raw])
  /\ headers = [v \in Vectors |-> Empty]
  /\ misuse = FALSE
  /\ call = [op |-> "none", returned |-> FALSE]

Next ==
  \E v \in Vectors :
    LET size == headers[v].size
    IN  \/ \E from \in Arguments(v) :
             \/ PushBack(v, from) \/ EmplaceBack(v, from)
             \/ \E idx \in 0 .. size : InsertOne(v, idx, from)
        \/ \E n \in headers[v].cap + 1 .. MaxCapacity : ReserveTo(v, n)
        \/ \E from \in Foreign(v), n \in 0 .. MaxCapacity :
             \/ Resize(v, n, from) \/ Fill(v, n, from)
             \/ \E idx \in 0 .. size : n > 0 /\ InsertMany(v, idx, n, from)
        \/ \E idx \in 0 .. size - 1 : \E n \in 1 .. size - idx : Erase(v, idx, n)
        \/ \E P \in SUBSET (0 .. size - 1) : EraseIf(v, P)
        \/ \E from \in Lists : AssignRange(v, from)
        \/ PopBack(v) \/ Clear(v) \/ Destruct(v)
        \/ \E w \in Vectors \ {v} :
             CopyAssign(v, w) \/ AssignRange(v, ElementsOf(w)) \/ MoveFrom(v, w) \/ Swap(v, w)

Spec == Init /\ [][Next]_vars

-----------------------------------------------------------------------------
(* What makes it correct. *)

\* No step is undefined; every allocated block belongs to one vector and is as
\* large as that says; its first size slots hold objects and no others do.
StorageExact ==
  /\ TypeOK
  /\ ~misuse
  /\ DOMAIN memory = ({headers[v].data : v \in Vectors} \ {Null}) \cup {"temporary"}
  /\ memory["temporary"][0] = Raw
  /\ \A v, w \in Vectors : v # w /\ headers[v].data # Null => headers[v].data # headers[w].data
  /\ \A v \in Vectors :
       LET h == headers[v]
       IN  h.data # Null =>
             /\ DOMAIN memory[h.data] = 0 .. h.cap - 1
             /\ \A i \in 0 .. h.cap - 1 : memory[h.data][i] # Raw <=> i < h.size

\* Each vector is the sequence of Contents.
Promise == INSTANCE Contents WITH
  Containers <- Vectors,
  contents <- [v \in Vectors |->
                 [i \in 1 .. headers[v].size |-> memory[headers[v].data][i - 1]]]

PromiseKept == Promise!Spec

=============================================================================
