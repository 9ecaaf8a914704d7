------------------------------ MODULE AtomicWait ------------------------------
(***************************************************************************)
(* atomic<T>::wait and notify (include/atomic, src/atomic.cpp): a loop of  *)
(* a load and a futex call, which sleeps only if the value is still the    *)
(* old one, or of a load and a yield for a T that is not of int's size.    *)
(*                                                                         *)
(* Every thread waits on an atomic of its own for its value to be other    *)
(* than 0; other threads store 0 or 1 and notify after it.                 *)
(***************************************************************************)
CONSTANTS
  Workers,
  Wide  \* those whose atomic is not of int's size

ASSUME WideAssumption == Wide \subseteq Workers

VARIABLES
  value,    \* [Workers -> {0, 1}]
  waiting,  \* [Workers -> where in wait the thread is: "out" of it, about to
            \*             "load", about to call wait_"platform", or "asleep"]
  owed      \* SUBSET Workers: atomics with a store that was not notified yet

waitVars == <<value, waiting, owed>>

WaitTypeOK ==
  /\ value \in [Workers -> {0, 1}]
  /\ waiting \in [Workers -> {"out", "load", "platform", "asleep"}]
  /\ owed \subseteq Workers

WaitInit ==
  /\ value = [w \in Workers |-> 0]
  /\ waiting = [w \in Workers |-> "out"]
  /\ owed = {}

Move(w, from, to) == waiting[w] = from /\ waiting' = [waiting EXCEPT ![w] = to]

CallWait(w) == Move(w, "out", "load") /\ UNCHANGED <<value, owed>>

Load(w) ==
  /\ Move(w, "load", IF value[w] = 0 THEN "platform" ELSE "out")
  /\ UNCHANGED <<value, owed>>

\* MUTANT: sleeps on the value that was loaded.
WaitPlatformBlindly(w) ==
  /\ Move(w, "platform", IF w \notin Wide THEN "asleep" ELSE "load")
  /\ UNCHANGED <<value, owed>>

\* FUTEX_WAIT compares and sleeps in one step.
WaitPlatform(w) ==
  /\ Move(w, "platform", IF w \notin Wide /\ value[w] = 0 THEN "asleep" ELSE "load")
  /\ UNCHANGED <<value, owed>>

WakeEarly(w) == Move(w, "asleep", "load") /\ UNCHANGED <<value, owed>>

Stored(w, v) == value' = [value EXCEPT ![w] = v]

\* What notify does to the threads that sleep on the atomic of w.
Woken(w) == [waiting EXCEPT ![w] = IF @ = "asleep" THEN "load" ELSE @]

\* A thread of the program stores, and notifies later.
Store(w, v) ==
  /\ Stored(w, v)
  /\ owed' = owed \cup {w}
  /\ UNCHANGED waiting

Notify(w) ==
  /\ w \in owed
  /\ waiting' = Woken(w)
  /\ owed' = owed \ {w}
  /\ UNCHANGED value
=============================================================================
