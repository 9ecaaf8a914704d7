-------------------------------- MODULE Readme --------------------------------
(***************************************************************************)
(* README.md as the benchmark scripts read and write it, and what a reader *)
(* of it may expect.  A number is known by the run that measured it.       *)
(***************************************************************************)
EXTENDS Naturals

CONSTANTS
  N,   \* real-world projects that README.md lists, 1..N
  NA   \* "n/a" where a number should be

VARIABLES
  readme,   \* README.md
  before,   \* README.md when the last command started
  run,      \* number of the last run of run_benchmarks.sh
  outcome   \* of the last command

Listed == 1..N

\* The parts of README.md that are generated, or that the scripts look for: the
\* project rows it links, its text, the numbers of the rows, and the ones that the
\* mean and the median in the summary were computed from.  The text is "whole",
\* "cut off" so that a marker is missing, or "tail lost" after the last marker.
Quoting(rows, words, start) ==
  [links |-> N, text |-> "whole", rows |-> rows, words |-> words, startup |-> start,
   summary |-> <<rows, words>>]

Committed == Quoting([p \in Listed |-> 0], 0, 0)

(***************************************************************************)
(* Properties                                                              *)
(***************************************************************************)
\* When run_benchmarks.sh says that all reports are updated, README.md quotes this
\* run's measurement of every listed project and of start-up (and of the word
\* counter, unless that did not compile), with a summary of the rows it shows: no
\* number of an earlier run where this one failed, and no list of projects taken
\* from a README.md whose table or markers were cut off.
FinishedQuotesThisRun ==
  outcome = "finished" =>
    /\ readme.links = N /\ readme.text # "cut off"
    /\ \A p \in Listed : readme.rows[p] = run
    /\ readme.words \in {run, NA} /\ readme.startup = run
    /\ readme.summary = <<readme.rows, readme.words>>

\* A command that fails at anything earlier than its write of README.md (a benchmark,
\* a report, a formatting, a missing marker) leaves README.md as it found it: the
\* blocks are replaced in memory.  One that fails or dies in that write or after it
\* leaves the old text or the new one: new rows have the summary that belongs to
\* them unless the text ends before it.
FailureLeavesReadme ==
  /\ outcome = "failed" => readme = before
  /\ outcome \in {"failed late", "killed"} =>
       \/ readme = before
       \/ readme.text = "cut off"
       \/ readme.summary = <<readme.rows, readme.words>>
===============================================================================
