--------------------------- MODULE BenchmarkReports ---------------------------
(***************************************************************************)
(* run_benchmarks.sh and the files that outlive it.  One run plans and     *)
(* measures the real-world projects that README.md links, then header      *)
(* costs, focused compile times and start-up, each into a report of its    *)
(* own, and at last copies numbers from the reports into README.md.  Any   *)
(* command may fail, which ends the run (set -e), and the run may be       *)
(* killed at any point; a report or README.md then being written may be    *)
(* cut off.  update_readme_from_benchmarks.py is also run on its own.  A number *)
(* is known by the run that measured it.                                   *)
(***************************************************************************)
EXTENDS BudgetPlan, Readme

CONSTANTS
  Torn,     \* a report that was cut off before its numbers
  MaxRuns   \* bound: runs of run_benchmarks.sh

ReportsAssumption == N \in Nat \ {0} /\ MaxRuns \in Nat

VARIABLES
  report,        \* <project>_speed_report.md, by project
  compile_time,  \* compile_time.md: its wordcounter rows
  startup,       \* startup.md
  doing, todo    \* where the command is; real-world projects still to measure

reports == <<report, compile_time, startup>>
vars == <<plan, reports, readme, before, run, doing, todo, outcome>>

NoInput == [n |-> 0, cost |-> <<>>, budget |-> 0, max_reps |-> 1]

ForgetPlan ==
  /\ input' = NoInput /\ stage' = "none"
  /\ next' = 1 /\ minimum' = 0 /\ reps' = <<>> /\ remaining' = 0

\* The reports and README.md of a repository whose last run was number 0.
Init ==
  /\ input = NoInput /\ stage = "none"
  /\ next = 1 /\ minimum = 0 /\ reps = <<>> /\ remaining = 0
  /\ report = [p \in Listed |-> 0] /\ compile_time = 0 /\ startup = 0
  /\ readme = Committed
  /\ before = readme
  /\ run = 0 /\ doing = "nothing" /\ todo = {} /\ outcome = "none"

Stop(how) == doing' = "nothing" /\ outcome' = how /\ todo' = {} /\ before' = before

\* The script stops at the first command that fails, a formatting one included; a
\* command that fails to write its report leaves a torn one.
Fail == Stop("failed") /\ ForgetPlan /\ UNCHANGED run

Goto(where, left) ==
  doing' = where /\ todo' = left /\ UNCHANGED <<before, run, outcome>>

\* generate_realworld_benchmark_reports.py reads the links; without any it stops.
Start ==
  /\ doing = "nothing" /\ run < MaxRuns
  /\ run' = run + 1 /\ before' = readme
  /\ \/ /\ readme.links = 0
        /\ doing' = doing /\ outcome' = "failed" /\ UNCHANGED <<plan, todo>>
     \/ /\ \E in \in Inputs : in.n = readme.links /\ input' = in   \* --time-budget
        /\ stage' = "costs" /\ reps' = [p \in 1..input'.n |-> 0]
        /\ UNCHANGED <<next, minimum, remaining>>
        /\ doing' = "plan" /\ outcome' = "none" /\ UNCHANGED todo
     \/ /\ readme.links # 0                                        \* --reps
        /\ doing' = "projects" /\ todo' = 1..readme.links /\ outcome' = "none"
        /\ UNCHANGED plan
  /\ UNCHANGED <<reports, readme>>

Plan ==
  /\ doing = "plan" /\ PlanNext
  /\ UNCHANGED <<reports, readme, before, run, doing, todo, outcome>>

PlanEnds ==
  /\ doing = "plan"
  /\ \/ stage = "refused" /\ Fail
     \/ stage = "planned" /\ Goto("projects", 1..readme.links) /\ ForgetPlan
  /\ UNCHANGED <<reports, readme>>

\* Mutant: a failed benchmark does not stop the others (check=False).
MeasureUnchecked(p) ==
  /\ doing = "projects" /\ p \in todo
  /\ report' \in {report, [report EXCEPT ![p] = run]} /\ Goto(doing, todo \ {p})
  /\ UNCHANGED <<plan, compile_time, startup, readme>>

\* benchmark_realworld.py --output; in README order or --order speed.  mdformat
\* runs after the report is written.
Measure(p) ==
  /\ doing = "projects" /\ p \in todo
  /\ \/ report' = [report EXCEPT ![p] = run] /\ Goto(doing, todo \ {p}) /\ UNCHANGED plan
     \/ report' \in {report} \union {[report EXCEPT ![p] = new] : new \in {run, Torn}} /\ Fail
  /\ UNCHANGED <<compile_time, startup, readme>>

\* run_markdown_format.sh, and benchmark_header_cost.py into its own report.
Headers ==
  /\ \/ doing = "projects" /\ todo = {} /\ (Goto("headers", {}) \/ Fail)
     \/ doing = "headers" /\ (Goto("compile", {}) \/ Fail)
  /\ ForgetPlan /\ UNCHANGED <<reports, readme>>

\* A workload that does not compile is reported as "n/a", not as a failure.
CompileTime ==
  /\ doing = "compile"
  /\ \/ compile_time' \in {run, NA} /\ (Goto("startup", {}) \/ Fail)
     \/ compile_time' \in {compile_time, Torn} /\ Fail
  /\ ForgetPlan /\ UNCHANGED <<report, startup, readme>>

Startup ==
  /\ doing = "startup"
  /\ \/ startup' = run /\ (Goto("sync", {}) \/ Fail)
     \/ startup' \in {startup, Torn} /\ Fail
  /\ ForgetPlan /\ UNCHANGED <<report, compile_time, readme>>

\* update_readme_from_benchmarks.py run by hand.
SyncAlone ==
  /\ doing = "nothing" /\ before' = readme
  /\ doing' = "sync alone" /\ outcome' = "none"
  /\ UNCHANGED <<plan, reports, readme, run, todo>>

Syncing == doing \in {"sync", "sync alone"}
Readable ==
  /\ compile_time # Torn /\ startup # Torn
  /\ readme.text # "cut off" /\ \A p \in Listed : report[p] # Torn

\* main(): rows, then the summary over them, then the other blocks, in memory.
\* A tail that is lost already stays lost.
SyncedText == [Quoting(report, compile_time, startup) EXCEPT !.text = readme.text]

\* Mutant: the rows are written to README.md before the start-up report is read.
SyncInParts ==
  /\ Syncing
  /\ \/ ~Readable /\ Fail
        /\ IF readme.text # "cut off" /\ \A p \in Listed : report[p] # Torn
           THEN readme' = [readme EXCEPT !.rows = report, !.summary = <<report, readme.words>>]
           ELSE UNCHANGED readme
     \/ /\ Readable
        /\ doing' = IF doing = "sync" THEN "write" ELSE "write alone"
        /\ UNCHANGED <<plan, before, run, todo, outcome, readme>>
  /\ UNCHANGED reports

Sync ==
  /\ Syncing
  /\ \/ ~Readable /\ Fail
     \/ /\ Readable
        /\ doing' = IF doing = "sync" THEN "write" ELSE "write alone"
        /\ UNCHANGED <<plan, before, run, todo, outcome>>
  /\ UNCHANGED <<reports, readme>>

Writing == doing \in {"write", "write alone"}

\* README.write_text that does not end well: the old text, the new one, or a prefix
\* of the new one, which may go beyond the last marker.
HalfWritten ==
  {readme, SyncedText, [SyncedText EXCEPT !.text = "tail lost"]}
    \union {[SyncedText EXCEPT !.text = "cut off", !.links = k] : k \in 0..N}

\* README.write_text: the last thing the synchronisation does.
Write ==
  /\ Writing
  /\ \/ readme' = SyncedText
        /\ \/ doing = "write" /\ Goto("format", {})
           \/ doing = "write alone" /\ Stop("synced")
     \/ readme' \in HalfWritten /\ Stop("failed late")
  /\ UNCHANGED <<plan, reports, run>>

\* The last run_markdown_format.sh, which may fail too.
Format ==
  /\ doing = "format" /\ (Stop("finished") \/ Stop("failed late"))
  /\ UNCHANGED <<plan, reports, readme, run>>

\* SIGKILL or a lost machine: what is being written is cut off somewhere.
Kill ==
  /\ doing # "nothing" /\ Stop("killed") /\ ForgetPlan
  /\ report' \in {report} \union {[report EXCEPT ![p] = Torn] : p \in todo}
  /\ compile_time' \in {compile_time} \union IF doing = "compile" THEN {Torn, NA} ELSE {}
  /\ startup' \in {startup} \union IF doing = "startup" THEN {Torn} ELSE {}
  /\ readme' \in IF Writing THEN HalfWritten ELSE {readme}
  /\ UNCHANGED run

\* git checkout README.md
Restore ==
  /\ doing = "nothing" /\ readme.text # "whole"
  /\ readme' = Committed /\ outcome' = "none"
  /\ UNCHANGED <<plan, reports, before, run, doing, todo>>

Next ==
  \/ Start \/ Plan \/ PlanEnds \/ (\E p \in Listed : Measure(p))
  \/ Headers \/ CompileTime \/ Startup
  \/ SyncAlone \/ Sync \/ Write \/ Format \/ Kill \/ Restore

Spec == Init /\ [][Next]_vars

===============================================================================
