----------------------------- MODULE MCBenchmarks -----------------------------
(***************************************************************************)
(* Small instances for TLC of the two levels of the real-world benchmarks, *)
(* one of them per behaviour: the commands that build recipes              *)
(* (RealworldBuilds), and the runs that use such commands to write reports *)
(* and README.md (BenchmarkReports with BudgetPlan).                       *)
(***************************************************************************)
EXTENDS RealworldBuilds, BudgetPlan, Readme

CONSTANTS Rounds, MaxRuns

VARIABLES
  level,     \* "builds" or "reports"
  report, compile_time, startup, doing, todo

R == INSTANCE Recipes
MCRecipe == R!PROJECTS
MCPool == 1..3

B == INSTANCE BenchmarkReports

ASSUME B!ReportsAssumption

\* The recipes of the repository meet what the theorems about them suppose.
ASSUME RecipesAgree /\ RecipesReport

report_vars == <<plan, report, compile_time, startup, readme, before, run, doing, todo, outcome>>

Call(costs, budget, most) ==
  [n |-> Cardinality(DOMAIN costs), cost |-> costs, budget |-> budget, max_reps |-> most]

\* Budgets that are too small, that end between two projects, and that leave
\* everyone at max_reps; a cut-off README.md has one or two of the projects.
MCInputs ==
  {Call(c, b, 4) : c \in {<<2, 3, 7>>, <<7, 2, 3>>, <<3, 3, 1>>}, b \in {11, 26, 60}}
    \union {Call(<<2, 3>>, 11, 3), Call(<<5>>, 21, 3)}

MCInit == level \in {"builds", "reports"} /\ Init /\ B!Init

MCNext ==
  /\ UNCHANGED level
  /\ \/ level = "builds" /\ Next /\ UNCHANGED report_vars
     \/ level = "reports" /\ B!Next /\ UNCHANGED vars

MCSpec == MCInit /\ [][MCNext]_<<level, vars, report_vars>> /\ WF_vars(Run)

\* The second command is one that the files of the first can matter to.
Related ==
  pc = "idle" /\ cmd' # NoCommand =>
    \/ commands = 0
    \/ \E a \in Range(Rcp'.archives) : a.dest \in DOMAIN dl
    \/ Rcp'.prefix \in DOMAIN dirs
===============================================================================
