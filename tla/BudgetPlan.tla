------------------------------ MODULE BudgetPlan ------------------------------
(***************************************************************************)
(* _budget_plan of generate_realworld_benchmark_reports.py: how many       *)
(* repetitions each linked project gets within an estimated time budget.   *)
(* One repetition of every project comes first; what is left of the budget *)
(* goes, a repetition at a time, to the project that has been given the    *)
(* least estimated time.  Times are whole seconds, as in the recipes.      *)
(***************************************************************************)
EXTENDS Integers

CONSTANT Inputs   \* calls: records of the projects' costs, the budget and max_reps

ASSUME InputsAssumption ==
  \A in \in Inputs :
    /\ in.n \in Nat /\ in.cost \in [1..in.n -> Nat]
    /\ in.budget \in Nat /\ in.max_reps \in Nat \ {0}

VARIABLES
  input,      \* the arguments: costs[project] for the projects 1..n in order
  stage,      \* "costs", "allocate", "planned" or "refused"
  next,       \* sum(): the project to be added
  minimum,    \* the cost of one repetition of every project
  reps,       \* repetitions by project
  remaining   \* of the budget

plan == <<input, stage, next, minimum, reps, remaining>>

Project == 1..input.n
cost == input.cost
max_reps == input.max_reps

PlanInit ==
  /\ input \in Inputs
  /\ stage = "costs" /\ next = 1 /\ minimum = 0
  /\ reps = [p \in Project |-> 0] /\ remaining = 0

AddUp ==
  /\ stage = "costs" /\ next \in Project
  /\ minimum' = minimum + cost[next] /\ next' = next + 1
  /\ UNCHANGED <<input, stage, reps, remaining>>

\* Too small a budget is an error; otherwise everyone starts with one.
Minimum ==
  /\ stage = "costs" /\ next \notin Project
  /\ \/ minimum > input.budget /\ stage' = "refused" /\ UNCHANGED <<reps, remaining>>
     \/ /\ minimum <= input.budget /\ stage' = "allocate"
        /\ reps' = [p \in Project |-> 1] /\ remaining' = input.budget - minimum
  /\ UNCHANGED <<input, next, minimum>>

\* Mutant: what is left need not pay for it.
CandidatesAll == {p \in Project : reps[p] < max_reps}

Candidates == {p \in Project : reps[p] < max_reps /\ cost[p] <= remaining}

\* Mutant: repetitions are equalized.
AllocateReps(p) ==
  /\ stage = "allocate" /\ p \in Candidates
  /\ \A q \in Candidates : reps[p] < reps[q] \/ (reps[p] = reps[q] /\ p <= q)
  /\ reps' = [reps EXCEPT ![p] = @ + 1]
  /\ remaining' = remaining - cost[p]
  /\ UNCHANGED <<input, stage, next, minimum>>

\* min(candidates, key=reps * cost): the first of those with the least.
Allocate(p) ==
  /\ stage = "allocate" /\ p \in Candidates
  /\ \A q \in Candidates :
       \/ reps[p] * cost[p] < reps[q] * cost[q]
       \/ reps[p] * cost[p] = reps[q] * cost[q] /\ p <= q
  /\ reps' = [reps EXCEPT ![p] = @ + 1]
  /\ remaining' = remaining - cost[p]
  /\ UNCHANGED <<input, stage, next, minimum>>

Planned ==
  /\ stage = "allocate" /\ Candidates = {}
  /\ stage' = "planned"
  /\ UNCHANGED <<input, next, minimum, reps, remaining>>

PlanNext == AddUp \/ Minimum \/ (\E p \in Project : Allocate(p)) \/ Planned

PlanSpec == PlanInit /\ [][PlanNext]_plan

(***************************************************************************)
(* Properties                                                              *)
(***************************************************************************)
\* The code's comment: "Equalize estimated measurement time instead of
\* repetition counts."  When a project p has been given more than one
\* repetition, any q that could have had it instead (it is below max_reps, and
\* p's last repetition would pay for one of q) is given no less time than p
\* without that last repetition.
EqualShares ==
  stage \in {"allocate", "planned"} =>
    \A p, q \in Project :
      reps[p] > 1 /\ reps[q] < max_reps /\ cost[q] <= remaining + cost[p]
        => (reps[p] - 1) * cost[p] <= reps[q] * cost[q]

\* The plan is within the budget, every project has between one repetition and
\* max_reps, and at the end nobody could have another.
EstimatedTotal ==
  LET f[p \in 0..input.n] == IF p = 0 THEN 0 ELSE f[p - 1] + reps[p] * cost[p] IN f[input.n]

PlanFits ==
  stage \in {"allocate", "planned"} =>
    /\ EstimatedTotal <= input.budget
    /\ \A p \in Project : reps[p] \in 1..max_reps
    /\ stage = "planned" =>
         \A p \in Project : reps[p] = max_reps \/ EstimatedTotal + cost[p] > input.budget
===============================================================================
