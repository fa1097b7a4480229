--------------------------- MODULE BudgetAllocation ---------------------------
(***************************************************************************)
(* The two loops of allocate_stage_budgets, one iteration per step.  The   *)
(* hazards are the ones of a numeric loop: it must end, hit the total      *)
(* exactly, never take a stage below one question and never call min() on  *)
(* an empty list of trimmable stages (which would be a deadlock here).     *)
(***************************************************************************)
EXTENDS StageBudgets

CONSTANT Durations        \* interview lengths, in minutes

ASSUME DurationsAssumption == Durations \subseteq 5..60

VARIABLES type,           \* interview type
          minutes,        \* requested duration
          budgets         \* stage -> questions, the dict under construction

vars == <<type, minutes, budgets>>

Budget == ComputeQuestionBudget(minutes)

Init == /\ type \in InterviewTypes
        /\ minutes \in Durations
        /\ budgets = InitialBudgets(type, Budget)

TopUp == /\ TotalOf(budgets) < Budget
         /\ budgets' = [budgets EXCEPT ![TopUpCandidate(type, Budget, budgets)] = @ + 1]
         /\ UNCHANGED <<type, minutes>>

Trim == /\ TotalOf(budgets) > Budget
        /\ Trimmable(budgets) # {}
        /\ budgets' = [budgets EXCEPT ![TrimCandidate(type, Budget, budgets)] = @ - 1]
        /\ UNCHANGED <<type, minutes>>

Done == TotalOf(budgets) = Budget

Return == Done /\ UNCHANGED vars

Next == TopUp \/ Trim \/ Return

\* The loops run in one synchronous call: an enabled iteration is taken.
Spec == Init /\ [][Next]_vars /\ WF_vars(TopUp \/ Trim)

-----------------------------------------------------------------------------
\* The schema bounds of the budget, and a stage dict over asking stages.
TypeOK == /\ Budget \in 3..30
          /\ DOMAIN budgets \subseteq AskingStages
          /\ \A s \in DOMAIN budgets : budgets[s] \in 0..30

\* Every planned stage keeps a question through both loops, and the opening
\* and the closing stage are planned whatever the budget: the state machine
\* relies on CLOSING being reachable to end an interview.
EveryStageKeepsAQuestion ==
    /\ Anchors \subseteq DOMAIN budgets
    /\ \A s \in DOMAIN budgets : budgets[s] >= 1

\* Of the middle stages, one with a larger fraction never ends with fewer
\* questions than one with a smaller fraction, neither by rounding, nor by the
\* order of ties, nor because a small budget shrank the plan (a dropped stage has
\* none).  The opening and the closing stage keep their one question whatever
\* their fraction: a shrunken plan takes it from a middle stage with a larger one.
LargerFractionNeverLoses ==
    LET fractions == StageAllocation[type]
    IN  Done => \A s, t \in DOMAIN fractions \ Anchors :
                    fractions[s] > fractions[t] => At(budgets, s) >= At(budgets, t)

\* The loops stop, with the total exactly equal to the question budget.
AllocationTerminates == <>[]Done
==================================================
