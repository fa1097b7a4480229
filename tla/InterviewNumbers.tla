---------------------------- MODULE InterviewNumbers ----------------------------
(***************************************************************************)
(* The arithmetic at both ends of an interview: the question budget and    *)
(* its split over the stages when it is created, the readiness scores when *)
(* it is reported.  In between at most one answer per question of the      *)
(* budget is evaluated (InterviewEngine.WithinBudgets).                    *)
(***************************************************************************)
EXTENDS BudgetAllocation, InterviewReadiness

CONSTANT Held       \* bound: <<type, minutes>> of the interviews followed to the report

numbers == <<type, minutes, budgets, evaluations, report>>

NumbersInit == Init /\ ReadinessInit

AnswerQuestion(evaluation) ==
    /\ Done
    /\ <<type, minutes>> \in Held
    /\ Len(evaluations) < Budget
    /\ Evaluate(evaluation)
    /\ UNCHANGED vars

Report == Done /\ <<type, minutes>> \in Held /\ ComputeReadiness /\ UNCHANGED vars

NumbersNext ==
    \/ Next /\ UNCHANGED <<evaluations, report>>
    \/ \E evaluation \in Evaluations : AnswerQuestion(evaluation)
    \/ Report

NumbersSpec == NumbersInit /\ [][NumbersNext]_numbers /\ WF_vars(TopUp \/ Trim)
=================================================================================
