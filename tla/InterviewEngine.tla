---------------------------- MODULE InterviewEngine ----------------------------
(***************************************************************************)
(* What the adaptive engine promises about the questions of ONE interview, *)
(* with requests, storage and failures left out: the opening question, one *)
(* decision per evaluated answer, the end.  It is the abstract             *)
(* specification that InterviewSession implements.                         *)
(*                                                                         *)
(* The code recomputes the counters from the interview_questions rows for  *)
(* every decision; here they are the state.                                *)
(***************************************************************************)
EXTENDS InterviewRules

CONSTANT Plans      \* possible [budget, stageBudgets] of a created interview

\* What allocate_stage_budgets returns for a budget the schema allows.
WellFormedPlan(p) ==
    /\ p.budget \in Nat
    /\ DOMAIN p.stageBudgets \subseteq AskingStages
    /\ {"INTRODUCTION", "CLOSING"} \subseteq DOMAIN p.stageBudgets
    /\ \A s \in DOMAIN p.stageBudgets : p.stageBudgets[s] \in Nat \ {0}
    /\ TotalOf(p.stageBudgets) = p.budget

ASSUME PlansAssumption == \A p \in Plans : WellFormedPlan(p)

VARIABLES
    plan,       \* question_budget and stage budgets, fixed at creation
    stage,      \* current_stage
    used,       \* question_budget_used
    asked,      \* asking stage -> number of questions stored for it
    streak      \* trailing follow-up questions of the current stage

vars == <<plan, stage, used, asked, streak>>

Init == /\ plan \in Plans
        /\ stage = "INTRODUCTION"
        /\ used = 0
        /\ asked = [s \in AskingStages |-> 0]
        /\ streak = 0

EngineState == [stage |-> stage, total |-> used, inStage |-> asked[stage],
                streak |-> streak, budget |-> plan.budget,
                stageBudgets |-> plan.stageBudgets]

\* Mutated form: follow-up questions are not charged to the budget.
StoreQuestionFollowUpsFree(s, followUp) ==
    /\ used' = IF followUp THEN used ELSE used + 1
    /\ stage' = s
    /\ asked' = [asked EXCEPT ![s] = @ + 1]
    /\ streak' = IF ~followUp THEN 0 ELSE IF s = stage THEN streak + 1 ELSE 1
    /\ UNCHANGED plan

\* Store the next question in stage s.
StoreQuestion(s, followUp) ==
    /\ used' = used + 1
    /\ stage' = s
    /\ asked' = [asked EXCEPT ![s] = @ + 1]
    /\ streak' = IF ~followUp THEN 0 ELSE IF s = stage THEN streak + 1 ELSE 1
    /\ UNCHANGED plan

\* start_interview: the opening question.
Open(source, modelSaysFollowUp) ==
    /\ used = 0
    /\ StoreQuestion("INTRODUCTION",
                     CountsAsFollowUp("CHANGE_TOPIC", source, modelSaysFollowUp))

\* The second half of submit_answer: the decision on an evaluated answer.
Ask(recommended, source, modelSaysFollowUp) ==
    /\ used > 0
    /\ stage # "COMPLETED"
    /\ LET decision == DecideNextAction(EngineState, recommended)
       IN  /\ decision.action # "CLOSE_INTERVIEW"
           /\ StoreQuestion(decision.stage,
                            CountsAsFollowUp(decision.action, source, modelSaysFollowUp))

\* Mutated form: current_stage is not moved to COMPLETED.
CloseKeepingStage(recommended) ==
    /\ used > 0
    /\ stage # "COMPLETED"
    /\ DecideNextAction(EngineState, recommended).action = "CLOSE_INTERVIEW"
    /\ UNCHANGED vars

Close(recommended) ==
    /\ used > 0
    /\ stage # "COMPLETED"
    /\ DecideNextAction(EngineState, recommended).action = "CLOSE_INTERVIEW"
    /\ stage' = "COMPLETED"
    /\ UNCHANGED <<plan, used, asked, streak>>

Cycle == \E recommended \in Actions :
            \/ Close(recommended)
            \/ \E source \in QuestionSources, modelSaysFollowUp \in BOOLEAN :
                  Ask(recommended, source, modelSaysFollowUp)

Next == \/ \E source \in QuestionSources, modelSaysFollowUp \in BOOLEAN :
              Open(source, modelSaysFollowUp)
        \/ Cycle

Spec == Init /\ [][Next]_vars

\* An interview whose candidate keeps answering: every opened interview goes
\* through its next cycle, whatever the evaluator recommends.
DiligentSpec == Spec /\ WF_vars(Next)

-----------------------------------------------------------------------------
\* The engine's counters stay in their ranges and agree with each other:
\* question_budget_used is the number of stored questions.
TypeOK == /\ plan \in Plans
          /\ stage \in Stages
          /\ used \in Nat
          /\ asked \in [AskingStages -> Nat]
          /\ streak \in Nat
          /\ used = TotalOf(asked)

\* No interview exceeds its question budget and no stage exceeds its share,
\* whatever sequence of recommendations the evaluator produces.
WithinBudgets ==
    /\ used <= plan.budget
    /\ \A s \in AskingStages : asked[s] <= At(plan.stageBudgets, s)

\* The stages of the plan are visited in order and none is skipped: once the
\* interview is open its stage is a planned one, every planned stage up to it
\* has asked a question and no later stage has.
PlanFollowed ==
    /\ used = 0 => stage = "INTRODUCTION"
    /\ used > 0 => stage \in DOMAIN plan.stageBudgets \union {"COMPLETED"}
    /\ used > 0 => \A s \in DOMAIN plan.stageBudgets :
                      StageIndex(s) <= StageIndex(stage) => asked[s] >= 1
    /\ \A s \in AskingStages : StageIndex(s) > StageIndex(stage) => asked[s] = 0

\* Every completed interview has been through its whole plan, CLOSING
\* included: neither an exhausted total nor any recommendation can end it
\* before each planned stage has asked at least one question.
CompletesOnlyAfterWholePlan ==
    stage = "COMPLETED" => \A s \in DOMAIN plan.stageBudgets : asked[s] >= 1

\* Stages move forward only (enums.py: "backward transitions are illegal"),
\* and never onto a stage outside the plan of the interview.
StagesForward ==
    [][/\ StageIndex(stage) <= StageIndex(stage')
       /\ stage' \in DOMAIN plan.stageBudgets \union {"COMPLETED"}]_stage

\* A completed interview never asks again, and an unfinished one always has a
\* legal decision: a diligent candidate reaches the end of every interview.
EventuallyCompletes == <>[](stage = "COMPLETED")
=============================================================================
