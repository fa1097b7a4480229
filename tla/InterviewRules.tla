---------------------------- MODULE InterviewRules ----------------------------
(***************************************************************************)
(* The rule tables of the interview engine (services/interview/enums.py)   *)
(* and the pure decision function decide_next_action                       *)
(* (services/interview/state_machine.py).  No state: the engine and the    *)
(* session modules are built on these operators.                           *)
(***************************************************************************)
EXTENDS Integers

-----------------------------------------------------------------------------
(* Session statuses and the table of legal transitions.                    *)

Statuses ==
    {"PENDING", "READY", "RUNNING", "PAUSED", "COMPLETED", "FAILED", "CANCELLED"}

StatusTransitions ==
    [PENDING   |-> {"READY", "FAILED", "CANCELLED"},
     READY     |-> {"RUNNING", "FAILED", "CANCELLED"},
     RUNNING   |-> {"PAUSED", "COMPLETED", "FAILED", "CANCELLED"},
     PAUSED    |-> {"RUNNING", "CANCELLED"},
     FAILED    |-> {"READY", "CANCELLED"},
     COMPLETED |-> {},
     CANCELLED |-> {}]

-----------------------------------------------------------------------------
(* Stages.  AskingStages are those in which questions are asked; COMPLETED *)
(* is the end marker.                                                      *)

AskingStages ==
    {"INTRODUCTION", "CANDIDATE_BACKGROUND", "RESUME_DISCUSSION",
     "PROJECT_DEEP_DIVE", "ROLE_SPECIFIC", "BEHAVIORAL", "ADAPTIVE_PROBING",
     "CLOSING"}

Stages == AskingStages \union {"COMPLETED"}

\* Position of a stage in STAGE_ORDER.
StageIndex(s) ==
    CASE s = "INTRODUCTION"         -> 1
      [] s = "CANDIDATE_BACKGROUND" -> 2
      [] s = "RESUME_DISCUSSION"    -> 3
      [] s = "PROJECT_DEEP_DIVE"    -> 4
      [] s = "ROLE_SPECIFIC"        -> 5
      [] s = "BEHAVIORAL"           -> 6
      [] s = "ADAPTIVE_PROBING"     -> 7
      [] s = "CLOSING"              -> 8
      [] s = "COMPLETED"            -> 9

\* Sum of a counter over the eight asking stages.  A stage outside the domain
\* counts for nothing: a stage_budgets dict holds planned stages only.
At(f, s) == IF s \in DOMAIN f THEN f[s] ELSE 0

TotalOf(f) ==
      At(f, "INTRODUCTION")      + At(f, "CANDIDATE_BACKGROUND")
    + At(f, "RESUME_DISCUSSION") + At(f, "PROJECT_DEEP_DIVE")
    + At(f, "ROLE_SPECIFIC")     + At(f, "BEHAVIORAL")
    + At(f, "ADAPTIVE_PROBING")  + At(f, "CLOSING")

-----------------------------------------------------------------------------
(* Actions the evaluator may recommend, and where they are allowed.        *)

Actions ==
    {"ASK_FOLLOW_UP", "PROBE_VAGUE_ANSWER", "VERIFY_CLAIM", "EXPLORE_PROJECT",
     "INCREASE_DIFFICULTY", "DECREASE_DIFFICULTY", "CHANGE_TOPIC",
     "ADVANCE_STAGE", "CLARIFY_QUESTION", "CLOSE_INTERVIEW"}

FollowUpActions ==
    {"ASK_FOLLOW_UP", "PROBE_VAGUE_ANSWER", "VERIFY_CLAIM", "CLARIFY_QUESTION"}

AllowedActionsByStage ==
    [INTRODUCTION         |-> {"ADVANCE_STAGE", "CHANGE_TOPIC"},
     CANDIDATE_BACKGROUND |-> {"ASK_FOLLOW_UP", "CLARIFY_QUESTION",
                               "CHANGE_TOPIC", "ADVANCE_STAGE"},
     RESUME_DISCUSSION    |-> {"ASK_FOLLOW_UP", "PROBE_VAGUE_ANSWER",
                               "VERIFY_CLAIM", "EXPLORE_PROJECT",
                               "CHANGE_TOPIC", "ADVANCE_STAGE"},
     PROJECT_DEEP_DIVE    |-> {"ASK_FOLLOW_UP", "PROBE_VAGUE_ANSWER",
                               "VERIFY_CLAIM", "EXPLORE_PROJECT",
                               "INCREASE_DIFFICULTY", "DECREASE_DIFFICULTY",
                               "CHANGE_TOPIC", "ADVANCE_STAGE"},
     ROLE_SPECIFIC        |-> {"ASK_FOLLOW_UP", "PROBE_VAGUE_ANSWER",
                               "VERIFY_CLAIM", "INCREASE_DIFFICULTY",
                               "DECREASE_DIFFICULTY", "CHANGE_TOPIC",
                               "ADVANCE_STAGE"},
     BEHAVIORAL           |-> {"ASK_FOLLOW_UP", "PROBE_VAGUE_ANSWER",
                               "CHANGE_TOPIC", "ADVANCE_STAGE"},
     ADAPTIVE_PROBING     |-> {"ASK_FOLLOW_UP", "PROBE_VAGUE_ANSWER",
                               "VERIFY_CLAIM", "INCREASE_DIFFICULTY",
                               "DECREASE_DIFFICULTY", "CHANGE_TOPIC",
                               "ADVANCE_STAGE"},
     CLOSING              |-> {"CLOSE_INTERVIEW"},
     COMPLETED            |-> {}]

MaxFollowUpStreak == 2

-----------------------------------------------------------------------------
(* compute_question_budget: about two minutes per question, within 3..30.  *)

ComputeQuestionBudget(minutes) ==
    LET perTwoMinutes == minutes \div 2
    IN  IF perTwoMinutes < 3 THEN 3
        ELSE IF perTwoMinutes > 30 THEN 30 ELSE perTwoMinutes

\* Mutated form: the first stage of the plan other than `current`.
FirstOtherStage(current, planned) ==
    LET others == planned \ {current}
    IN  IF others = {} THEN "COMPLETED"
        ELSE CHOOSE s \in others : \A t \in others : StageIndex(s) <= StageIndex(t)

\* Mutated form: the last stage of the plan after `current`.
LastLaterStage(current, planned) ==
    LET later == {s \in planned : StageIndex(s) > StageIndex(current)}
    IN  IF later = {} THEN "COMPLETED"
        ELSE CHOOSE s \in later : \A t \in later : StageIndex(s) >= StageIndex(t)

\* The first stage of the plan strictly after `current`, COMPLETED if none.
NextStage(current, planned) ==
    LET later == {s \in planned : StageIndex(s) > StageIndex(current)}
    IN  IF later = {} THEN "COMPLETED"
        ELSE CHOOSE s \in later : \A t \in later : StageIndex(s) <= StageIndex(t)

(***************************************************************************)
(* decide_next_action.  `state` carries the fields of EngineState: stage,  *)
(* total, inStage, streak, budget and stageBudgets.  The rules apply in    *)
(* the order of the code; the evaluator's recommendation only counts when  *)
(* no budget is exhausted.                                                 *)
(***************************************************************************)
\* Mutated form: one question more than the share.
StageOverrun(state) ==
    state.inStage > (IF state.stage \in DOMAIN state.stageBudgets
                     THEN state.stageBudgets[state.stage] ELSE 1)

StageExhausted(state) ==
    state.inStage >= (IF state.stage \in DOMAIN state.stageBudgets
                      THEN state.stageBudgets[state.stage] ELSE 1)

InterviewExhausted(state) ==
    \/ state.total >= state.budget
    \/ state.stage = "CLOSING" /\ StageExhausted(state)

\* Mutated form: the per-stage table is not consulted.
Unscreened(state, recommended) ==
    IF recommended \in FollowUpActions /\ state.streak >= MaxFollowUpStreak
    THEN "CHANGE_TOPIC" ELSE recommended

\* Rules 4-6: the follow-up guard, the per-stage table, the safe default.
Screened(state, recommended) ==
    IF /\ recommended \in AllowedActionsByStage[state.stage]
       /\ ~(recommended \in FollowUpActions /\ state.streak >= MaxFollowUpStreak)
    THEN recommended ELSE "CHANGE_TOPIC"

ChosenAction(state, recommended) ==
    IF InterviewExhausted(state) THEN "CLOSE_INTERVIEW"
    ELSE IF StageExhausted(state) THEN "ADVANCE_STAGE"
    ELSE Screened(state, recommended)

TargetStage(state, action) ==
    IF action = "CLOSE_INTERVIEW" THEN "COMPLETED"
    ELSE IF action = "ADVANCE_STAGE"
         THEN NextStage(state.stage, DOMAIN state.stageBudgets)
         ELSE state.stage

\* Advancing past the last planned stage closes the interview.
DecideNextAction(state, recommended) ==
    LET action == ChosenAction(state, recommended)
        target == TargetStage(state, action)
    IN  [action |-> IF target = "COMPLETED" THEN "CLOSE_INTERVIEW" ELSE action,
         stage  |-> target]

(***************************************************************************)
(* _coerce_question_type, seen through what _follow_up_streak tells apart: *)
(* whether the stored question counts as a follow-up.  A question written  *)
(* by the model gets the action's type for a follow-up action and the type *)
(* the model chose otherwise; the deterministic fallback questions are     *)
(* never of a follow-up type.                                              *)
(***************************************************************************)
QuestionSources == {"model", "fallback"}

CountsAsFollowUp(action, source, modelSaysFollowUp) ==
    /\ source = "model"
    /\ action \in FollowUpActions \/ modelSaysFollowUp
=============================================================================
