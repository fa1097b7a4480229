---------------------- MODULE InterviewQuestionsProofs ----------------------
(***************************************************************************)
(* For every set of well-formed plans: the engine's counters agree, no     *)
(* interview exceeds a budget, none completes before its whole plan has    *)
(* been through, and stages only move forward.  For every cap of the lists *)
(* and every list of topics besides: memory holds each question that can   *)
(* be compared, only the last resort is asked twice, and no topic is lost. *)
(* The engine comes first, then facts about _merge that hold for all lists *)
(* and caps.                                                               *)
(***************************************************************************)
EXTENDS InterviewQuestions, InterviewRulesProofs, SequenceTheorems

-----------------------------------------------------------------------------
(* The decisions of decide_next_action, seen from a state of the engine.   *)

Planned == DOMAIN plan.stageBudgets

\* The inductive invariant.  WithinBudgets is inductive only together with
\* PlanFollowed: the stage an interview advances to has an unused share
\* because no later stage has asked a question before.
IInv == TypeOK /\ WithinBudgets /\ PlanFollowed

LEMMA PlanIsWellFormed ==
    ASSUME TypeOK
    PROVE  WellFormedPlan(plan)
  BY PlansAssumption DEF TypeOK

\* What the invariant says of the stage an open interview is in.
LEMMA OpenStage ==
    ASSUME IInv, used > 0, stage # "COMPLETED"
    PROVE  /\ stage \in Planned
           /\ stage \in AskingStages
           /\ Planned \subseteq AskingStages
           /\ \A s \in Planned : At(plan.stageBudgets, s) = plan.stageBudgets[s]
           /\ \A s \in Planned : plan.stageBudgets[s] \in Nat \ {0}
           /\ \A s \in AskingStages : At(plan.stageBudgets, s) \in Nat
  BY PlanIsWellFormed DEF IInv, PlanFollowed, Planned, WellFormedPlan, At

\* Whatever is recommended, the interview closes only when every planned
\* stage has asked a question.
LEMMA CloseDecision ==
    ASSUME IInv, used > 0, stage # "COMPLETED", NEW recommended \in Actions,
           DecideNextAction(EngineState, recommended).action = "CLOSE_INTERVIEW"
    PROVE  \A s \in Planned : asked[s] >= 1
<1>1. WellFormedPlan(plan) /\ TypeOK /\ WithinBudgets /\ PlanFollowed
  BY PlanIsWellFormed DEF IInv
<1>2. CASE used >= plan.budget
  <2>1. TotalOf(asked) >= TotalOf(plan.stageBudgets)
    BY <1>1, <1>2 DEF TypeOK, WellFormedPlan
  <2>2. \A s \in AskingStages : asked[s] = At(plan.stageBudgets, s)
    BY <1>1, <2>1, OpenStage, TotalOfBound DEF TypeOK, WithinBudgets
  <2> QED
    BY <2>2, OpenStage
<1>3. CASE stage = "CLOSING"
  BY <1>1, <1>3, OpenStage, StageIndexOrder, StageIndexValues DEF PlanFollowed, Planned
<1>4. CASE used < plan.budget /\ stage # "CLOSING"
  <2>1. ChosenAction(EngineState, recommended) # "CLOSE_INTERVIEW"
    BY <1>4, <1>1 DEF ChosenAction, InterviewExhausted, Screened, EngineState,
                 AllowedActionsByStage, TypeOK, Stages, AskingStages, WellFormedPlan
  <2>2. NextStage(stage, Planned) = "COMPLETED"
    BY <2>1, OpenStage DEF DecideNextAction, TargetStage, EngineState, Planned, AskingStages
  <2>3. {s \in Planned : StageIndex(s) > StageIndex(stage)} = {}
    BY <2>2, OpenStage, NextStageSpec DEF AskingStages, Stages
  <2>4. \A s \in Planned : StageIndex(s) <= StageIndex(stage)
    BY <2>3, OpenStage, StageIndexOrder DEF Stages
  <2> QED
    BY <1>1, <2>4 DEF PlanFollowed, Planned
<1> QED
  BY <1>1, <1>2, <1>3, <1>4 DEF TypeOK, WellFormedPlan

\* Otherwise the next question goes to the current stage, which has some of
\* its share left, or to the first planned stage after it.
LEMMA AskDecision ==
    ASSUME IInv, used > 0, stage # "COMPLETED", NEW recommended \in Actions,
           DecideNextAction(EngineState, recommended).action # "CLOSE_INTERVIEW"
    PROVE  LET next == DecideNextAction(EngineState, recommended).stage
           IN  \/ next = stage /\ asked[stage] < plan.stageBudgets[stage]
               \/ /\ next \in Planned
                  /\ StageIndex(next) > StageIndex(stage)
                  /\ \A t \in Planned : StageIndex(t) > StageIndex(stage)
                                           => StageIndex(next) <= StageIndex(t)
<1> DEFINE action == ChosenAction(EngineState, recommended)
           next   == TargetStage(EngineState, action)
<1>1. next # "COMPLETED" /\ action # "CLOSE_INTERVIEW"
  BY DEF DecideNextAction, TargetStage
<1>2. DecideNextAction(EngineState, recommended).stage = next
  BY DEF DecideNextAction
<1>3. CASE action = "ADVANCE_STAGE"
  <2>1. next = NextStage(stage, Planned)
    BY <1>3 DEF TargetStage, EngineState, Planned
  <2>2. stage \in Stages /\ Planned \in SUBSET AskingStages
    BY OpenStage DEF Stages
  <2> QED
    BY <1>1, <1>2, <2>1, <2>2, NextStageSpec
<1>4. CASE action # "ADVANCE_STAGE"
  <2>1. next = stage
    BY <1>1, <1>4 DEF TargetStage, EngineState
  <2>2. ~StageExhausted(EngineState)
    BY <1>1, <1>4 DEF ChosenAction
  <2>3. asked[stage] < plan.stageBudgets[stage]
    BY <2>2, OpenStage DEF StageExhausted, EngineState, Planned, IInv, TypeOK
  <2> QED
    BY <1>2, <2>1, <2>3
<1> QED
  BY <1>3, <1>4

-----------------------------------------------------------------------------
(* The invariant is inductive.                                             *)

LEMMA InitInvariant ==
    ASSUME Init
    PROVE  IInv
<1>1. WellFormedPlan(plan)
  BY PlansAssumption DEF Init
<1>2. TypeOK
  BY DEF Init, TypeOK, Stages, TotalOf, At, AskingStages
<1>3. WithinBudgets
  BY <1>1 DEF Init, WithinBudgets, WellFormedPlan, At, AskingStages
<1>4. PlanFollowed
  BY DEF Init, PlanFollowed
<1> QED
  BY <1>2, <1>3, <1>4 DEF IInv

\* A question goes to a stage with some of its share left, no planned stage
\* between the current one and it being skipped.
LEMMA StoreInvariant ==
    ASSUME IInv, WellFormedPlan(plan), NEW s \in Planned, NEW followUp \in BOOLEAN,
           StoreQuestion(s, followUp),
           asked[s] < plan.stageBudgets[s],
           StageIndex(stage) <= StageIndex(s),
           \A t \in Planned : StageIndex(t) < StageIndex(s) => asked[t] >= 1
    PROVE  IInv'
<1>1. s \in AskingStages /\ Planned \subseteq AskingStages
  BY DEF WellFormedPlan, Planned
<1>2. /\ asked \in [AskingStages -> Nat] /\ used \in Nat /\ streak \in Nat
      /\ used = TotalOf(asked) /\ stage \in Stages /\ plan \in Plans
  BY DEF IInv, TypeOK
<1>3. /\ plan' = plan /\ used' = used + 1 /\ stage' = s
      /\ asked' = [asked EXCEPT ![s] = @ + 1]
      /\ streak' \in Nat
  BY <1>2 DEF StoreQuestion
<1>4. TypeOK'
  <2>1. TotalOf(asked') = TotalOf(asked) + 1
    BY <1>1, <1>2, <1>3, TotalOfIncrement
  <2> QED
    BY <1>1, <1>2, <1>3, <2>1 DEF TypeOK, Stages
<1>5. WithinBudgets'
  <2>1. \A t \in AskingStages : /\ At(plan.stageBudgets, t) \in Nat
                               /\ asked'[t] <= At(plan.stageBudgets, t)
    BY <1>1, <1>2, <1>3 DEF IInv, WithinBudgets, WellFormedPlan, At, Planned
  <2>2. asked' \in [AskingStages -> Nat] /\ used' = TotalOf(asked')
    BY <1>4 DEF TypeOK
  <2>3. TotalOf(asked') <= TotalOf(plan.stageBudgets)
    BY <2>1, <2>2, TotalOfBound
  <2>4. used' <= plan.budget
    BY <2>2, <2>3 DEF WellFormedPlan
  <2> QED
    BY <1>3, <2>1, <2>4 DEF WithinBudgets
<1>6. PlanFollowed'
  <2>1. used' > 0 /\ stage' \in DOMAIN plan'.stageBudgets
    BY <1>2, <1>3 DEF Planned
  <2>2. \A t \in Planned : StageIndex(t) <= StageIndex(s) => asked'[t] >= 1
    BY <1>1, <1>2, <1>3, StageIndexOrder DEF Stages
  <2>3. \A t \in AskingStages : StageIndex(t) > StageIndex(s) => asked'[t] = 0
    BY <1>1, <1>2, <1>3, StageIndexOrder DEF IInv, PlanFollowed, Stages
  <2> QED
    BY <1>3, <2>1, <2>2, <2>3 DEF PlanFollowed, Planned
<1> QED
  BY <1>4, <1>5, <1>6 DEF IInv

LEMMA OpenInvariant ==
    ASSUME IInv, NEW source \in QuestionSources, NEW modelSaysFollowUp \in BOOLEAN,
           Open(source, modelSaysFollowUp)
    PROVE  IInv'
<1> DEFINE followUp == CountsAsFollowUp("CHANGE_TOPIC", source, modelSaysFollowUp)
<1>1. WellFormedPlan(plan) /\ "INTRODUCTION" \in Planned
  BY PlanIsWellFormed DEF IInv, WellFormedPlan, Planned
<1>2. stage = "INTRODUCTION" /\ used = 0
  BY DEF IInv, PlanFollowed, Open
<1>3. asked["INTRODUCTION"] = 0
  <2>1. "INTRODUCTION" \in AskingStages /\ asked \in [AskingStages -> Nat]
    BY DEF AskingStages, IInv, TypeOK
  <2>2. asked["INTRODUCTION"] <= TotalOf(asked)
    BY <2>1, TotalOfPart
  <2> QED
    BY <1>2, <2>1, <2>2 DEF IInv, TypeOK
<1>4. asked["INTRODUCTION"] < plan.stageBudgets["INTRODUCTION"]
  BY <1>1, <1>3 DEF WellFormedPlan, Planned, AskingStages
<1>5. \A t \in Planned : ~(StageIndex(t) < StageIndex("INTRODUCTION"))
  BY <1>1, StageIndexOrder, StageIndexValues DEF WellFormedPlan, Planned, Stages
<1>6. followUp \in BOOLEAN
  BY DEF CountsAsFollowUp
<1>7. StoreQuestion("INTRODUCTION", followUp)
  BY DEF Open
<1>8. StageIndex(stage) <= StageIndex("INTRODUCTION")
  BY <1>2, StageIndexValues
<1> QED
  BY <1>1, <1>4, <1>5, <1>6, <1>7, <1>8, StoreInvariant

LEMMA AskInvariant ==
    ASSUME IInv, NEW recommended \in Actions, NEW source \in QuestionSources,
           NEW modelSaysFollowUp \in BOOLEAN,
           Ask(recommended, source, modelSaysFollowUp)
    PROVE  IInv'
<1> DEFINE decision == DecideNextAction(EngineState, recommended)
           next     == decision.stage
           followUp == CountsAsFollowUp(decision.action, source, modelSaysFollowUp)
<1>1. /\ used > 0 /\ stage # "COMPLETED" /\ decision.action # "CLOSE_INTERVIEW"
      /\ StoreQuestion(next, followUp)
  BY DEF Ask
<1>2. /\ WellFormedPlan(plan) /\ stage \in Planned /\ Planned \subseteq AskingStages
      /\ \A s \in Planned : plan.stageBudgets[s] \in Nat \ {0}
      /\ \A s \in Planned : StageIndex(s) <= StageIndex(stage) => asked[s] >= 1
      /\ \A s \in AskingStages : StageIndex(s) > StageIndex(stage) => asked[s] = 0
  BY <1>1, PlanIsWellFormed, OpenStage DEF IInv, PlanFollowed, Planned
<1>3. followUp \in BOOLEAN
  BY DEF CountsAsFollowUp
<1>4. \A s \in Planned : StageIndex(s) \in Nat /\ s \in Stages
  BY <1>2, StageIndexOrder DEF Stages
<1>5. CASE next = stage /\ asked[stage] < plan.stageBudgets[stage]
  <2>1. \A t \in Planned : StageIndex(t) < StageIndex(next) => asked[t] >= 1
    BY <1>2, <1>4, <1>5
  <2>2. StageIndex(stage) <= StageIndex(next)
    BY <1>2, <1>4, <1>5
  <2> HIDE DEF next, followUp
  <2> QED
    BY <1>1, <1>2, <1>3, <1>5, <2>1, <2>2, StoreInvariant
<1>6. CASE /\ next \in Planned
           /\ StageIndex(next) > StageIndex(stage)
           /\ \A t \in Planned : StageIndex(t) > StageIndex(stage)
                                    => StageIndex(next) <= StageIndex(t)
  <2> HIDE DEF next, followUp
  <2>1. asked[next] < plan.stageBudgets[next]
    BY <1>2, <1>6
  <2>2. \A t \in Planned : StageIndex(t) < StageIndex(next) => asked[t] >= 1
    BY <1>2, <1>4, <1>6
  <2>3. StageIndex(stage) <= StageIndex(next)
    BY <1>2, <1>4, <1>6
  <2> QED
    BY <1>1, <1>2, <1>3, <1>6, <2>1, <2>2, <2>3, StoreInvariant
<1> QED
  BY <1>1, <1>5, <1>6, AskDecision

LEMMA CloseInvariant ==
    ASSUME IInv, NEW recommended \in Actions, Close(recommended)
    PROVE  IInv'
<1>1. /\ used > 0 /\ stage' = "COMPLETED"
      /\ plan' = plan /\ used' = used /\ asked' = asked /\ streak' = streak
  BY DEF Close
<1>2. \A s \in Planned : asked[s] >= 1
  BY CloseDecision DEF Close
<1>3. TypeOK' /\ WithinBudgets'
  BY <1>1 DEF IInv, TypeOK, WithinBudgets, Stages
<1>4. PlanFollowed'
  BY <1>1, <1>2, StageIndexOrder, StageIndexValues
     DEF IInv, TypeOK, PlanFollowed, Planned, Stages
<1> QED
  BY <1>3, <1>4 DEF IInv

LEMMA NextInvariant ==
    ASSUME IInv, [Next]_vars
    PROVE  IInv'
<1>1. CASE UNCHANGED vars
  BY <1>1 DEF vars, IInv, TypeOK, WithinBudgets, PlanFollowed
<1>2. CASE Next
  BY <1>2, OpenInvariant, AskInvariant, CloseInvariant DEF Next, Cycle
<1> QED
  BY <1>1, <1>2

\* Every reachable state satisfies the inductive invariant.
THEOREM Invariance == Spec => []IInv
<1>1. Init => IInv
  BY InitInvariant
<1>2. IInv /\ [Next]_vars => IInv'
  BY NextInvariant
<1> QED
  BY <1>1, <1>2, PTL DEF Spec

-----------------------------------------------------------------------------
(* What it says of every interview.                                        *)

\* The counters of the engine agree with each other in every reachable state:
\* question_budget_used is the number of stored questions.
THEOREM TypeCorrect == Spec => []TypeOK
  BY Invariance, PTL DEF IInv

\* No sequence of recommendations makes an interview exceed its question
\* budget, or a stage its share.
THEOREM BudgetsHold == Spec => []WithinBudgets
  BY Invariance, PTL DEF IInv

\* The plan is followed stage by stage, without a gap.
THEOREM PlanIsFollowed == Spec => []PlanFollowed
  BY Invariance, PTL DEF IInv

\* An interview completes only when every planned stage has asked a question.
THEOREM CompletesWholePlan == Spec => []CompletesOnlyAfterWholePlan
<1>1. IInv => CompletesOnlyAfterWholePlan
  <2> SUFFICES ASSUME IInv, stage = "COMPLETED", NEW s \in Planned
               PROVE  asked[s] >= 1
    BY DEF CompletesOnlyAfterWholePlan, Planned
  <2>1. used > 0
    BY DEF IInv, TypeOK, PlanFollowed
  <2>2. s \in AskingStages
    BY PlanIsWellFormed DEF IInv, WellFormedPlan, Planned
  <2>3. StageIndex(s) <= StageIndex(stage)
    BY <2>2, StageIndexOrder, StageIndexValues DEF Stages
  <2> QED
    BY <2>1, <2>3 DEF IInv, PlanFollowed, Planned
<1> QED
  BY <1>1, Invariance, PTL

\* A step never takes the stage backward, nor onto an unplanned stage.
THEOREM StagesMoveForward == Spec => StagesForward
<1> DEFINE Forward == /\ StageIndex(stage) <= StageIndex(stage')
                      /\ stage' \in DOMAIN plan.stageBudgets \union {"COMPLETED"}
<1>1. IInv /\ [Next]_vars => [Forward]_stage
  <2> SUFFICES ASSUME IInv, Next, stage' # stage
               PROVE  Forward
    BY DEF vars
  <2>1. stage \in Stages /\ \A s \in Stages : StageIndex(s) \in 1..9
    BY StageIndexOrder DEF IInv, TypeOK
  <2>2. ASSUME NEW source \in QuestionSources, NEW modelSaysFollowUp \in BOOLEAN,
               Open(source, modelSaysFollowUp)
        PROVE  FALSE
    BY <2>2 DEF Open, StoreQuestion, IInv, PlanFollowed
  <2>3. ASSUME NEW recommended \in Actions, Close(recommended)
        PROVE  Forward
    BY <2>1, <2>3, StageIndexValues DEF Close
  <2>4. ASSUME NEW recommended \in Actions, NEW source \in QuestionSources,
               NEW modelSaysFollowUp \in BOOLEAN,
               Ask(recommended, source, modelSaysFollowUp)
        PROVE  Forward
    <3> DEFINE next == DecideNextAction(EngineState, recommended).stage
    <3>1. stage' = next
      BY <2>4 DEF Ask, StoreQuestion
    <3>2. /\ next \in Planned
          /\ StageIndex(next) > StageIndex(stage)
      BY <2>4, <3>1, AskDecision DEF Ask
    <3>3. StageIndex(next) \in 1..9
      BY <2>1, <3>2, PlanIsWellFormed DEF IInv, WellFormedPlan, Planned, Stages
    <3> QED
      BY <2>1, <3>1, <3>2, <3>3 DEF Planned
  <2> QED
    BY <2>2, <2>3, <2>4 DEF Next, Cycle
<1> QED
  BY <1>1, Invariance, PTL DEF Spec, StagesForward

-----------------------------------------------------------------------------
(* What _merge keeps.                                                      *)

Places(all) == {i \in DOMAIN all : New(all, i)}

Distinct(list) == \A i, j \in DOMAIN list : list[i] = list[j] => i = j

LEMMA MinOfTwo ==
    ASSUME NEW x \in Int, NEW y \in Int
    PROVE  Min({x, y}) = IF x <= y THEN x ELSE y
<1>1. \E m \in {x, y} : \A z \in {x, y} : m <= z
  OBVIOUS
<1>2. Min({x, y}) \in {x, y} /\ \A z \in {x, y} : Min({x, y}) <= z
  BY <1>1 DEF Min
<1> QED
  BY <1>2

\* The new items are numbered from 1, and Place finds each by its number.
LEMMA PlaceFound ==
    ASSUME NEW S, NEW all \in Seq(S)
    PROVE  /\ Places(all) \subseteq 1 .. Len(all)
           /\ Cardinality(Places(all)) \in 0 .. Len(all)
           /\ \A k \in 1 .. Cardinality(Places(all)) :
                 Place(all, k) \in Places(all) /\ Rank(Places(all), Place(all, k)) = k
           /\ \A i \in Places(all) : /\ Rank(Places(all), i) \in 1 .. Cardinality(Places(all))
                                     /\ Place(all, Rank(Places(all), i)) = i
<1> DEFINE P == Places(all)
           n == Cardinality(P)
<1>1. Len(all) \in Nat /\ DOMAIN all = 1 .. Len(all) /\ P \subseteq 1 .. Len(all)
  BY LenProperties DEF Places
<1>2. /\ n \in 0 .. Len(all)
      /\ \A i \in P : Rank(P, i) \in 1 .. n
      /\ \A i, j \in P : i < j => Rank(P, i) < Rank(P, j)
      /\ \A k \in 1 .. n : \E i \in P : Rank(P, i) = k
  <2> HIDE DEF P
  <2> QED
    BY <1>1, Ranks
<1>3. \A i \in P : {j \in 1 .. i : New(all, j)} = Upto(P, i)
  BY <1>1 DEF Places, Upto
<1>4. \A k : Place(all, k) = CHOOSE i \in DOMAIN all : i \in P /\ Rank(P, i) = k
  <2> SUFFICES ASSUME NEW k
               PROVE  Place(all, k) = CHOOSE i \in DOMAIN all : i \in P /\ Rank(P, i) = k
    OBVIOUS
  <2>1. \A i \in DOMAIN all :
           (New(all, i) /\ Cardinality({j \in 1 .. i : New(all, j)}) = k)
             <=> (i \in P /\ Rank(P, i) = k)
    BY <1>3 DEF Places, Rank
  <2> HIDE DEF P
  <2> QED
    BY <2>1 DEF Place
<1>5. \A i, j \in P : Rank(P, i) = Rank(P, j) => i = j
  <2> HIDE DEF P
  <2>1. \A i \in P : i \in Int /\ Rank(P, i) \in Int
    BY <1>1, <1>2
  <2> QED
    BY <1>2, <2>1
<1>6. \A i \in P : i \in DOMAIN all
  BY DEF Places
<1> HIDE DEF P, n
<1>7. \A k \in 1 .. n : Place(all, k) \in P /\ Rank(P, Place(all, k)) = k
  BY <1>2, <1>4, <1>6
<1>8. \A i \in P : Rank(P, i) \in 1 .. n /\ Place(all, Rank(P, i)) = i
  BY <1>2, <1>5, <1>7
<1> QED
  BY <1>1, <1>2, <1>7, <1>8 DEF P, n

\* FirstOccurrences holds every item that is not blank, once.
LEMMA FirstOccurrencesAreAll ==
    ASSUME NEW S, NEW all \in Seq(S)
    PROVE  /\ FirstOccurrences(all) \in Seq(S)
           /\ Len(FirstOccurrences(all)) = Cardinality(Places(all))
           /\ Len(FirstOccurrences(all)) <= Len(all)
           /\ Distinct(FirstOccurrences(all))
           /\ ToSet(FirstOccurrences(all)) = ToSet(all) \ {Blank}
           /\ \A i \in Places(all) : FirstOccurrences(all)[Rank(Places(all), i)] = all[i]
<1> DEFINE P == Places(all)
           n == Cardinality(P)
           m == FirstOccurrences(all)
<1>1. /\ P \subseteq 1 .. Len(all) /\ n \in 0 .. Len(all)
      /\ \A k \in 1 .. n : Place(all, k) \in P /\ Rank(P, Place(all, k)) = k
      /\ \A i \in P : Rank(P, i) \in 1 .. n /\ Place(all, Rank(P, i)) = i
  BY PlaceFound
<1>2. /\ Len(all) \in Nat /\ DOMAIN all = 1 .. Len(all)
      /\ \A i \in DOMAIN all : all[i] \in S
  BY LenProperties, ElementOfSeq
<1>3. m = [k \in 1 .. n |-> all[Place(all, k)]]
  BY DEF FirstOccurrences, Places
<1>4. /\ \A i \in P : i \in DOMAIN all /\ all[i] # Blank
      /\ \A i, j \in P : all[i] = all[j] => i = j
  <2>1. \A i \in P : /\ i \in DOMAIN all /\ all[i] # Blank
                     /\ \A j \in 1 .. i - 1 : all[j] # all[i]
    BY DEF Places, New
  <2>2. \A i \in P : i \in 1 .. Len(all)
    BY <1>1
  <2> HIDE DEF P
  <2>3. ASSUME NEW i \in P, NEW j \in P, all[i] = all[j]
        PROVE  i = j
    <3>1. ~(i \in 1 .. j - 1) /\ ~(j \in 1 .. i - 1)
      BY <2>1, <2>3
    <3> QED
      BY <1>2, <2>2, <3>1
  <2> QED
    BY <2>1, <2>3
<1>5. ASSUME NEW v \in ToSet(all), v # Blank
      PROVE  \E i \in P : all[i] = v
  <2> DEFINE Q == {i \in DOMAIN all : all[i] = v}
  <2>1. Q \subseteq 1 .. Len(all) /\ Q # {}
    BY <1>2 DEF ToSet
  <2>2. PICK i \in Q : \A j \in Q : i <= j
    <3> HIDE DEF Q
    <3> QED
      BY <1>2, <2>1, FirstPlace
  <2>3. i \in 1 .. Len(all) /\ all[i] = v
    BY <1>2
  <2>4. \A j \in 1 .. i - 1 : j \in DOMAIN all /\ all[j] # v
    BY <1>2, <2>2, <2>3
  <2>5. New(all, i)
    BY <1>5, <2>3, <2>4 DEF New
  <2> QED
    BY <1>2, <2>3, <2>5 DEF Places
<1> HIDE DEF P, n, m
<1>6. m \in [1 .. n -> S] /\ n \in Nat
  <2>1. \A k \in 1 .. n : all[Place(all, k)] \in S
    BY <1>1, <1>2, <1>4
  <2>2. n \in Nat
    BY <1>1, <1>2
  <2> QED
    BY <1>3, <2>1, <2>2
<1>7. m \in Seq(S) /\ Len(m) = n /\ DOMAIN m = 1 .. n
  BY <1>6
<1>8. \A k \in 1 .. n : m[k] = all[Place(all, k)]
  BY <1>3
<1>9. Distinct(m)
  <2> SUFFICES ASSUME NEW k \in 1 .. n, NEW l \in 1 .. n, m[k] = m[l]
               PROVE  k = l
    BY <1>7 DEF Distinct
  <2>1. Place(all, k) = Place(all, l)
    BY <1>1, <1>4, <1>8
  <2> QED
    BY <1>1, <2>1
<1>10. \A i \in P : m[Rank(P, i)] = all[i]
  BY <1>1, <1>8
<1>11. ToSet(m) = ToSet(all) \ {Blank}
  <2>1. ToSet(m) \subseteq ToSet(all) \ {Blank}
    BY <1>1, <1>4, <1>7, <1>8 DEF ToSet
  <2>2. ToSet(all) \ {Blank} \subseteq ToSet(m)
    BY <1>1, <1>5, <1>7, <1>10 DEF ToSet
  <2> QED
    BY <2>1, <2>2
<1>12. n <= Len(all)
  BY <1>1, <1>2
<1> QED
  BY <1>7, <1>9, <1>10, <1>11, <1>12 DEF P, n, m

\* A cap cuts the end of a list.
LEMMA CappedKeeps ==
    ASSUME NEW S, NEW list \in Seq(S), NEW cap \in Nat
    PROVE  /\ Capped(list, cap) \in Seq(S)
           /\ Len(Capped(list, cap)) = IF cap <= Len(list) THEN cap ELSE Len(list)
           /\ \A k \in 1 .. Len(Capped(list, cap)) : Capped(list, cap)[k] = list[k]
<1> DEFINE m == IF cap <= Len(list) THEN cap ELSE Len(list)
<1>1. Len(list) \in Nat /\ cap \in Int /\ Len(list) \in Int /\ m \in Int /\ m >= 0 /\ m <= Len(list)
  BY LenProperties
<1>2. Min({cap, Len(list)}) = m
  BY <1>1, MinOfTwo
<1>3. \A i \in 1 .. m : list[i] \in S
  <2>1. \A i \in 1 .. m : i \in 1 .. Len(list)
    BY <1>1
  <2> QED
    BY <2>1, ElementOfSeq
<1>4. Capped(list, cap) = SubSeq(list, 1, m)
  BY <1>2 DEF Capped
<1> HIDE DEF m
<1>5. /\ SubSeq(list, 1, m) \in Seq(S)
      /\ Len(SubSeq(list, 1, m)) = IF 1 <= m THEN m - 1 + 1 ELSE 0
      /\ \A i \in 1 .. m - 1 + 1 : SubSeq(list, 1, m)[i] = list[1 + i - 1]
  <2>1. 1 \in Int
    OBVIOUS
  <2> QED
    BY <1>1, <1>3, <2>1, SubSeqProperties
<1>6. Len(SubSeq(list, 1, m)) = m /\ \A i \in 1 .. m : SubSeq(list, 1, m)[i] = list[i]
  BY <1>1, <1>5
<1> QED
  BY <1>4, <1>5, <1>6 DEF m

\* The places of a list followed by additions.
LEMMA PlacesOfBoth ==
    ASSUME NEW S, NEW list \in Seq(S), NEW additions \in Seq(S)
    PROVE  /\ list \o additions \in Seq(S)
           /\ DOMAIN (list \o additions) = 1 .. Len(list) + Len(additions)
           /\ \A i \in 1 .. Len(list) : (list \o additions)[i] = list[i]
           /\ \A i \in 1 .. Len(list) + Len(additions) :
                 i > Len(list) => (list \o additions)[i] \in ToSet(additions)
           /\ ToSet(list \o additions) = ToSet(list) \union ToSet(additions)
<1> DEFINE all == list \o additions
<1>1. /\ Len(list) \in Nat /\ Len(additions) \in Nat
      /\ DOMAIN list = 1 .. Len(list) /\ DOMAIN additions = 1 .. Len(additions)
  BY LenProperties
<1>2. /\ all \in Seq(S) /\ Len(all) = Len(list) + Len(additions)
      /\ \A i \in 1 .. Len(list) + Len(additions) :
            all[i] = IF i <= Len(list) THEN list[i] ELSE additions[i - Len(list)]
  BY ConcatProperties
<1>3. DOMAIN all = 1 .. Len(list) + Len(additions)
  BY <1>2, LenProperties
<1> HIDE DEF all
<1>4. \A i \in 1 .. Len(list) : all[i] = list[i] /\ i \in DOMAIN all
  BY <1>1, <1>2, <1>3
<1>5. \A i \in 1 .. Len(additions) : /\ all[Len(list) + i] = additions[i]
                                    /\ Len(list) + i \in DOMAIN all
  BY <1>1, <1>2, <1>3
<1>6. \A i \in 1 .. Len(list) + Len(additions) :
         i > Len(list) => i - Len(list) \in DOMAIN additions /\ all[i] = additions[i - Len(list)]
  BY <1>1, <1>2
<1>7. \A i \in 1 .. Len(list) + Len(additions) : i > Len(list) => all[i] \in ToSet(additions)
  BY <1>6 DEF ToSet
<1>8. ToSet(list) \subseteq ToSet(all) /\ ToSet(additions) \subseteq ToSet(all)
  BY <1>1, <1>4, <1>5 DEF ToSet
<1>9. ToSet(all) \subseteq ToSet(list) \union ToSet(additions)
  <2> SUFFICES ASSUME NEW i \in DOMAIN all
               PROVE  all[i] \in ToSet(list) \union ToSet(additions)
    BY DEF ToSet
  <2>1. CASE i <= Len(list)
    <3>1. i \in DOMAIN list /\ all[i] = list[i]
      BY <1>1, <1>2, <1>3, <2>1
    <3> QED
      BY <3>1 DEF ToSet
  <2>2. CASE i > Len(list)
    BY <1>3, <1>7, <2>2
  <2> QED
    BY <1>1, <1>3, <2>1, <2>2
<1> QED
  BY <1>2, <1>3, <1>4, <1>7, <1>8, <1>9 DEF all

\* What _merge returns holds no blank entry and none twice, and no more of
\* them than the cap allows.
LEMMA MergeProperties ==
    ASSUME NEW S, NEW list \in Seq(S), NEW additions \in Seq(S), NEW cap \in Nat
    PROVE  LET merged == Merge(list, additions, cap)
           IN  /\ merged \in Seq(S) /\ Len(merged) <= cap
               /\ Distinct(merged)
               /\ ToSet(merged) \subseteq (ToSet(list) \union ToSet(additions)) \ {Blank}
<1> DEFINE all == list \o additions
           items == FirstOccurrences(all)
           merged == Merge(list, additions, cap)
<1>1. all \in Seq(S) /\ ToSet(all) = ToSet(list) \union ToSet(additions)
  BY PlacesOfBoth
<1>2. merged = Capped(items, cap)
  BY DEF Merge
<1> HIDE DEF all, merged
<1>3. items \in Seq(S) /\ Distinct(items) /\ ToSet(items) = ToSet(all) \ {Blank}
  BY <1>1, FirstOccurrencesAreAll
<1> HIDE DEF items
<1>4. /\ merged \in Seq(S)
      /\ Len(merged) = IF cap <= Len(items) THEN cap ELSE Len(items)
      /\ \A k \in 1 .. Len(merged) : merged[k] = items[k]
  BY <1>2, <1>3, CappedKeeps
<1>5. /\ DOMAIN merged = 1 .. Len(merged) /\ DOMAIN items = 1 .. Len(items)
      /\ Len(items) \in Nat /\ Len(merged) \in Nat
  BY <1>3, <1>4, LenProperties
<1>6. Len(merged) <= cap /\ Len(merged) <= Len(items)
  BY <1>4, <1>5
<1>7. \A k \in DOMAIN merged : k \in DOMAIN items /\ merged[k] = items[k]
  BY <1>4, <1>5, <1>6
<1>8. Distinct(merged) /\ ToSet(merged) \subseteq ToSet(items)
  BY <1>3, <1>7 DEF Distinct, ToSet
<1> QED
  BY <1>1, <1>3, <1>4, <1>6, <1>8 DEF merged

\* Nothing new to add: the list keeps everything it holds but blank entries,
\* and it does not grow.
LEMMA MergeNothingNew ==
    ASSUME NEW S, NEW list \in Seq(S), NEW additions \in Seq(S), NEW cap \in Nat,
           Len(list) <= cap, ToSet(additions) \subseteq ToSet(list) \union {Blank}
    PROVE  /\ ToSet(Merge(list, additions, cap)) = ToSet(list) \ {Blank}
           /\ Len(Merge(list, additions, cap)) <= Len(list)
<1> DEFINE all == list \o additions
           P == Places(all)
           items == FirstOccurrences(all)
           merged == Merge(list, additions, cap)
<1>1. /\ all \in Seq(S)
      /\ DOMAIN all = 1 .. Len(list) + Len(additions)
      /\ \A i \in 1 .. Len(list) : all[i] = list[i]
      /\ \A i \in 1 .. Len(list) + Len(additions) : i > Len(list) => all[i] \in ToSet(additions)
      /\ ToSet(all) = ToSet(list) \union ToSet(additions)
  BY PlacesOfBoth
<1>2. merged = Capped(items, cap)
  BY DEF Merge
<1>3. Len(list) \in Nat /\ Len(additions) \in Nat /\ DOMAIN list = 1 .. Len(list)
  BY LenProperties
<1> HIDE DEF all, merged
<1>4. P \subseteq 1 .. Len(list)
  <2> SUFFICES ASSUME NEW i \in DOMAIN all, New(all, i), ~(i <= Len(list))
               PROVE  FALSE
    BY <1>1, <1>3 DEF Places
  <2>1. i \in 1 .. Len(list) + Len(additions) /\ i > Len(list)
    BY <1>1, <1>3
  <2>2. all[i] \in ToSet(list) \union {Blank} /\ all[i] # Blank
    BY <1>1, <2>1 DEF New
  <2>3. PICK j \in 1 .. Len(list) : all[i] = list[j]
    BY <1>3, <2>2 DEF ToSet
  <2>4. all[j] = all[i] /\ j \in 1 .. i - 1
    BY <1>1, <1>3, <2>1, <2>3
  <2> QED
    BY <2>4 DEF New
<1>5. /\ items \in Seq(S) /\ Len(items) = Cardinality(P)
      /\ ToSet(items) = ToSet(all) \ {Blank}
  BY <1>1, FirstOccurrencesAreAll
<1> HIDE DEF P, items
<1>6. Cardinality(P) \in 0 .. Len(list)
  BY <1>3, <1>4, Ranks
<1>7. /\ merged \in Seq(S)
      /\ Len(merged) = IF cap <= Len(items) THEN cap ELSE Len(items)
      /\ \A k \in 1 .. Len(merged) : merged[k] = items[k]
  BY <1>2, <1>5, CappedKeeps
<1>8. Len(items) \in Nat /\ Len(items) <= Len(list) /\ Len(merged) = Len(items)
  BY <1>3, <1>5, <1>6, <1>7
<1>9. DOMAIN merged = 1 .. Len(merged) /\ DOMAIN items = 1 .. Len(items)
  BY <1>5, <1>7, LenProperties
<1>10. ToSet(merged) = ToSet(items)
  BY <1>7, <1>8, <1>9 DEF ToSet
<1> QED
  BY <1>1, <1>5, <1>8, <1>10 DEF merged

\* A list that holds no blank entry and none twice keeps all of them: the cap
\* refuses what is added.
LEMMA MergeKeepsFirst ==
    ASSUME NEW S, NEW list \in Seq(S), NEW additions \in Seq(S), NEW cap \in Nat,
           Len(list) <= cap, Distinct(list), Blank \notin ToSet(list)
    PROVE  ToSet(list) \subseteq ToSet(Merge(list, additions, cap))
<1> DEFINE all == list \o additions
           P == Places(all)
           items == FirstOccurrences(all)
           merged == Merge(list, additions, cap)
<1>1. /\ all \in Seq(S)
      /\ DOMAIN all = 1 .. Len(list) + Len(additions)
      /\ \A i \in 1 .. Len(list) : all[i] = list[i]
  BY PlacesOfBoth
<1>2. merged = Capped(items, cap)
  BY DEF Merge
<1>3. Len(list) \in Nat /\ Len(additions) \in Nat /\ DOMAIN list = 1 .. Len(list)
  BY LenProperties
<1> HIDE DEF all, merged
<1>4. \A i \in 1 .. Len(list) : i \in P
  <2> SUFFICES ASSUME NEW i \in 1 .. Len(list)
               PROVE  i \in DOMAIN all /\ New(all, i)
    BY DEF Places
  <2>1. i \in DOMAIN all /\ all[i] # Blank
    BY <1>1, <1>3 DEF ToSet
  <2>2. \A j \in 1 .. i - 1 : all[j] = list[j] /\ j \in DOMAIN list /\ j # i
    BY <1>1, <1>3
  <2>3. \A j \in 1 .. i - 1 : all[j] # all[i]
    BY <1>1, <1>3, <2>2 DEF Distinct
  <2> QED
    BY <2>1, <2>3 DEF New
<1>5. /\ items \in Seq(S) /\ Len(items) = Cardinality(P)
      /\ \A i \in P : items[Rank(P, i)] = all[i]
  BY <1>1, FirstOccurrencesAreAll
<1>6. \A i \in P : Rank(P, i) \in 1 .. Cardinality(P)
  BY <1>1, PlaceFound
<1> HIDE DEF P, items
<1>7. \A i \in 1 .. Len(list) : Rank(P, i) = i
  <2> SUFFICES ASSUME NEW i \in 1 .. Len(list)
               PROVE  Rank(P, i) = i
    OBVIOUS
  <2>1. i \in Nat /\ \A j \in 1 .. i : j \in 1 .. Len(list)
    BY <1>3
  <2>2. Upto(P, i) = 1 .. i
    BY <1>4, <2>1 DEF Upto
  <2> QED
    BY <2>1, <2>2, IntervalFinite DEF Rank
<1>8. /\ merged \in Seq(S)
      /\ Len(merged) = IF cap <= Len(items) THEN cap ELSE Len(items)
      /\ \A k \in 1 .. Len(merged) : merged[k] = items[k]
  BY <1>2, <1>5, CappedKeeps
<1>9. DOMAIN merged = 1 .. Len(merged) /\ Len(items) \in Nat
  BY <1>5, <1>8, LenProperties
<1>10. ASSUME NEW i \in 1 .. Len(list)
       PROVE  i \in DOMAIN merged /\ merged[i] = list[i]
  <2>1. i \in 1 .. Len(items) /\ items[i] = list[i]
    BY <1>1, <1>4, <1>5, <1>6, <1>7
  <2>2. i \in 1 .. Len(merged)
    BY <1>3, <1>8, <1>9, <2>1
  <2> QED
    BY <1>8, <1>9, <2>1, <2>2
<1> QED
  BY <1>3, <1>10 DEF ToSet, merged

-----------------------------------------------------------------------------
(* The state of the questions.                                             *)

Texts == {Blank} \union ({"model"} \X Nat) \union (AskingStages \X Nat)

Topics == UNION {ToSet(list) : list \in TopicLists}

\* What the three invariants need beside each other: memory never holds more
\* questions than were stored, so that its cap never cuts one, and the list of
\* explored topics is within its own cap, so that a merge keeps all of it.
Lists ==
    /\ texts \in Seq(Texts) /\ Len(texts) = used
    /\ remembered \in Seq(Texts) /\ Len(remembered) <= used
    /\ explored \in Seq(Topics) /\ Len(explored) <= ListCap
    /\ Distinct(explored) /\ Blank \notin ToSet(explored)

\* The inductive invariant.
QInv == /\ IInv
        /\ Lists
        /\ EveryQuestionRemembered
        /\ RepeatsOnlyLastResort
        /\ NoTopicLost

LastResorts == {SuffixedFallback(s) : s \in AskingStages} \union {Blank}

LEMMA TopicListsAreLists == \A list \in TopicLists : list \in Seq(Topics)
<1> SUFFICES ASSUME NEW list \in TopicLists
             PROVE  list \in Seq(Topics)
  OBVIOUS
<1>1. list \in Seq(ToSet(list)) /\ ToSet(list) \subseteq Topics
  BY ContentAssumption DEF Topics
<1>2. Len(list) \in Nat /\ list \in [1 .. Len(list) -> ToSet(list)]
  BY <1>1, LenProperties
<1> QED
  BY <1>1, <1>2

LEMMA LastIsStored ==
    ASSUME texts \in Seq(Texts), Len(texts) > 0
    PROVE  /\ <<Last(texts)>> \in Seq(Texts)
           /\ ToSet(<<Last(texts)>>) \subseteq ToSet(texts)
<1>1. Len(texts) \in 1 .. Len(texts) /\ DOMAIN texts = 1 .. Len(texts)
  BY LenProperties
<1>2. Last(texts) \in Texts /\ Last(texts) \in ToSet(texts)
  BY <1>1, ElementOfSeq DEF Last, ToSet
<1>3. ToSet(<<Last(texts)>>) = {Last(texts)}
  BY DEF ToSet
<1> QED
  BY <1>2, <1>3

\* Folding the answered question into memory forgets no question that can be
\* compared, whatever the cap: that question is in memory already.
LEMMA QuestionsMergedKeeps ==
    ASSUME QInv, used > 0
    PROVE  /\ QuestionsMerged \in Seq(Texts)
           /\ Len(QuestionsMerged) <= Len(remembered)
           /\ ToSet(QuestionsMerged) = ToSet(remembered) \ {Blank}
<1>1. /\ texts \in Seq(Texts) /\ Len(texts) = used /\ used \in Nat /\ plan \in Plans
      /\ remembered \in Seq(Texts) /\ Len(remembered) <= used /\ used <= plan.budget
      /\ ToSet(texts) \subseteq ToSet(remembered) \union {Blank}
  BY DEF QInv, Lists, IInv, TypeOK, WithinBudgets, EveryQuestionRemembered
<1>2. QuestionCap \in Nat /\ plan.budget <= QuestionCap /\ plan.budget \in Nat
  BY <1>1, ContentAssumption, PlansAssumption DEF WellFormedPlan
<1>3. Len(remembered) \in Nat /\ Len(remembered) <= QuestionCap
  BY <1>1, <1>2, LenProperties
<1>4. /\ <<Last(texts)>> \in Seq(Texts)
      /\ ToSet(<<Last(texts)>>) \subseteq ToSet(remembered) \union {Blank}
  BY <1>1, LastIsStored
<1>5. QuestionsMerged \in Seq(Texts)
  BY <1>1, <1>2, <1>4, MergeProperties DEF QuestionsMerged
<1> QED
  BY <1>1, <1>2, <1>3, <1>4, <1>5, MergeNothingNew DEF QuestionsMerged

\* What is written for a stage is a text that memory does not hold, or the
\* last resort.
LEMMA GeneratedIsNew ==
    ASSUME texts \in Seq(Texts), NEW source, NEW s \in AskingStages, NEW known,
           NEW text \in Generated(source, s, known)
    PROVE  text \in Texts /\ (text \notin known \/ text \in LastResorts)
<1>1. Blank \in Texts /\ Fallback(s) \in Texts /\ SuffixedFallback(s) \in Texts
  BY DEF Fallback, SuffixedFallback, Texts
<1>2. Fresh \in Texts
  <2>1. Len(texts) + 1 \in Nat
    BY LenProperties
  <2> QED
    BY <2>1 DEF Fresh, Texts
<1>3. ToSet(texts) \subseteq Texts
  BY LenProperties DEF ToSet
<1>4. Candidates(s) \subseteq Texts
  BY <1>1, <1>2, <1>3 DEF Candidates
<1> QED
  BY <1>1, <1>4 DEF Generated, LastResorts

\* Storing a text that the kept memory was asked about.
LEMMA StoreText ==
    ASSUME texts \in Seq(Texts), RepeatsOnlyLastResort,
           NEW kept \in Seq(Texts), Len(kept) <= Len(texts),
           ToSet(texts) \subseteq ToSet(kept) \union {Blank},
           NEW source, NEW s \in AskingStages,
           NEW text \in Generated(source, s, ToSet(kept)),
           texts' = Append(texts, text), remembered' = Remember(kept, text)
    PROVE  /\ texts' \in Seq(Texts) /\ Len(texts') = Len(texts) + 1
           /\ remembered' \in Seq(Texts) /\ Len(remembered') <= Len(texts) + 1
           /\ EveryQuestionRemembered'
           /\ RepeatsOnlyLastResort'
<1>1. text \in Texts /\ (text \notin ToSet(kept) \/ text \in LastResorts)
  BY GeneratedIsNew
<1>2. Len(texts) \in Nat /\ DOMAIN texts = 1 .. Len(texts) /\ Len(kept) \in Nat
  BY LenProperties
<1>3. /\ texts' \in Seq(Texts) /\ Len(texts') = Len(texts) + 1
      /\ \A i \in 1 .. Len(texts) : texts'[i] = texts[i]
      /\ texts'[Len(texts) + 1] = text
  BY <1>1, AppendProperties
<1>4. DOMAIN texts' = 1 .. Len(texts) + 1
  BY <1>3, LenProperties
<1>5. /\ remembered' \in Seq(Texts) /\ Len(remembered') <= Len(texts) + 1
      /\ ToSet(kept) \union {text} \subseteq ToSet(remembered')
  <2>1. CASE text \in ToSet(kept)
    BY <1>2, <2>1 DEF Remember
  <2>2. CASE text \notin ToSet(kept)
    <3>1. remembered' = Append(kept, text)
      BY <2>2 DEF Remember
    <3>2. /\ remembered' \in Seq(Texts) /\ Len(remembered') = Len(kept) + 1
          /\ \A i \in 1 .. Len(kept) : remembered'[i] = kept[i]
          /\ remembered'[Len(kept) + 1] = text
      BY <1>1, <3>1, AppendProperties
    <3>3. DOMAIN remembered' = 1 .. Len(kept) + 1 /\ DOMAIN kept = 1 .. Len(kept)
      BY <3>2, LenProperties
    <3>4. /\ \A i \in DOMAIN kept : i \in DOMAIN remembered' /\ remembered'[i] = kept[i]
          /\ Len(kept) + 1 \in DOMAIN remembered'
      BY <1>2, <3>2, <3>3
    <3>5. ToSet(kept) \union {text} \subseteq ToSet(remembered')
      BY <3>2, <3>4 DEF ToSet
    <3> QED
      BY <1>2, <3>2, <3>5
  <2> QED
    BY <2>1, <2>2
<1>6. EveryQuestionRemembered'
  <2> SUFFICES ASSUME NEW i \in 1 .. Len(texts) + 1, texts'[i] # Blank
               PROVE  texts'[i] \in ToSet(remembered')
    BY <1>4 DEF EveryQuestionRemembered, ToSet
  <2>1. CASE i \in 1 .. Len(texts)
    <3>1. texts'[i] \in ToSet(texts)
      BY <1>2, <1>3, <2>1 DEF ToSet
    <3> QED
      BY <1>5, <3>1
  <2>2. CASE i = Len(texts) + 1
    BY <1>3, <1>5, <2>2
  <2> QED
    BY <1>2, <2>1, <2>2
<1>7. RepeatsOnlyLastResort'
  <2> SUFFICES ASSUME NEW i \in DOMAIN texts', NEW j \in DOMAIN texts', i < j,
                      texts'[i] = texts'[j]
               PROVE  texts'[j] \in LastResorts
    BY DEF RepeatsOnlyLastResort, LastResorts
  <2>1. i \in 1 .. Len(texts) /\ texts'[i] = texts[i] /\ i \in DOMAIN texts
    BY <1>2, <1>3, <1>4
  <2>2. CASE j \in 1 .. Len(texts)
    BY <1>2, <1>3, <2>1, <2>2 DEF RepeatsOnlyLastResort, LastResorts
  <2>3. CASE j = Len(texts) + 1
    <3>1. texts[i] = text /\ texts[i] \in ToSet(texts)
      BY <1>3, <2>1, <2>3 DEF ToSet
    <3>2. text \in ToSet(kept) \/ text = Blank
      BY <3>1
    <3> QED
      BY <1>1, <1>3, <2>3, <3>2 DEF LastResorts
  <2> QED
    BY <1>2, <1>4, <2>2, <2>3
<1> QED
  BY <1>3, <1>5, <1>6, <1>7

\* Topics only move from pending to explored.
LEMMA TopicsMove ==
    ASSUME Lists, NoTopicLost, NEW found \in Seq(Topics), FoldTopics(found)
    PROVE  /\ explored' \in Seq(Topics) /\ Len(explored') <= ListCap
           /\ Distinct(explored') /\ Blank \notin ToSet(explored')
           /\ NoTopicLost'
<1>1. /\ explored' = Merge(explored, found, ListCap)
      /\ pending' = pending \ ToSet(explored')
      /\ ListCap \in Nat /\ explored \in Seq(Topics) /\ Len(explored) <= ListCap
      /\ Distinct(explored) /\ Blank \notin ToSet(explored)
  BY ContentAssumption DEF FoldTopics, Lists
<1>2. /\ explored' \in Seq(Topics) /\ Len(explored') <= ListCap
      /\ Distinct(explored') /\ Blank \notin ToSet(explored')
  <2>1. LET merged == Merge(explored, found, ListCap)
        IN  /\ merged \in Seq(Topics) /\ Len(merged) <= ListCap
            /\ Distinct(merged)
            /\ ToSet(merged) \subseteq (ToSet(explored) \union ToSet(found)) \ {Blank}
    BY <1>1, MergeProperties
  <2> QED
    BY <1>1, <2>1
<1>3. ToSet(explored) \subseteq ToSet(explored')
  BY <1>1, MergeKeepsFirst
<1>4. NoTopicLost'
  BY <1>1, <1>3 DEF NoTopicLost
<1> QED
  BY <1>2, <1>4

-----------------------------------------------------------------------------
(* The invariant is inductive.                                             *)

\* The questions leave the engine as it is: every step is one of its steps.
LEMMA ContentStepIsEngineStep ==
    ASSUME [ContentNext]_content
    PROVE  [Next]_vars
<1>1. Recommendations \subseteq Actions /\ ModelTypes \subseteq BOOLEAN
  BY ContentAssumption DEF Recommendations, ModelTypes
<1>2. CASE UNCHANGED content
  BY <1>2 DEF content
<1>3. ASSUME NEW source \in QuestionSources, NEW modelSaysFollowUp \in ModelTypes,
             OpenQuestion(source, modelSaysFollowUp)
      PROVE  Next
  BY <1>1, <1>3 DEF OpenQuestion, Next
<1>4. ASSUME NEW source \in QuestionSources, NEW modelSaysFollowUp \in ModelTypes,
             NEW recommended \in Recommendations, NEW found \in Found,
             AskQuestion(recommended, source, modelSaysFollowUp, found)
      PROVE  Next
  BY <1>1, <1>4 DEF AskQuestion, Next, Cycle
<1>5. ASSUME NEW recommended \in Recommendations, NEW found \in Found,
             EndInterview(recommended, found)
      PROVE  Next
  BY <1>1, <1>5 DEF EndInterview, Next, Cycle
<1>6. CASE Completed
  BY <1>6 DEF Completed, content
<1> QED
  BY <1>2, <1>3, <1>4, <1>5, <1>6 DEF ContentNext

LEMMA ContentInitInvariant ==
    ASSUME ContentInit
    PROVE  QInv
<1>1. IInv
  BY InitInvariant DEF ContentInit
<1>2. /\ texts = <<>> /\ remembered = <<>> /\ explored = <<>>
      /\ pending = DetectedSections /\ used = 0
  BY DEF ContentInit, Init
<1>3. ToSet(<<>>) = {} /\ DOMAIN <<>> = {}
  BY DEF ToSet
<1>4. Lists
  BY <1>2, <1>3, EmptySeq, ContentAssumption DEF Lists, Distinct
<1> QED
  BY <1>1, <1>2, <1>3, <1>4
     DEF QInv, EveryQuestionRemembered, RepeatsOnlyLastResort, NoTopicLost

LEMMA FoundIsTopics == Found \subseteq Seq(Topics)
  BY TopicListsAreLists, EmptySeq DEF Found

LEMMA OpenQuestionInvariant ==
    ASSUME QInv, IInv', NEW source, NEW modelSaysFollowUp,
           OpenQuestion(source, modelSaysFollowUp)
    PROVE  QInv'
<1>1. /\ used = 0 /\ used' = used + 1
      /\ explored' = explored /\ pending' = pending
  BY DEF OpenQuestion, Open, StoreQuestion
<1>2. PICK text \in Generated(source, "INTRODUCTION", ToSet(remembered)) :
         texts' = Append(texts, text) /\ remembered' = Remember(remembered, text)
  BY DEF OpenQuestion
<1>3. /\ texts \in Seq(Texts) /\ Len(texts) = used
      /\ remembered \in Seq(Texts) /\ Len(remembered) <= used
      /\ RepeatsOnlyLastResort /\ EveryQuestionRemembered
  BY DEF QInv, Lists
<1>4. "INTRODUCTION" \in AskingStages
  BY DEF AskingStages
<1>5. /\ texts' \in Seq(Texts) /\ Len(texts') = Len(texts) + 1
      /\ remembered' \in Seq(Texts) /\ Len(remembered') <= Len(texts) + 1
      /\ EveryQuestionRemembered' /\ RepeatsOnlyLastResort'
  BY <1>2, <1>3, <1>4, StoreText DEF EveryQuestionRemembered
<1>6. Lists'
  BY <1>1, <1>3, <1>5 DEF QInv, Lists, Distinct
<1>7. NoTopicLost'
  BY <1>1 DEF QInv, NoTopicLost
<1> QED
  BY <1>5, <1>6, <1>7 DEF QInv

LEMMA AskQuestionInvariant ==
    ASSUME QInv, IInv', NEW recommended \in Actions, NEW source,
           NEW modelSaysFollowUp, NEW found \in Seq(Topics),
           AskQuestion(recommended, source, modelSaysFollowUp, found)
    PROVE  QInv'
<1> DEFINE next == DecideNextAction(EngineState, recommended).stage
<1>1. /\ used > 0 /\ stage # "COMPLETED" /\ used' = used + 1
      /\ DecideNextAction(EngineState, recommended).action # "CLOSE_INTERVIEW"
  BY DEF AskQuestion, Ask, StoreQuestion
<1>2. next \in AskingStages
  <2>1. IInv
    BY DEF QInv
  <2> QED
    BY <1>1, <2>1, AskDecision, OpenStage
<1>3. PICK text \in Generated(source, next, ToSet(QuestionsMerged)) :
         texts' = Append(texts, text) /\ remembered' = Remember(QuestionsMerged, text)
  BY DEF AskQuestion
<1> HIDE DEF next
<1>4. /\ texts \in Seq(Texts) /\ Len(texts) = used
      /\ remembered \in Seq(Texts) /\ Len(remembered) <= used
      /\ RepeatsOnlyLastResort /\ EveryQuestionRemembered
  BY DEF QInv, Lists
<1>5. /\ QuestionsMerged \in Seq(Texts)
      /\ Len(QuestionsMerged) <= Len(remembered)
      /\ ToSet(QuestionsMerged) = ToSet(remembered) \ {Blank}
  BY <1>1, QuestionsMergedKeeps
<1>6. /\ Len(QuestionsMerged) <= Len(texts)
      /\ ToSet(texts) \subseteq ToSet(QuestionsMerged) \union {Blank}
  <2>1. Len(QuestionsMerged) \in Nat /\ Len(remembered) \in Nat /\ Len(texts) \in Nat
    BY <1>4, <1>5, LenProperties
  <2> QED
    BY <1>4, <1>5, <2>1 DEF EveryQuestionRemembered
<1>7. /\ texts' \in Seq(Texts) /\ Len(texts') = Len(texts) + 1
      /\ remembered' \in Seq(Texts) /\ Len(remembered') <= Len(texts) + 1
      /\ EveryQuestionRemembered' /\ RepeatsOnlyLastResort'
  BY <1>2, <1>3, <1>4, <1>5, <1>6, StoreText
<1>8. /\ explored' \in Seq(Topics) /\ Len(explored') <= ListCap
      /\ Distinct(explored') /\ Blank \notin ToSet(explored') /\ NoTopicLost'
  BY TopicsMove DEF QInv, AskQuestion
<1>9. Lists'
  BY <1>1, <1>4, <1>7, <1>8 DEF Lists, Distinct
<1> QED
  BY <1>7, <1>8, <1>9 DEF QInv

LEMMA EndInterviewInvariant ==
    ASSUME QInv, IInv', NEW recommended \in Actions, NEW found \in Seq(Topics),
           EndInterview(recommended, found)
    PROVE  QInv'
<1>1. /\ used > 0 /\ used' = used /\ texts' = texts /\ remembered' = QuestionsMerged
      /\ FoldTopics(found)
  BY DEF EndInterview, Close
<1>2. /\ texts \in Seq(Texts) /\ Len(texts) = used
      /\ remembered \in Seq(Texts) /\ Len(remembered) <= used
      /\ RepeatsOnlyLastResort /\ EveryQuestionRemembered
  BY DEF QInv, Lists
<1>3. /\ QuestionsMerged \in Seq(Texts)
      /\ Len(QuestionsMerged) <= Len(remembered)
      /\ ToSet(QuestionsMerged) = ToSet(remembered) \ {Blank}
  BY <1>1, QuestionsMergedKeeps
<1>4. /\ explored' \in Seq(Topics) /\ Len(explored') <= ListCap
      /\ Distinct(explored') /\ Blank \notin ToSet(explored') /\ NoTopicLost'
  BY <1>1, TopicsMove DEF QInv
<1>5. Len(remembered') <= used'
  <2>1. Len(QuestionsMerged) \in Nat /\ Len(remembered) \in Nat /\ used \in Nat
    BY <1>2, <1>3, LenProperties
  <2> QED
    BY <1>1, <1>2, <1>3, <2>1
<1>6. Lists'
  BY <1>1, <1>2, <1>3, <1>4, <1>5 DEF Lists, Distinct
<1>7. EveryQuestionRemembered' /\ RepeatsOnlyLastResort'
  BY <1>1, <1>2, <1>3 DEF EveryQuestionRemembered, RepeatsOnlyLastResort
<1> QED
  BY <1>4, <1>6, <1>7 DEF QInv

LEMMA ContentNextInvariant ==
    ASSUME QInv, [ContentNext]_content
    PROVE  QInv'
<1>1. IInv'
  BY ContentStepIsEngineStep, NextInvariant DEF QInv
<1>2. /\ Recommendations \subseteq Actions /\ Found \subseteq Seq(Topics)
  BY ContentAssumption, FoundIsTopics DEF Recommendations
<1>3. ASSUME UNCHANGED content
      PROVE  QInv'
  <2>1. /\ used' = used /\ texts' = texts /\ remembered' = remembered
        /\ explored' = explored /\ pending' = pending
    BY <1>3 DEF content, vars, memory
  <2> QED
    BY <1>1, <2>1 DEF QInv, Lists, Distinct, EveryQuestionRemembered,
                      RepeatsOnlyLastResort, NoTopicLost
<1>4. ASSUME NEW source \in QuestionSources, NEW modelSaysFollowUp \in ModelTypes,
             OpenQuestion(source, modelSaysFollowUp)
      PROVE  QInv'
  BY <1>1, <1>4, OpenQuestionInvariant
<1>5. ASSUME NEW source \in QuestionSources, NEW modelSaysFollowUp \in ModelTypes,
             NEW recommended \in Recommendations, NEW found \in Found,
             AskQuestion(recommended, source, modelSaysFollowUp, found)
      PROVE  QInv'
  <2>1. recommended \in Actions /\ found \in Seq(Topics)
    BY <1>2
  <2> QED
    BY <1>1, <1>5, <2>1, AskQuestionInvariant
<1>6. ASSUME NEW recommended \in Recommendations, NEW found \in Found,
             EndInterview(recommended, found)
      PROVE  QInv'
  <2>1. recommended \in Actions /\ found \in Seq(Topics)
    BY <1>2
  <2> QED
    BY <1>1, <1>6, <2>1, EndInterviewInvariant
<1> QED
  BY <1>3, <1>4, <1>5, <1>6 DEF ContentNext, Completed

THEOREM ContentInvariance == ContentSpec => []QInv
<1>1. ContentInit => QInv
  BY ContentInitInvariant
<1>2. QInv /\ [ContentNext]_content => QInv'
  BY ContentNextInvariant
<1> QED
  BY <1>1, <1>2, PTL DEF ContentSpec

-----------------------------------------------------------------------------
(* What it says of every interview.                                        *)

\* What the questions say changes nothing in how the engine moves, so every
\* theorem about the engine (its budgets, its plan, the end of the interview)
\* is one about interviews with questions, memory and topics.
THEOREM QuestionsLeaveTheEngine == ContentSpec => Spec
<1>1. ContentInit => Init
  BY DEF ContentInit
<1>2. [ContentNext]_content => [Next]_vars
  BY ContentStepIsEngineStep
<1> QED
  BY <1>1, <1>2, PTL DEF ContentSpec, Spec

\* In an interview of any length the duplicate check compares a new question
\* with every earlier one that can be compared: neither the cap of the list
\* nor a merge drops one.
THEOREM QuestionsAreRemembered == ContentSpec => []EveryQuestionRemembered
  BY ContentInvariance, PTL DEF QInv

\* Whatever the provider writes, repeats or fails to write, a question is
\* asked again only as the suffixed fallback of a stage or as a blank text.
THEOREM RepeatsAreLastResort == ContentSpec => []RepeatsOnlyLastResort
  BY ContentInvariance, PTL DEF QInv

\* Whatever topics are found, and however full the list of explored topics
\* is, a detected section is pending or explored, never both, never neither.
THEOREM TopicsAreMoved == ContentSpec => []NoTopicLost
  BY ContentInvariance, PTL DEF QInv
=================================================================================
