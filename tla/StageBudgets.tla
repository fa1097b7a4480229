----------------------------- MODULE StageBudgets -----------------------------
(***************************************************************************)
(* allocate_stage_budgets (services/interview/state_machine.py): the       *)
(* largest-remainder split of the question budget over the stages of an    *)
(* interview type.  The code multiplies by binary floating-point           *)
(* fractions; here a fraction is an integer percentage and a raw share is  *)
(* in hundredths of a question.                                            *)
(***************************************************************************)
EXTENDS InterviewRules, FiniteSets, FiniteSetsExt

InterviewTypes == {"MIXED", "TECHNICAL", "BEHAVIORAL"}

\* STAGE_ALLOCATION in percent; stages of fraction zero are left out.
StageAllocation ==
    [MIXED      |-> [INTRODUCTION |-> 8, CANDIDATE_BACKGROUND |-> 10,
                     RESUME_DISCUSSION |-> 15, PROJECT_DEEP_DIVE |-> 17,
                     ROLE_SPECIFIC |-> 20, BEHAVIORAL |-> 15,
                     ADAPTIVE_PROBING |-> 7, CLOSING |-> 8],
     TECHNICAL  |-> [INTRODUCTION |-> 8, RESUME_DISCUSSION |-> 12,
                     PROJECT_DEEP_DIVE |-> 25, ROLE_SPECIFIC |-> 32,
                     ADAPTIVE_PROBING |-> 15, CLOSING |-> 8],
     BEHAVIORAL |-> [INTRODUCTION |-> 8, CANDIDATE_BACKGROUND |-> 17,
                     RESUME_DISCUSSION |-> 15, BEHAVIORAL |-> 42,
                     ADAPTIVE_PROBING |-> 10, CLOSING |-> 8]]

Anchors == {"INTRODUCTION", "CLOSING"}

\* Mutated form: ascending instead of descending fractions.
PreferredAscending(fractions, s, t) ==
    \/ fractions[s] < fractions[t]
    \/ fractions[s] = fractions[t] /\ StageIndex(s) < StageIndex(t)

\* Sort key (-fraction, position): s is preferred to t.
Preferred(fractions, s, t) ==
    \/ fractions[s] > fractions[t]
    \/ fractions[s] = fractions[t] /\ StageIndex(s) < StageIndex(t)

\* The plan: every stage of the type or, when the budget is smaller than
\* that, the anchors and the preferred middle stages that still fit.
PlannedStages(type, budget) ==
    LET fractions == StageAllocation[type]
        middles   == DOMAIN fractions \ Anchors
        room      == budget - Cardinality(Anchors)
        rank(s)   == Cardinality({t \in middles : Preferred(fractions, t, s)})
    IN  IF budget >= Cardinality(DOMAIN fractions) THEN DOMAIN fractions
        ELSE Anchors \union {s \in middles : rank(s) < room}

RawShare(type, budget, s) == budget * StageAllocation[type][s]

InitialBudgets(type, budget) ==
    [s \in PlannedStages(type, budget) |->
        Max({1, RawShare(type, budget, s) \div 100})]

\* raw[s] - budgets[s]: what the stage is still owed, in hundredths.
Owed(type, budget, budgets, s) == RawShare(type, budget, s) - 100 * budgets[s]

\* The stage the next top-up goes to: most owed, earliest on a tie.
TopUpCandidate(type, budget, budgets) ==
    CHOOSE s \in DOMAIN budgets : \A t \in DOMAIN budgets \ {s} :
        LET owedS == Owed(type, budget, budgets, s)
            owedT == Owed(type, budget, budgets, t)
        IN  owedS > owedT \/ (owedS = owedT /\ StageIndex(s) < StageIndex(t))

\* Mutated forms: the trim loop may empty a stage, or spares stages of two.
TrimmableToZero(budgets) == {s \in DOMAIN budgets : budgets[s] > 0}
TrimmableAboveTwo(budgets) == {s \in DOMAIN budgets : budgets[s] > 2}

Trimmable(budgets) == {s \in DOMAIN budgets : budgets[s] > 1}

\* The stage the next trim takes from: least owed, earliest on a tie.
TrimCandidate(type, budget, budgets) ==
    CHOOSE s \in Trimmable(budgets) : \A t \in Trimmable(budgets) \ {s} :
        LET owedS == Owed(type, budget, budgets, s)
            owedT == Owed(type, budget, budgets, t)
        IN  owedS < owedT \/ (owedS = owedT /\ StageIndex(s) < StageIndex(t))

\* One iteration of the top-up or of the trim loop; the identity at the end.
AdjustBudgets(type, budget, budgets) ==
    IF TotalOf(budgets) < budget
    THEN [budgets EXCEPT ![TopUpCandidate(type, budget, budgets)] = @ + 1]
    ELSE IF TotalOf(budgets) > budget
    THEN [budgets EXCEPT ![TrimCandidate(type, budget, budgets)] = @ - 1]
    ELSE budgets

\* The loops run to the end: at most one iteration per question.
AllocateStageBudgets(type, budget) ==
    LET after[n \in 0..budget] ==
            IF n = 0 THEN InitialBudgets(type, budget)
            ELSE AdjustBudgets(type, budget, after[n - 1])
    IN  after[budget]
=============================================================================
