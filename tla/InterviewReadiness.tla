--------------------------- MODULE InterviewReadiness ---------------------------
(***************************************************************************)
(* The readiness score of an interview report                              *)
(* (services/interview/readiness.py): per category a difficulty-weighted   *)
(* mean of the evaluated answers with the outliers dropped, overall a      *)
(* weighted mean of the scored categories.  A report category stands for   *)
(* the criterion it is mapped to; clarity_score enters no category.        *)
(*                                                                         *)
(* Difficulty weights are in fifths, category weights in thousandths.  The *)
(* code divides binary floating-point sums, which decides an exact half to *)
(* one side or the other: both are possible here.                          *)
(***************************************************************************)
EXTENDS Totals, FiniteSetsExt

CONSTANTS
    Evaluations,    \* evaluations explored: [type, difficulty, scores]
    NoScore         \* None: the profile excluded the criterion, or no sample

VARIABLES
    evaluations,    \* answer_evaluations rows with their question's difficulty
    report          \* NoScore, or the scores persisted with the report

CategoryWeights ==
    [TECHNICAL_DEPTH |-> 200, COMMUNICATION |-> 200, RELEVANCE |-> 150,
     PROBLEM_SOLVING |-> 150, SPECIFICITY |-> 125, EVIDENCE |-> 125,
     ANSWER_STRUCTURE |-> 50]

ReportCategories == DOMAIN CategoryWeights

\* The order of CATEGORY_TO_CRITERION, in which the sums are taken.
CategoryOrder ==
    <<"COMMUNICATION", "TECHNICAL_DEPTH", "RELEVANCE", "SPECIFICITY", "EVIDENCE",
      "PROBLEM_SOLVING", "ANSWER_STRUCTURE">>

DifficultyWeights == [EASY |-> 4, MEDIUM |-> 5, HARD |-> 6]

\* EVALUATION_PROFILES: the criteria that apply to a question type.
EvaluationProfiles ==
    [INTRODUCTORY       |-> {"RELEVANCE", "COMMUNICATION", "ANSWER_STRUCTURE"},
     RESUME             |-> {"RELEVANCE", "SPECIFICITY", "EVIDENCE",
                             "COMMUNICATION", "ANSWER_STRUCTURE"},
     PROJECT            |-> ReportCategories,
     TECHNICAL          |-> {"RELEVANCE", "TECHNICAL_DEPTH", "SPECIFICITY",
                             "PROBLEM_SOLVING", "COMMUNICATION"},
     BEHAVIORAL         |-> {"RELEVANCE", "SPECIFICITY", "EVIDENCE",
                             "COMMUNICATION", "ANSWER_STRUCTURE"},
     SITUATIONAL        |-> {"RELEVANCE", "PROBLEM_SOLVING", "COMMUNICATION",
                             "ANSWER_STRUCTURE"},
     FOLLOW_UP          |-> {"RELEVANCE", "SPECIFICITY", "EVIDENCE",
                             "COMMUNICATION"},
     CLAIM_VERIFICATION |-> {"RELEVANCE", "TECHNICAL_DEPTH", "SPECIFICITY",
                             "EVIDENCE"}]

\* The schema of an evaluation (schemas/interview.py); None is no score.
ASSUME EvaluationsAssumption ==
    /\ Evaluations \subseteq [type : DOMAIN EvaluationProfiles,
                             difficulty : DOMAIN DifficultyWeights,
                             scores : [ReportCategories -> 0..100]]
    /\ NoScore \notin Int

\* Only the criteria of the profile are stored; the others are NULL.
Profiled(evaluation) ==
    [difficulty |-> evaluation.difficulty,
     scores |-> [c \in ReportCategories |->
                    IF c \in EvaluationProfiles[evaluation.type]
                    THEN evaluation.scores[c] ELSE NoScore]]

ScoreOf(answers, c, i) == answers[i].scores[c]
WeightOf(answers, i) == DifficultyWeights[answers[i].difficulty]

\* The answers to which a category applies.
Samples(answers, c) == {i \in DOMAIN answers : ScoreOf(answers, c, i) # NoScore}

\* Sort key of the outlier guard: score, then answer order.
RanksBelow(answers, c, i, j) ==
    \/ ScoreOf(answers, c, i) < ScoreOf(answers, c, j)
    \/ ScoreOf(answers, c, i) = ScoreOf(answers, c, j) /\ i < j

Lowest(answers, c) ==
    CHOOSE i \in Samples(answers, c) :
        \A j \in Samples(answers, c) \ {i} : RanksBelow(answers, c, i, j)

Highest(answers, c) ==
    CHOOSE i \in Samples(answers, c) :
        \A j \in Samples(answers, c) \ {i} : RanksBelow(answers, c, j, i)

OutlierTrimMinSamples == 4

\* Mutated form: nothing is dropped.
KeepAll(answers, c) == Samples(answers, c)

\* The samples left once one lowest and one highest score are dropped.
Kept(answers, c) ==
    IF Cardinality(Samples(answers, c)) < OutlierTrimMinSamples THEN Samples(answers, c)
    ELSE Samples(answers, c) \ {Lowest(answers, c), Highest(answers, c)}

\* The difficulty-weighted mean of a category, as a fraction.
MeanNumerator(answers, c) ==
    LET kept == Kept(answers, c)
    IN  Total([i \in DOMAIN answers |->
                  IF i \in kept THEN ScoreOf(answers, c, i) * WeightOf(answers, i) ELSE 0])

\* The weights of a set of answers.
WeightOfAll(answers, subset) ==
    Total([i \in DOMAIN answers |-> IF i \in subset THEN WeightOf(answers, i) ELSE 0])

\* Mutated form: the weights are summed before the outliers are dropped.
UntrimmedDenominator(answers, c) == WeightOfAll(answers, Samples(answers, c))

MeanDenominator(answers, c) == WeightOfAll(answers, Kept(answers, c))

\* round(): the nearest integer, either neighbour at a half.
Nearest(numerator, denominator) ==
    LET below == numerator \div denominator
    IN  {s \in {below, below + 1} :
            /\ 2 * numerator <= denominator * (2 * s + 1)
            /\ 2 * numerator >= denominator * (2 * s - 1)}

CategoryScores(answers, c) ==
    IF Samples(answers, c) = {} THEN {NoScore}
    ELSE Nearest(MeanNumerator(answers, c), MeanDenominator(answers, c))

\* One number per scored category: its weight, or its weighted score.
WeightsOfScored(scores) ==
    [k \in DOMAIN CategoryOrder |->
        IF scores[CategoryOrder[k]] = NoScore THEN 0 ELSE CategoryWeights[CategoryOrder[k]]]
PointsOfScored(scores) ==
    [k \in DOMAIN CategoryOrder |->
        IF scores[CategoryOrder[k]] = NoScore THEN 0
        ELSE scores[CategoryOrder[k]] * CategoryWeights[CategoryOrder[k]]]

OverallScores(scores) ==
    IF \A c \in ReportCategories : scores[c] = NoScore THEN {NoScore}
    ELSE Nearest(Total(PointsOfScored(scores)), Total(WeightsOfScored(scores)))

ReadinessLevel(overall) ==
    CASE overall = NoScore -> NoScore
      [] overall < 45 -> "NOT_READY"
      [] overall < 60 -> "DEVELOPING"
      [] overall < 75 -> "READY"
      [] OTHER -> "STRONG"

-----------------------------------------------------------------------------
ReadinessInit == evaluations = <<>> /\ report = NoScore

\* An answer has been evaluated.
Evaluate(evaluation) ==
    /\ report = NoScore
    /\ evaluations' = Append(evaluations, Profiled(evaluation))
    /\ UNCHANGED report

\* compute_readiness over the evaluated answers, stored with the report; the
\* categories whose mean is a half are rounded up or down.
ComputeReadiness ==
    LET halves == {c \in ReportCategories :
                      Cardinality(CategoryScores(evaluations, c)) = 2}
    IN  /\ report = NoScore
        /\ \E up \in SUBSET halves :
              \E scores \in {[c \in ReportCategories |->
                                CHOOSE s \in CategoryScores(evaluations, c) :
                                    c \in halves =>
                                        (c \in up <=> s - 1 \in CategoryScores(evaluations, c))]} :
                 \E overall \in OverallScores(scores) :
                    report' = [scores  |-> scores,
                               overall |-> overall,
                               level   |-> ReadinessLevel(overall)]
        /\ UNCHANGED evaluations

-----------------------------------------------------------------------------
\* One anomalous answer cannot distort a category (readiness.py): with four
\* samples or more its score lies between the second lowest and the second
\* highest of them, whichever answers those are and however hard.
OutlierCannotDistort ==
    report # NoScore =>
        \A c \in ReportCategories :
            LET samples     == Samples(evaluations, c)
                below(i)    == {j \in samples : RanksBelow(evaluations, c, j, i)}
                above(i)    == {j \in samples : RanksBelow(evaluations, c, i, j)}
            IN  Cardinality(samples) >= 4 =>
                    /\ \E i \in samples : /\ Cardinality(below(i)) = 1
                                          /\ report.scores[c] >= ScoreOf(evaluations, c, i)
                    /\ \E i \in samples : /\ Cardinality(above(i)) = 1
                                          /\ report.scores[c] <= ScoreOf(evaluations, c, i)

\* A category that no answer could be assessed on neither raises nor lowers the
\* overall score, its weight being redistributed: the overall score lies between
\* two category scores, and there is none exactly when there is no category score.
OverallWithinCategories ==
    report # NoScore =>
        LET scored == {c \in ReportCategories : report.scores[c] # NoScore}
        IN  /\ report.overall = NoScore <=> scored = {}
            /\ scored # {} =>
                  \E low, high \in scored : /\ report.scores[low] <= report.overall
                                            /\ report.overall <= report.scores[high]

\* An answer at least as good as every earlier one never lowers a category:
\* not when it is dropped as the highest, not when it makes the fourth sample
\* and the trimming starts, and not by its weight.
BestAnswerNeverLowers ==
    [][\A c \in ReportCategories :
          LET n == Len(evaluations')
          IN  /\ n > Len(evaluations)
              /\ Samples(evaluations, c) # {}
              /\ n \in Samples(evaluations', c)
              /\ \A i \in Samples(evaluations, c) :
                    ScoreOf(evaluations, c, i) <= ScoreOf(evaluations', c, n)
              => MeanNumerator(evaluations', c) * MeanDenominator(evaluations, c)
                    >= MeanNumerator(evaluations, c) * MeanDenominator(evaluations', c)]_evaluations
=================================================================================
