----------------------------- MODULE ResumeScoring -----------------------------
(***************************************************************************)
(* The deterministic resume score (services/resume_analysis/scoring.py).   *)
(* Weights are percentages.  The code adds binary floating-point products, *)
(* which decides an exact half to one side or the other: both are possible *)
(* here.                                                                   *)
(***************************************************************************)
EXTENDS Integers, Sequences, FiniteSets, FiniteSetsExt

\* CATEGORY_WEIGHTS in percent.
Weight == [CONTENT_QUALITY |-> 20, EXPERIENCE_IMPACT |-> 20,
           SKILLS_RELEVANCE |-> 15, PROJECT_QUALITY |-> 15,
           RESUME_STRUCTURE |-> 10, ATS_COMPATIBILITY |-> 10,
           EVIDENCE_QUANTIFICATION |-> 10]

Categories == DOMAIN Weight

\* A sum over the categories.
SumOf(f) == f["CONTENT_QUALITY"] + f["EXPERIENCE_IMPACT"] + f["SKILLS_RELEVANCE"]
              + f["PROJECT_QUALITY"] + f["RESUME_STRUCTURE"] + f["ATS_COMPATIBILITY"]
              + f["EVIDENCE_QUANTIFICATION"]

CoreSections == {"SUMMARY", "EDUCATION", "SKILLS", "EXPERIENCE", "PROJECTS"}

Sections == CoreSections \union {"INTERNSHIPS"}

\* How a quote relates to the resume text, whitespace folded.
Quotes == {"verbatim", "invented", "blank"}

\* Evidence is a sequence of quotes: one that is repeated counts each time.
VerifiedEvidence(evidence) ==
    Cardinality({i \in DOMAIN evidence : evidence[i] = "verbatim"})

\* Mutated form: the two caps are swapped.
EvidenceCapSwapped(verified) == CASE verified = 0 -> 70 [] verified = 1 -> 40 [] OTHER -> 100

EvidenceCap(verified) == CASE verified = 0 -> 40 [] verified = 1 -> 70 [] OTHER -> 100

StructuralDeduction(sections) == Min({4 * Cardinality(CoreSections \ sections), 12})

Applicable(sections) ==
    {c \in Categories :
        /\ c = "PROJECT_QUALITY" => "PROJECTS" \in sections
        /\ c = "EXPERIENCE_IMPACT" => sections \intersect {"EXPERIENCE", "INTERNSHIPS"} # {}}

\* _score_category, for an applicable category.
Adjusted(c, assessment, sections) ==
    LET deduction == IF c = "RESUME_STRUCTURE" THEN StructuralDeduction(sections) ELSE 0
    IN  Max({0, Min({assessment.score, EvidenceCap(VerifiedEvidence(assessment.evidence))})
                  - deduction})

\* _validate_inputs: one assessment per category and weights that sum to one.
InputsValid(output) ==
    /\ DOMAIN output = Categories
    /\ \A c \in Categories :
          /\ output[c] \in [score : 0 .. 100, evidence : Seq(Quotes)]
          /\ Weight[c] > 0
    /\ SumOf(Weight) = 100

\* The weights that count: a category that does not apply has none.
Share(sections) == [c \in Categories |-> IF c \in Applicable(sections) THEN Weight[c] ELSE 0]

WeightSum(sections) == SumOf(Share(sections))

WeightedSum(output, sections) ==
    SumOf([c \in Categories |-> Share(sections)[c] * Adjusted(c, output[c], sections)])

\* Mutated form: the weight of absent categories is not redistributed.
OverallScoresUnnormalised(output, sections) == {WeightedSum(output, sections) \div 100}

\* score_analysis: the nearest integer to the average, either one at a half.
OverallScores(output, sections) ==
    LET sum    == WeightedSum(output, sections)
        weight == WeightSum(sections)
    IN  {s \in 0 .. 100 : 2 * sum - weight <= 2 * weight * s /\ 2 * weight * s <= 2 * sum + weight}
================================================================================
