---------------------------- MODULE MCResumeAnalysis ----------------------------
(* Assessments on both sides of each evidence cap, with categories at and   *)
(* off the average so that leaving one out moves it, and a half to round.   *)
EXTENDS ResumeAnalysis

Two == <<"verbatim", "verbatim">>

Assess(score, evidence) == [score |-> score, evidence |-> evidence]

SampleOutputs ==
    {[c \in Categories |-> Assess(90, <<"invented", "blank">>)],
     [c \in Categories |-> Assess(90, <<"verbatim", "invented">>)],
     [c \in Categories |-> IF c \in {"PROJECT_QUALITY", "EXPERIENCE_IMPACT"}
                           THEN Assess(5, Two) ELSE Assess(95, Two)]}

SampleSections ==
    {Sections, {"EDUCATION", "SKILLS"}, Sections \ {"PROJECTS", "SUMMARY"},
     {"INTERNSHIPS", "PROJECTS"}}
=================================================================================
