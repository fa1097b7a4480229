-------------------------- MODULE MCInterviewQuestions --------------------------
(* The engine under the plans the allocator really produces: every type,    *)
(* for a shrunk plan, a plan with one question per stage, a default one and *)
(* ones in which stages have several questions.  In one of them a stage has *)
(* the three questions it takes to exhaust a fallback and its suffix, the   *)
(* provider misbehaves, and the topic list is full after two topics.        *)
EXTENDS InterviewQuestions, StageBudgets

CONSTANT Budgets    \* question budgets explored

Allocated(type, budget) ==
    [budget |-> budget, stageBudgets |-> AllocateStageBudgets(type, budget)]

AllocatedPlans == {Allocated(t, b) : t \in InterviewTypes, b \in Budgets}

\* Allocated("BEHAVIORAL", 8), a member of AllocatedPlans.
RepeatingPlans ==
    {[budget |-> 8,
      stageBudgets |-> [INTRODUCTION |-> 1, CANDIDATE_BACKGROUND |-> 1,
                        RESUME_DISCUSSION |-> 1, BEHAVIORAL |-> 3,
                        ADAPTIVE_PROBING |-> 1, CLOSING |-> 1]]}

ASSUME RepeatingPlans \subseteq AllocatedPlans

Education == <<"EDUCATION", 1>>
Skills == <<"SKILLS", 1>>
Teamwork == <<"teamwork", 1>>

Sections == {Education, Skills}

FoundTopics == {<<Blank, Skills, Teamwork>>, <<Education>>}
=================================================================================
