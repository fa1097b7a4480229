-------------------------- MODULE MCInterviewSession --------------------------
(* Plans of short interviews, written out so that TLC does not recompute    *)
(* them in every state; the assumption says that they are the allocator's.  *)
EXTENDS InterviewSession, StageBudgets, TLC

CONSTANTS Type, Questions       \* interview type and question budget

ThreeQuestions ==
    [budget |-> 3,
     stageBudgets |-> [INTRODUCTION |-> 1, ROLE_SPECIFIC |-> 1, CLOSING |-> 1]]

TenQuestions ==
    [budget |-> 10,
     stageBudgets |-> [INTRODUCTION |-> 1, CANDIDATE_BACKGROUND |-> 2,
                       RESUME_DISCUSSION |-> 1, BEHAVIORAL |-> 4,
                       ADAPTIVE_PROBING |-> 1, CLOSING |-> 1]]

ASSUME PlanIsAllocated ==
    /\ Plan.budget = Questions
    /\ Plan.stageBudgets = AllocateStageBudgets(Type, Questions)

\* Handlers are interchangeable.
RequestSymmetry == Permutations(Requests)
=============================================================================
