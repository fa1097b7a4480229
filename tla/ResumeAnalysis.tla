----------------------------- MODULE ResumeAnalysis -----------------------------
(***************************************************************************)
(* Analyses of one resume (services/resume_analysis/service.py and its     *)
(* route): the user's rate limit is charged, the resume and an optional    *)
(* job context are loaded, the model is run without a transaction open,    *)
(* the output is scored and one commit writes the analysis.  Meanwhile the *)
(* resume or the job context may be deleted.                               *)
(***************************************************************************)
EXTENDS AIRunner, RateLimiter, ResumeScoring

CONSTANTS User,
          Outputs,          \* validated outputs the model may produce
          SectionSets,      \* detected_section_types of the resume
          MaxAnalyses       \* bound: accepted requests

ASSUME AnalysisAssumption ==
    /\ User \in Keys
    /\ SectionSets \subseteq SUBSET Sections
    /\ \A output \in Outputs : InputsValid(output)
    /\ MaxAnalyses \in Nat

VARIABLES
    resume,         \* extraction_status of the row, "deleted" without one
    sections,       \* detected_section_types of its extraction
    jobContext,     \* whether the job context exists
    analyses,       \* committed rows
    request         \* Callers -> the admitted request, with what it has loaded

analysisVars == <<resume, sections, jobContext, analyses, request>>
vars == <<analysisVars, run, limiterVars>>

NoRequest == [id |-> 0, withContext |-> FALSE]

Init == /\ LimiterInit
        /\ RunnerInit
        /\ resume \in {"EXTRACTED", "FAILED"}
        /\ sections \in SectionSets
        /\ jobContext = TRUE
        /\ analyses = {}
        /\ request = [c \in Callers |-> NoRequest]

\* The route raises 429 before the service is called.
RefuseRequest(c) ==
    /\ request[c] = NoRequest
    /\ Refuse(User)
    /\ UNCHANGED <<analysisVars, run>>

\* Admitted and charged; then 404 or 409 for what cannot be analysed, or 500
\* for a missing API key.
RejectRequest(c, withContext) ==
    /\ request[c] = NoRequest
    /\ Len(log[User]) < MaxAnalyses
    /\ Accept(User)
    /\ \/ resume # "EXTRACTED"
       \/ withContext /\ ~jobContext
       \/ ~KeyConfigured
    /\ UNCHANGED <<analysisVars, run>>

BeginRequest(c, withContext) ==
    /\ request[c] = NoRequest
    /\ Len(log[User]) < MaxAnalyses
    /\ Accept(User)
    /\ resume = "EXTRACTED"
    /\ withContext => jobContext
    /\ KeyConfigured
    /\ request' = [request EXCEPT ![c] = [id |-> Len(log'[User]), withContext |-> withContext]]
    /\ StartRun(c)
    /\ UNCHANGED <<resume, sections, jobContext, analyses>>

\* Outcomes that become an analysis, and those that propagate to the route.
Recorded == {"Output", "AIInvalidOutputError"}
Propagated == Outcomes \ Recorded

ProviderReplies(c, reply) ==
    /\ Reply(c, reply)
    /\ NextPoint(run[c].at, reply) \notin Propagated
    /\ UNCHANGED <<analysisVars, limiterVars>>

EndRequest(c) == /\ request' = [request EXCEPT ![c] = NoRequest]
                 /\ DropRun(c)
                 /\ UNCHANGED <<resume, sections, jobContext, limiterVars>>

\* Any other error of the run ends the request and leaves no trace.
Propagate(c, reply) ==
    /\ Running(c)
    /\ NextPoint(run[c].at, reply) \in Propagated
    /\ UNCHANGED analyses
    /\ EndRequest(c)

\* Foreign keys of the row: the resume, and the job context if there is one.
\* Mutated form: the resume is not a foreign key.
ParentsExistWithoutResume(c) == request[c].withContext => jobContext

ParentsExist(c) == /\ resume # "deleted"
                   /\ request[c].withContext => jobContext

Row(c, status, output, score) ==
    [id |-> request[c].id, status |-> status, context |-> request[c].withContext,
     output |-> output, score |-> score]

\* The score is computed from the sections loaded with the extraction, which
\* is never rewritten.
SaveCompleted(c, output) ==
    /\ run[c].at = "Output"
    /\ ParentsExist(c)
    /\ \E score \in OverallScores(output, sections) :
          analyses' = analyses \union {Row(c, "COMPLETED", output, score)}
    /\ EndRequest(c)

\* AIInvalidOutputError is recorded as a failed, unscored analysis.
SaveFailed(c) ==
    /\ run[c].at = "AIInvalidOutputError"
    /\ ParentsExist(c)
    /\ analyses' = analyses \union {Row(c, "AI_ANALYSIS_FAILED", <<>>, -1)}
    /\ EndRequest(c)

\* The commit is refused by a foreign key: nothing is written.
SaveRefused(c) ==
    /\ run[c].at \in Recorded
    /\ ~ParentsExist(c)
    /\ UNCHANGED analyses
    /\ EndRequest(c)

\* Disconnect or crash of the handler.
Abort(c) == /\ request[c] # NoRequest
            /\ UNCHANGED analyses
            /\ EndRequest(c)

\* retry_extraction succeeds; only a resume that has no text is extracted again.
ExtractAgain == /\ resume = "FAILED"
                /\ resume' = "EXTRACTED"
                /\ UNCHANGED <<sections, jobContext, analyses, request, run, limiterVars>>

\* ON DELETE CASCADE removes the analyses.
DeleteResume == /\ resume # "deleted"
                /\ resume' = "deleted"
                /\ analyses' = {}
                /\ UNCHANGED <<sections, jobContext, request, run, limiterVars>>

\* ON DELETE SET NULL keeps them.
DeleteJobContext ==
    /\ jobContext
    /\ jobContext' = FALSE
    /\ analyses' = {[a EXCEPT !.context = FALSE] : a \in analyses}
    /\ UNCHANGED <<resume, sections, request, run, limiterVars>>

PassTime == Tick /\ UNCHANGED <<analysisVars, run>>

\* What the handler does on its own: every call has a timeout.
Serve(c) == \/ \E reply \in Replies : ProviderReplies(c, reply) \/ Propagate(c, reply)
            \/ \E output \in Outputs : SaveCompleted(c, output)
            \/ SaveFailed(c)
            \/ SaveRefused(c)

Next == \/ \E c \in Callers :
              \/ RefuseRequest(c)
              \/ \E withContext \in BOOLEAN : \/ RejectRequest(c, withContext)
                                              \/ BeginRequest(c, withContext)
              \/ Serve(c)
              \/ Abort(c)
        \/ ExtractAgain
        \/ DeleteResume
        \/ DeleteJobContext
        \/ PassTime

Spec == Init /\ [][Next]_vars

-----------------------------------------------------------------------------
TypeOK ==
    /\ LimiterTypeOK
    /\ RunnerTypeOK
    /\ resume \in {"EXTRACTED", "FAILED", "deleted"}
    /\ sections \in SectionSets
    /\ jobContext \in BOOLEAN
    /\ \A a \in analyses : /\ a.status \in {"COMPLETED", "AI_ANALYSIS_FAILED"}
                           /\ a.output \in Outputs \union {<<>>}
                           /\ a.score \in -1 .. 100
    /\ \A c \in Callers : request[c] = NoRequest <=> run[c] = NoRun

\* A deletion that races an analysis wins: no row outlives its resume or
\* names a job context that is gone, whichever commits first.
RowsHaveParents ==
    /\ analyses # {} => resume # "deleted"
    /\ \A a \in analyses : a.context => jobContext

\* The score is an average of the categories that apply, each worth no more
\* than its verified evidence supports: leaving categories out and sharing
\* their weight moves it neither below the worst nor above the best of them.
ScoreIsAverage ==
    \A a \in analyses : a.status = "COMPLETED" =>
        \E worst, best \in Applicable(sections) :
            /\ Adjusted(worst, a.output[worst], sections) <= a.score
            /\ a.score <= Adjusted(best, a.output[best], sections)

AtLeast(better, worse) ==
    \A c \in Categories :
        /\ better[c].score >= worse[c].score
        /\ VerifiedEvidence(better[c].evidence) >= VerifiedEvidence(worse[c].evidence)

\* Of two analyses of a resume, one with at least the other's assessments and
\* verified evidence in every category has at least its score: caps,
\* deductions and rounding never turn an improvement into a loss.  Sums that
\* are equal are left to the rounding of a half.
BetterNeverScoresLower ==
    \A a, b \in analyses :
        /\ a.status = "COMPLETED" /\ b.status = "COMPLETED"
        /\ AtLeast(a.output, b.output)
        /\ WeightedSum(a.output, sections) # WeightedSum(b.output, sections)
        => a.score >= b.score
=================================================================================
