---------------------------- MODULE InterviewSession ----------------------------
(***************************************************************************)
(* One interview session served by concurrent HTTP requests                *)
(* (services/interview/service.py).  A handler loads the session row once, *)
(* awaits speech and AI services, and commits later from what it loaded:   *)
(* there is no row lock and no version column.  Two database rules decide  *)
(* what such a commit does:                                                *)
(*   - SQLAlchemy writes only the attributes whose value differs from the  *)
(*     loaded one (operator Flush);                                        *)
(*   - UNIQUE(session_id, sequence_number) on interview_questions and      *)
(*     UNIQUE(session_id) on interview_reports refuse a second insert.     *)
(* A refused commit is rolled back by get_db and changes nothing.          *)
(*                                                                         *)
(* Left out: memory, transcripts, scores and speech metrics (written in    *)
(* the same commits, they decide nothing here) and reads without effect    *)
(* (get, list, get_report).                                                *)
(***************************************************************************)
EXTENDS InterviewRules, Sequences, FiniteSets

CONSTANTS
    Requests,       \* handlers that may be in flight at the same time
    Moves,          \* bound: targets of the pause, resume and cancel requests
    Attempts,       \* bound: answer rows one question has at the same time
    Plan,           \* [budget, stageBudgets] of the session
    NoReport,       \* absence of a report row
    StartMayFail,   \* whether preparing the opening question may raise
    ModelTypes      \* whether the model types a question as a follow-up

ASSUME SessionAssumption ==
    /\ Plan.budget \in Nat \ {0}
    /\ Moves \subseteq {"PAUSED", "RUNNING", "CANCELLED"}
    /\ DOMAIN Plan.stageBudgets \subseteq AskingStages
    /\ StartMayFail \in BOOLEAN
    /\ ModelTypes \subseteq BOOLEAN
    /\ NoReport \notin [covers : SUBSET Nat]

VARIABLES
    session,        \* interview_sessions row; current = 0 stands for NULL
    questions,      \* interview_questions rows in sequence_number order
    answers,        \* interview_answers rows
    report,         \* interview_reports row: the questions it covers
    request         \* Requests -> what the handler has loaded and where it is

vars == <<session, questions, answers, report, request>>

-----------------------------------------------------------------------------
(* Rows and handlers.  Sequence numbers identify questions; a question and *)
(* an attempt identify an answer.                                          *)

SessionRow == [status : Statuses, stage : Stages, used : Nat, current : Nat]
QuestionRow == [stage : AskingStages, followUp : BOOLEAN]
AnswerRow == [question : Nat, attempt : Attempts, evaluated : BOOLEAN]

\* A handler: the point it has reached and its local variables.
Handler ==
    [at : {"idle", "gathering"}]
    \union [at : {"moving"}, target : Moves]
    \union [at : {"starting", "transcribing"}, loaded : SessionRow]
    \union [at : {"preserving"}, loaded : SessionRow, stale : SUBSET Attempts]
    \union [at : {"evaluating"}, loaded : SessionRow, attempt : Attempts]
    \union [at : {"asking"}, loaded : SessionRow, attempt : Attempts,
            decision : [action : Actions, stage : AskingStages]]
    \union [at : {"closing"}, loaded : SessionRow, attempt : Attempts,
            decision : [action : Actions, stage : {"COMPLETED"}]]
    \union [at : {"narrating"}, covers : SUBSET Nat]

Idle == [at |-> "idle"]

\* Points at which a handler holds the session row it has loaded.
LoadedAt == {"starting", "transcribing", "preserving", "evaluating", "asking", "closing"}
HasLoaded(r) == request[r].at \in LoadedAt

AnswersTo(q) == {a \in answers : a.question = q}
Evaluated(rows) == {a \in rows : a.evaluated}

Init == /\ session = [status |-> "PENDING", stage |-> "INTRODUCTION",
                      used |-> 0, current |-> 0]
        /\ questions = <<>>
        /\ answers = {}
        /\ report = NoReport
        /\ request = [r \in Requests |-> Idle]

\* The UPDATE of a commit: attributes that differ from the loaded ones.
Flush(loaded, changed) ==
    session' = [f \in DOMAIN session |->
                   IF changed[f] = loaded[f] THEN session[f] ELSE changed[f]]

GoIdle(r) == request' = [request EXCEPT ![r] = Idle]

\* Mutated form: the unique constraint is missing.
SequenceUnchecked(loaded) == TRUE

\* INSERT of the question numbered loaded.used + 1.
SequenceFree(loaded) == Len(questions) < loaded.used + 1

InsertQuestion(s, followUp) ==
    questions' = Append(questions, [stage |-> s, followUp |-> followUp])

\* A step in which the handler only loads or computes.
Load(r, local) ==
    /\ request' = [request EXCEPT ![r] = local]
    /\ UNCHANGED <<session, questions, answers, report>>

-----------------------------------------------------------------------------
(* start_interview.  The move to READY is checked in memory and never      *)
(* committed alone; an exception while the opening question is prepared    *)
(* commits FAILED.                                                         *)

\* Mutated form: RUNNING is committed before the opening question is there.
BeginStartRunning(r) ==
    /\ request[r] = Idle
    /\ "READY" \in StatusTransitions[session.status]
    /\ session' = [session EXCEPT !.status = "RUNNING"]
    /\ request' = [request EXCEPT ![r] = [at |-> "starting", loaded |-> session']]
    /\ UNCHANGED <<questions, answers, report>>

BeginStart(r) ==
    /\ request[r] = Idle
    /\ "READY" \in StatusTransitions[session.status]
    /\ Load(r, [at |-> "starting", loaded |-> session])

CommitStart(r, followUp) ==
    LET loaded == request[r].loaded IN
    /\ request[r].at = "starting"
    /\ SequenceFree(loaded)
    /\ InsertQuestion("INTRODUCTION", followUp)
    /\ Flush(loaded, [status |-> "RUNNING", stage |-> "INTRODUCTION",
                      used |-> loaded.used + 1, current |-> loaded.used + 1])
    /\ GoIdle(r)
    /\ UNCHANGED <<answers, report>>

CommitStartFailure(r) ==
    LET loaded == request[r].loaded IN
    /\ StartMayFail
    /\ request[r].at = "starting"
    /\ Flush(loaded, [loaded EXCEPT !.status = "FAILED"])
    /\ GoIdle(r)
    /\ UNCHANGED <<questions, answers, report>>

-----------------------------------------------------------------------------
(* pause_interview, resume_interview and cancel_interview: _transition on  *)
(* the loaded status, then a commit.  The table has no transition from a   *)
(* status to itself: the commit always writes the status, and nothing else.*)

\* Mutated form: _transition is not called.
BeginMoveUnchecked(r, target) ==
    /\ request[r] = Idle
    /\ target \in Moves
    /\ Load(r, [at |-> "moving", target |-> target])

BeginMove(r, target) ==
    /\ request[r] = Idle
    /\ target \in Moves
    /\ target \in StatusTransitions[session.status]
    /\ Load(r, [at |-> "moving", target |-> target])

Pause(r)  == BeginMove(r, "PAUSED")
Resume(r) == BeginMove(r, "RUNNING")
Cancel(r) == BeginMove(r, "CANCELLED")

CommitMove(r) ==
    /\ request[r].at = "moving"
    /\ session' = [session EXCEPT !.status = request[r].target]
    /\ GoIdle(r)
    /\ UNCHANGED <<questions, answers, report>>

-----------------------------------------------------------------------------
(* submit_answer.                                                          *)

BeginSubmit(r) ==
    /\ request[r] = Idle
    /\ session.status = "RUNNING"
    /\ session.current # 0
    /\ Load(r, [at |-> "transcribing", loaded |-> session])

\* Mutated form: any earlier answer refuses the submission.
CheckPreviousStrict(r) ==
    /\ request[r].at = "transcribing"
    /\ IF AnswersTo(request[r].loaded.current) # {}
       THEN Load(r, Idle)
       ELSE Load(r, [at |-> "preserving", loaded |-> request[r].loaded, stale |-> {}])

\* After the transcription: an evaluated answer refuses the submission, the
\* unevaluated ones are marked for replacement.
CheckPrevious(r) ==
    LET previous == AnswersTo(request[r].loaded.current) IN
    /\ request[r].at = "transcribing"
    /\ IF Evaluated(previous) # {}
       THEN Load(r, Idle)
       ELSE Load(r, [at |-> "preserving", loaded |-> request[r].loaded,
                     stale |-> {a.attempt : a \in previous}])

\* An answer row is identified by a UUID: its attempt is not given to another
\* row while another handler still refers to it.
HeldByOthers(r) ==
    UNION {IF request[h].at = "preserving" THEN request[h].stale ELSE {request[h].attempt} :
           h \in {o \in Requests \ {r} :
                    /\ request[o].at \in {"preserving", "evaluating", "asking", "closing"}
                    /\ request[o].loaded.current = request[r].loaded.current}}

\* First commit: replace the marked rows by the new answer, TRANSCRIBED.
PreserveAnswer(r) ==
    LET q       == request[r].loaded.current
        kept    == answers \ {a \in AnswersTo(q) : a.attempt \in request[r].stale}
        free    == Attempts \ (HeldByOthers(r) \union
                               {a.attempt : a \in {b \in kept : b.question = q}})
        attempt == CHOOSE k \in free : TRUE
    IN
    /\ request[r].at = "preserving"
    /\ free # {}                                  \* bound of the model
    /\ answers' = kept \union
                    {[question |-> q, attempt |-> attempt, evaluated |-> FALSE]}
    /\ request' = [request EXCEPT ![r] = [at      |-> "evaluating",
                                         loaded  |-> request[r].loaded,
                                         attempt |-> attempt]]
    /\ UNCHANGED <<session, questions, report>>

\* Mutated form: the last question only.
FollowUpStreakOfOne(s) ==
    IF questions = <<>> THEN 0
    ELSE LET last == questions[Len(questions)]
         IN  IF last.stage = s /\ last.followUp THEN 1 ELSE 0

\* _follow_up_streak: trailing follow-up questions stored in stage s.
FollowUpStreak(s) ==
    LET counts(i)  == questions[i].stage = s /\ questions[i].followUp
        trailing == {i \in DOMAIN questions :
                        \A j \in i..Len(questions) : counts(j)}
    IN  Cardinality(trailing)

QuestionsIn(s) == Cardinality({i \in DOMAIN questions : questions[i].stage = s})

\* EngineState of submit_answer: the total comes from the loaded row, the
\* stage counters from the rows stored now.
LoadedEngineState(loaded) ==
    [stage |-> loaded.stage, total |-> loaded.used,
     inStage |-> QuestionsIn(loaded.stage), streak |-> FollowUpStreak(loaded.stage),
     budget |-> Plan.budget, stageBudgets |-> Plan.stageBudgets]

\* Mutated form: the branch that closes the interview is missing.
AlwaysAsk(decision) == "asking"

AfterDecision(decision) ==
    IF decision.action = "CLOSE_INTERVIEW" THEN "closing" ELSE "asking"

\* The evaluation has arrived: read the questions and decide.
Decide(r, recommended) ==
    LET loaded   == request[r].loaded
        decision == DecideNextAction(LoadedEngineState(loaded), recommended)
    IN
    /\ request[r].at = "evaluating"
    /\ Load(r, [at       |-> AfterDecision(decision),
                loaded   |-> loaded,
                attempt  |-> request[r].attempt,
                decision |-> decision])

\* The row the handler has preserved, if no other handler replaced it.
Preserved(r) == {a \in AnswersTo(request[r].loaded.current) :
                    a.attempt = request[r].attempt}

\* Mutated form: the status of the answer is not updated.
MarkNothing(r) ==
    /\ Preserved(r) # {}
    /\ UNCHANGED answers

\* The answer becomes EVALUATED and gets its evaluation row; both need the
\* answer row to exist still.
MarkEvaluated(r) ==
    /\ Preserved(r) # {}
    /\ answers' = (answers \ Preserved(r))
                    \union {[a EXCEPT !.evaluated = TRUE] : a \in Preserved(r)}

\* Second commit when the interview goes on: evaluation and next question.  What
\* follows, the voice and the response, changes nothing.
CommitNextQuestion(r, source, modelSaysFollowUp) ==
    LET loaded   == request[r].loaded
        decision == request[r].decision
    IN
    /\ request[r].at = "asking"
    /\ SequenceFree(loaded)
    /\ MarkEvaluated(r)
    /\ InsertQuestion(decision.stage,
                      CountsAsFollowUp(decision.action, source, modelSaysFollowUp))
    /\ Flush(loaded, [loaded EXCEPT !.stage   = decision.stage,
                                    !.used    = loaded.used + 1,
                                    !.current = loaded.used + 1])
    /\ GoIdle(r)
    /\ UNCHANGED report

\* Second commit when the interview ends; the report is a third one.
CommitClose(r) ==
    LET loaded == request[r].loaded IN
    /\ request[r].at = "closing"
    /\ "COMPLETED" \in StatusTransitions[loaded.status]
    /\ MarkEvaluated(r)
    /\ Flush(loaded, [loaded EXCEPT !.status  = "COMPLETED",
                                    !.stage   = "COMPLETED",
                                    !.current = 0])
    /\ request' = [request EXCEPT ![r] = [at |-> "gathering"]]
    /\ UNCHANGED <<questions, report>>

\* _generate_report: read the evaluated answers and compute from them what the
\* report says (left out but for the questions it covers) ...
GatherReport(r) ==
    /\ request[r].at = "gathering"
    /\ Load(r, [at     |-> "narrating",
                covers |-> {a.question : a \in Evaluated(answers)}])

\* ... then insert, with the narrative of the model or, when that fails, without.
SaveReport(r) ==
    /\ request[r].at = "narrating"
    /\ report = NoReport
    /\ report' = [covers |-> request[r].covers]
    /\ GoIdle(r)
    /\ UNCHANGED <<session, questions, answers>>

-----------------------------------------------------------------------------
(* A handler that ends without its next commit: a refused commit, a failed *)
(* transcription or evaluation, an exception, a disconnect, a process      *)
(* crash.  What it has committed stays.                                    *)

Refused(r) ==
    /\ \/ request[r].at \in {"starting", "asking"} /\ ~SequenceFree(request[r].loaded)
       \/ request[r].at \in {"asking", "closing"} /\ Preserved(r) = {}
       \/ request[r].at = "narrating" /\ report # NoReport
    /\ Load(r, Idle)

Abort(r) ==
    /\ request[r] # Idle
    /\ Load(r, Idle)

\* What the server does by itself once a request has been accepted.
Serve(r) ==
    \/ \E source \in QuestionSources, modelSaysFollowUp \in ModelTypes :
          \/ CommitStart(r, CountsAsFollowUp("CHANGE_TOPIC", source, modelSaysFollowUp))
          \/ CommitNextQuestion(r, source, modelSaysFollowUp)
    \/ CommitStartFailure(r)
    \/ CommitMove(r)
    \/ CheckPrevious(r)
    \/ PreserveAnswer(r)
    \/ \E recommended \in Actions : Decide(r, recommended)
    \/ CommitClose(r)
    \/ GatherReport(r)
    \/ SaveReport(r)
    \/ Refused(r)

Accept(r) == BeginStart(r) \/ Pause(r) \/ Resume(r) \/ Cancel(r) \/ BeginSubmit(r)

Next == \E r \in Requests : Accept(r) \/ Serve(r) \/ Abort(r)

Spec == Init /\ [][Next]_vars

\* Every await in a handler is bounded by a timeout, so an accepted request
\* goes on; users and failures are left free.
FairSpec == Spec /\ \A r \in Requests : WF_vars(Serve(r))

\* Moreover the candidate submits again after a
\* failure or a pause, and no phase of a submission fails every time.
Finish(r) ==
    \/ \E source \in QuestionSources, modelSaysFollowUp \in ModelTypes :
          CommitNextQuestion(r, source, modelSaysFollowUp)
    \/ CommitClose(r)

PersistentSpec ==
    /\ FairSpec
    /\ \A r \in Requests :
          /\ SF_vars(BeginSubmit(r))
          /\ SF_vars(CheckPrevious(r))
          /\ SF_vars(PreserveAnswer(r))
          /\ SF_vars(\E recommended \in Actions : Decide(r, recommended))
          /\ SF_vars(Finish(r))

-----------------------------------------------------------------------------
(* Properties of every session, however many requests race.                *)

\* Rows have the shapes of their tables.
TypeOK == /\ session \in SessionRow
          /\ questions \in Seq(QuestionRow)
          /\ answers \subseteq AnswerRow
          /\ report \in [covers : SUBSET Nat] \union {NoReport}
          /\ request \in [Requests -> Handler]

\* question_budget_used is the number of stored questions and the pending
\* question is the last one, although handlers write both from rows they
\* loaded long before: the unique sequence number serialises the writers.
QuestionsNumbered ==
    /\ session.used = Len(questions)
    /\ session.current \in {0, Len(questions)}
    /\ \A r \in Requests : HasLoaded(r) =>
          /\ request[r].loaded.used <= Len(questions)
          /\ request[r].loaded.current \in {0, request[r].loaded.used}

\* Seen through its question rows and its stage, the session takes only the
\* steps of the sequential engine: a stale decision never gets stored.  Of
\* racing requests this holds when CLOSING has one question.
Engine == INSTANCE InterviewEngine WITH
              Plans  <- {Plan},
              plan   <- Plan,
              stage  <- session.stage,
              used   <- Len(questions),
              asked  <- [s \in AskingStages |-> QuestionsIn(s)],
              streak <- FollowUpStreak(IF questions = <<>> THEN "INTRODUCTION"
                                       ELSE questions[Len(questions)].stage)

SerialisedEngine == Engine!Spec

-----------------------------------------------------------------------------
(* Properties of a session whose requests come one after the other, with   *)
(* failures and crashes anywhere in a request.                             *)

\* A persisted status change is one the table allows, READY being passed
\* through inside start_interview (enums.py: "the ONLY way a session status
\* may change").
LegalStatusChange(from, to) ==
    \/ to \in StatusTransitions[from]
    \/ "READY" \in StatusTransitions[from] /\ to \in StatusTransitions["READY"]

FollowsStatusTable ==
    [][LegalStatusChange(session.status, session'.status)]_(session.status)

\* A running session can be answered: it has a pending question that has no
\* evaluated answer, whatever failed before.
NeverStranded ==
    session.status = "RUNNING" =>
        /\ session.current # 0
        /\ Evaluated(AnswersTo(session.current)) = {}

\* A candidate who keeps answering leaves RUNNING for good, however many
\* times a submission fails half-way, and whatever the evaluator recommends:
\* every failure leaves a session that the next submission can carry on
\* ("the attempt can be resubmitted", docs/INTERVIEW_SYSTEM.md).
RunningInterviewEnds == <>[](session.status # "RUNNING")

\* Only an unevaluated attempt is ever replaced (submit_answer, "Replace a
\* previous unevaluated attempt for this question").
EvaluatedAnswersKept ==
    [][Evaluated(answers) \subseteq answers']_answers

\* The report aggregates the evaluation of every question of the interview.
ReportCoversInterview == report # NoReport => report.covers = DOMAIN questions

\* A completed interview gets its report ("A single failure never strands
\* the session", docs/INTERVIEW_SYSTEM.md).
CompletedGetsReport == session.status = "COMPLETED" ~> report # NoReport
=============================================================================
