----------------------- MODULE InterviewSessionProofs -----------------------
(***************************************************************************)
(* For any number of concurrent requests and any plan: the rows keep their *)
(* types, the numbering of the questions survives every race, because the  *)
(* unique sequence number refuses the writers that are late, and the       *)
(* session implements the sequential engine under two named conditions.    *)
(* For requests that come one after the other, with failures anywhere: the *)
(* engine without conditions, the status law, the answers, the report.     *)
(***************************************************************************)
EXTENDS InterviewSession, InterviewRulesProofs, FiniteSetTheorems

\* The inductive invariant.  QuestionsNumbered carries the part that makes it
\* inductive: a row a handler has loaded is never ahead of the stored rows.
IInv == TypeOK /\ QuestionsNumbered

\* A row as create_interview or a numbered commit leaves it.
Numbered(row, n) == row.used <= n /\ row.current \in {0, row.used}

-----------------------------------------------------------------------------
(* What a step does to the rows.                                           *)

LEMMA FlushRow ==
    ASSUME session \in SessionRow, NEW loaded \in SessionRow,
           NEW changed \in SessionRow, Flush(loaded, changed)
    PROVE  /\ session' \in SessionRow
           /\ session'.used = IF changed.used = loaded.used
                              THEN session.used ELSE changed.used
           /\ session'.current = IF changed.current = loaded.current
                                 THEN session.current ELSE changed.current
  BY DEF Flush, SessionRow

\* A step of one handler that keeps the rows typed and numbered, and leaves
\* the handler with a numbered row if it has one.
LEMMA StepInvariant ==
    ASSUME IInv, NEW r \in Requests, NEW local \in Handler,
           request' = [request EXCEPT ![r] = local],
           session' \in SessionRow, questions' \in Seq(QuestionRow),
           answers' \subseteq AnswerRow,
           report' \in [covers : SUBSET Nat] \union {NoReport},
           Len(questions) <= Len(questions'),
           session'.used = Len(questions'),
           session'.current \in {0, Len(questions')},
           local.at \in LoadedAt => Numbered(local.loaded, Len(questions'))
    PROVE  IInv'
<1>1. request \in [Requests -> Handler] /\ questions \in Seq(QuestionRow)
  BY DEF IInv, TypeOK
<1>2. TypeOK'
  BY <1>1 DEF TypeOK
<1>3. ASSUME NEW h \in Requests, HasLoaded(h)'
      PROVE  Numbered(request'[h].loaded, Len(questions'))
  <2>1. CASE h = r
    BY <1>1, <1>3, <2>1 DEF HasLoaded
  <2>2. CASE h # r
    <3>1. request'[h] = request[h] /\ HasLoaded(h)
      BY <1>1, <1>3, <2>2 DEF HasLoaded
    <3>2. Numbered(request[h].loaded, Len(questions))
      BY <3>1 DEF IInv, QuestionsNumbered, Numbered
    <3>3. request[h].loaded.used \in Nat
      BY <1>1, <3>1 DEF Handler, HasLoaded, LoadedAt, SessionRow
    <3> QED
      BY <1>1, <3>1, <3>2, <3>3 DEF Numbered
  <2> QED
    BY <2>1, <2>2
<1>4. QuestionsNumbered'
  BY <1>3 DEF QuestionsNumbered, Numbered
<1> QED
  BY <1>2, <1>4 DEF IInv

\* Steps that only load or compute.
LEMMA LoadInvariant ==
    ASSUME IInv, NEW r \in Requests, NEW local \in Handler, Load(r, local),
           local.at \in LoadedAt => Numbered(local.loaded, Len(questions))
    PROVE  IInv'
<1>1. /\ request' = [request EXCEPT ![r] = local]
      /\ session' = session /\ questions' = questions
      /\ answers' = answers /\ report' = report
  BY DEF Load
<1>2. /\ session' \in SessionRow /\ questions' \in Seq(QuestionRow)
      /\ answers' \subseteq AnswerRow
      /\ report' \in [covers : SUBSET Nat] \union {NoReport}
      /\ session'.used = Len(questions')
      /\ session'.current \in {0, Len(questions')}
  BY <1>1 DEF IInv, TypeOK, QuestionsNumbered
<1>3. Len(questions) <= Len(questions')
  BY <1>1 DEF IInv, TypeOK
<1>4. local.at \in LoadedAt => Numbered(local.loaded, Len(questions'))
  BY <1>1
<1> QED
  BY <1>1, <1>2, <1>3, <1>4, StepInvariant

LEMMA IdleHandler ==
    /\ Idle \in Handler
    /\ Idle.at \notin LoadedAt
  BY DEF Idle, Handler, LoadedAt

\* A handler that holds a row: the row is typed and numbered.
LEMMA LoadedRow ==
    ASSUME IInv, NEW r \in Requests, request[r].at \in LoadedAt
    PROVE  /\ request[r].loaded \in SessionRow
           /\ Numbered(request[r].loaded, Len(questions))
  BY DEF IInv, TypeOK, Handler, LoadedAt, HasLoaded, QuestionsNumbered, Numbered

\* The session row as it is now is typed and numbered.
LEMMA CurrentRow ==
    ASSUME IInv
    PROVE  /\ session \in SessionRow
           /\ Numbered(session, Len(questions))
  BY DEF IInv, TypeOK, QuestionsNumbered, Numbered, SessionRow

\* The insert of a question and the update of the session row in one commit:
\* because the sequence number was free, the loaded row was up to date.
LEMMA InsertInvariant ==
    ASSUME IInv, NEW r \in Requests, NEW loaded \in SessionRow,
           NEW changed \in SessionRow, NEW s \in AskingStages,
           NEW followUp \in BOOLEAN,
           Numbered(loaded, Len(questions)), SequenceFree(loaded),
           changed.used = loaded.used + 1, changed.current = loaded.used + 1,
           InsertQuestion(s, followUp), Flush(loaded, changed), GoIdle(r),
           answers' \subseteq AnswerRow, report' = report
    PROVE  IInv'
<1>1. questions \in Seq(QuestionRow) /\ session \in SessionRow
  BY DEF IInv, TypeOK
<1>2. /\ questions' \in Seq(QuestionRow)
      /\ Len(questions') = Len(questions) + 1
      /\ Len(questions) \in Nat
  BY <1>1 DEF InsertQuestion, QuestionRow
<1>3. loaded.used \in Nat /\ loaded.current \in Nat
  BY DEF SessionRow
<1>4. loaded.used = Len(questions)
  BY <1>2, <1>3 DEF Numbered, SequenceFree
<1>5. /\ session' \in SessionRow
      /\ session'.used = Len(questions')
      /\ session'.current = Len(questions')
  BY <1>1, <1>2, <1>3, <1>4, FlushRow DEF Numbered
<1>6. Idle \in Handler /\ Idle.at \notin LoadedAt
  BY IdleHandler
<1>7. request' = [request EXCEPT ![r] = Idle]
  BY DEF GoIdle
<1>8. report' \in [covers : SUBSET Nat] \union {NoReport}
  BY DEF IInv, TypeOK
<1>9. /\ Len(questions) <= Len(questions')
      /\ session'.current \in {0, Len(questions')}
      /\ Idle.at \in LoadedAt => Numbered(Idle.loaded, Len(questions'))
  BY <1>2, <1>5, <1>6
<1> QED
  BY <1>2, <1>5, <1>6, <1>7, <1>8, <1>9, StepInvariant

\* A last step that stores no question and leaves the numbering alone.
LEMMA RowInvariant ==
    ASSUME IInv, NEW r \in Requests, NEW local \in Handler, local.at \notin LoadedAt,
           request' = [request EXCEPT ![r] = local],
           session' \in SessionRow, session'.used = session.used,
           session'.current \in {0, session.current},
           questions' = questions, answers' \subseteq AnswerRow,
           report' \in [covers : SUBSET Nat] \union {NoReport}
    PROVE  IInv'
<1>1. /\ questions \in Seq(QuestionRow) /\ session.used = Len(questions)
      /\ session.current \in {0, Len(questions)}
  BY DEF IInv, TypeOK, QuestionsNumbered
<1>2. /\ questions' \in Seq(QuestionRow)
      /\ Len(questions) <= Len(questions')
      /\ session'.used = Len(questions')
      /\ session'.current \in {0, Len(questions')}
      /\ local.at \in LoadedAt => Numbered(local.loaded, Len(questions'))
  BY <1>1
<1> QED
  BY <1>2, StepInvariant

\* An update of the session row that leaves the numbering alone.
LEMMA UpdateInvariant ==
    ASSUME IInv, NEW r \in Requests, NEW local \in Handler,
           NEW loaded \in SessionRow, NEW changed \in SessionRow,
           changed.used = loaded.used, changed.current \in {0, loaded.current},
           Flush(loaded, changed),
           request' = [request EXCEPT ![r] = local], local.at \notin LoadedAt,
           questions' = questions, answers' \subseteq AnswerRow, report' = report
    PROVE  IInv'
<1>1. session \in SessionRow /\ questions \in Seq(QuestionRow)
  BY DEF IInv, TypeOK
<1>2. /\ session' \in SessionRow
      /\ session'.used = session.used
      /\ session'.current \in {0, session.current}
  BY <1>1, FlushRow
<1>3. report' \in [covers : SUBSET Nat] \union {NoReport}
  BY DEF IInv, TypeOK
<1> QED
  BY <1>2, <1>3, RowInvariant

-----------------------------------------------------------------------------
(* The handlers, one action at a time.                                     *)

LEMMA StartInvariant ==
    ASSUME IInv, NEW r \in Requests
    PROVE  /\ BeginStart(r) => IInv'
           /\ \A followUp \in BOOLEAN : CommitStart(r, followUp) => IInv'
           /\ CommitStartFailure(r) => IInv'
<1>1. ASSUME BeginStart(r)
      PROVE  IInv'
  <2> DEFINE local == [at |-> "starting", loaded |-> session]
  <2>1. local \in Handler
    BY CurrentRow DEF Handler
  <2>2. Load(r, local) /\ Numbered(local.loaded, Len(questions))
    BY <1>1, CurrentRow DEF BeginStart
  <2> HIDE DEF local
  <2> QED
    BY <2>1, <2>2, LoadInvariant
<1>2. ASSUME NEW followUp \in BOOLEAN, CommitStart(r, followUp)
      PROVE  IInv'
  <2> DEFINE loaded  == request[r].loaded
             changed == [status |-> "RUNNING", stage |-> "INTRODUCTION",
                         used |-> loaded.used + 1, current |-> loaded.used + 1]
  <2>1. loaded \in SessionRow /\ Numbered(loaded, Len(questions))
    BY <1>2, LoadedRow DEF CommitStart, LoadedAt
  <2>2. /\ SequenceFree(loaded) /\ InsertQuestion("INTRODUCTION", followUp)
        /\ Flush(loaded, changed) /\ GoIdle(r)
        /\ answers' = answers /\ report' = report
    BY <1>2 DEF CommitStart
  <2>3. changed \in SessionRow /\ "INTRODUCTION" \in AskingStages
    BY <2>1 DEF SessionRow, Statuses, Stages, AskingStages
  <2>4. answers' \subseteq AnswerRow
    BY <2>2 DEF IInv, TypeOK
  <2>5. changed.used = loaded.used + 1 /\ changed.current = loaded.used + 1
    OBVIOUS
  <2> HIDE DEF loaded, changed
  <2> QED
    BY <2>1, <2>2, <2>3, <2>4, <2>5, InsertInvariant
<1>3. ASSUME CommitStartFailure(r)
      PROVE  IInv'
  <2> DEFINE loaded  == request[r].loaded
             changed == [loaded EXCEPT !.status = "FAILED"]
  <2>1. loaded \in SessionRow
    BY <1>3, LoadedRow DEF CommitStartFailure, LoadedAt
  <2>2. /\ Flush(loaded, changed) /\ GoIdle(r)
        /\ questions' = questions /\ answers' = answers /\ report' = report
    BY <1>3 DEF CommitStartFailure
  <2>3. /\ changed \in SessionRow
        /\ changed.used = loaded.used /\ changed.current = loaded.current
    BY <2>1 DEF SessionRow, Statuses
  <2>4. answers' \subseteq AnswerRow
    BY <2>2 DEF IInv, TypeOK
  <2>5. request' = [request EXCEPT ![r] = Idle]
    BY <2>2 DEF GoIdle
  <2> HIDE DEF loaded, changed
  <2> QED
    BY <2>1, <2>2, <2>3, <2>4, <2>5, IdleHandler, UpdateInvariant
<1> QED
  BY <1>1, <1>2, <1>3

LEMMA MoveInvariant ==
    ASSUME IInv, NEW r \in Requests
    PROVE  /\ \A target \in Moves : BeginMove(r, target) => IInv'
           /\ CommitMove(r) => IInv'
<1>1. ASSUME NEW target \in Moves, BeginMove(r, target)
      PROVE  IInv'
  <2> DEFINE local == [at |-> "moving", target |-> target]
  <2>1. local \in Handler /\ local.at \notin LoadedAt
    BY DEF Handler, LoadedAt
  <2>2. Load(r, local)
    BY <1>1 DEF BeginMove
  <2> HIDE DEF local
  <2> QED
    BY <2>1, <2>2, LoadInvariant
<1>2. ASSUME CommitMove(r)
      PROVE  IInv'
  <2>1. request[r].target \in Statuses
    BY <1>2, SessionAssumption
       DEF CommitMove, IInv, TypeOK, Handler, Statuses
  <2>2. /\ session' \in SessionRow
        /\ session'.used = session.used /\ session'.current = session.current
    BY <1>2, <2>1 DEF CommitMove, IInv, TypeOK, SessionRow
  <2>3. /\ request' = [request EXCEPT ![r] = Idle]
        /\ questions' = questions /\ answers' = answers /\ report' = report
    BY <1>2 DEF CommitMove, GoIdle
  <2>4. answers' \subseteq AnswerRow /\ report' \in [covers : SUBSET Nat] \union {NoReport}
    BY <2>3 DEF IInv, TypeOK
  <2> QED
    BY <2>2, <2>3, <2>4, IdleHandler, RowInvariant
<1> QED
  BY <1>1, <1>2

\* The first half of a submission, up to the stored answer.
LEMMA SubmitInvariant ==
    ASSUME IInv, NEW r \in Requests
    PROVE  /\ BeginSubmit(r) => IInv'
           /\ CheckPrevious(r) => IInv'
           /\ PreserveAnswer(r) => IInv'
<1>1. ASSUME BeginSubmit(r)
      PROVE  IInv'
  <2> DEFINE local == [at |-> "transcribing", loaded |-> session]
  <2>1. local \in Handler
    BY CurrentRow DEF Handler
  <2>2. Load(r, local) /\ Numbered(local.loaded, Len(questions))
    BY <1>1, CurrentRow DEF BeginSubmit
  <2> HIDE DEF local
  <2> QED
    BY <2>1, <2>2, LoadInvariant
<1>2. ASSUME CheckPrevious(r)
      PROVE  IInv'
  <2> DEFINE previous == AnswersTo(request[r].loaded.current)
             local    == [at |-> "preserving", loaded |-> request[r].loaded,
                          stale |-> {a.attempt : a \in previous}]
  <2>1. /\ request[r].loaded \in SessionRow
        /\ Numbered(request[r].loaded, Len(questions))
    BY <1>2, LoadedRow DEF CheckPrevious, LoadedAt
  <2>2. {a.attempt : a \in previous} \subseteq Attempts
    BY DEF AnswersTo, IInv, TypeOK, AnswerRow
  <2>3. local \in Handler /\ Numbered(local.loaded, Len(questions))
    BY <2>1, <2>2 DEF Handler
  <2>4. Load(r, Idle) \/ Load(r, local)
    BY <1>2 DEF CheckPrevious
  <2> HIDE DEF local
  <2> QED
    BY <2>3, <2>4, IdleHandler, LoadInvariant
<1>3. ASSUME PreserveAnswer(r)
      PROVE  IInv'
  <2> DEFINE q     == request[r].loaded.current
             kept  == answers \ {a \in AnswersTo(q) : a.attempt \in request[r].stale}
             free  == Attempts \ (HeldByOthers(r) \union
                                  {a.attempt : a \in {b \in kept : b.question = q}})
             chosen == CHOOSE k \in free : TRUE
             local  == [at |-> "evaluating", loaded |-> request[r].loaded,
                        attempt |-> chosen]
  <2>1. /\ request[r].loaded \in SessionRow
        /\ Numbered(request[r].loaded, Len(questions))
    BY <1>3, LoadedRow DEF PreserveAnswer, LoadedAt
  <2>2. /\ free # {}
        /\ answers' = kept \union
               {[question |-> q, attempt |-> chosen, evaluated |-> FALSE]}
        /\ request' = [request EXCEPT ![r] = local]
        /\ session' = session /\ questions' = questions /\ report' = report
    BY <1>3 DEF PreserveAnswer
  <2>3. chosen \in Attempts
    BY <2>2
  <2>4. q \in Nat
    BY <2>1 DEF SessionRow
  <2> HIDE DEF chosen, q
  <2>5. answers' \subseteq AnswerRow
    <3>1. kept \subseteq AnswerRow
      BY DEF IInv, TypeOK
    <3>2. [question |-> q, attempt |-> chosen, evaluated |-> FALSE] \in AnswerRow
      BY <2>3, <2>4 DEF AnswerRow
    <3> HIDE DEF kept
    <3> QED
      BY <2>2, <3>1, <3>2
  <2>6. local \in Handler /\ Numbered(local.loaded, Len(questions'))
    BY <2>1, <2>2, <2>3 DEF Handler
  <2>7. /\ session' \in SessionRow /\ questions' \in Seq(QuestionRow)
        /\ report' \in [covers : SUBSET Nat] \union {NoReport}
        /\ Len(questions) <= Len(questions')
        /\ session'.used = Len(questions')
        /\ session'.current \in {0, Len(questions')}
    BY <2>2 DEF IInv, TypeOK, QuestionsNumbered
  <2> HIDE DEF local, kept, free
  <2> QED
    BY <2>2, <2>5, <2>6, <2>7, StepInvariant
<1> QED
  BY <1>1, <1>2, <1>3

\* A decision that does not close the interview names a stage questions are
\* asked in; one that closes it names COMPLETED.
LEMMA DecisionTarget ==
    ASSUME NEW state, NEW recommended \in Actions, state.stage \in Stages,
           DOMAIN state.stageBudgets \subseteq AskingStages
    PROVE  LET decision == DecideNextAction(state, recommended)
           IN  /\ decision = [action |-> decision.action, stage |-> decision.stage]
               /\ decision.action \in Actions
               /\ decision.action = "CLOSE_INTERVIEW" => decision.stage = "COMPLETED"
               /\ decision.action # "CLOSE_INTERVIEW" => decision.stage \in AskingStages
<1> DEFINE action == ChosenAction(state, recommended)
           target == TargetStage(state, action)
<1>1. action \in Actions
  BY DEF ChosenAction, Screened, Actions
<1>2. NextStage(state.stage, DOMAIN state.stageBudgets) \in Stages
  BY NextStageSpec DEF Stages
<1>3. target \in Stages /\ (action = "CLOSE_INTERVIEW" => target = "COMPLETED")
  BY <1>2 DEF TargetStage, Stages
<1>4. DecideNextAction(state, recommended)
          = [action |-> IF target = "COMPLETED" THEN "CLOSE_INTERVIEW" ELSE action,
             stage  |-> target]
  BY DEF DecideNextAction
<1> HIDE DEF action, target
<1> QED
  BY <1>1, <1>3, <1>4 DEF Stages, Actions

LEMMA DecideInvariant ==
    ASSUME IInv, NEW r \in Requests, NEW recommended \in Actions, Decide(r, recommended)
    PROVE  IInv'
<1> DEFINE loaded   == request[r].loaded
           decision == DecideNextAction(LoadedEngineState(loaded), recommended)
           local    == [at       |-> AfterDecision(decision),
                        loaded   |-> loaded,
                        attempt  |-> request[r].attempt,
                        decision |-> decision]
<1>1. loaded \in SessionRow /\ Numbered(loaded, Len(questions))
  BY LoadedRow DEF Decide, LoadedAt
<1>2. request[r].attempt \in Attempts
  BY DEF Decide, IInv, TypeOK, Handler
<1>3. Load(r, local)
  BY DEF Decide
<1>4. /\ LoadedEngineState(loaded).stage \in Stages
      /\ DOMAIN LoadedEngineState(loaded).stageBudgets \subseteq AskingStages
  BY <1>1, SessionAssumption DEF LoadedEngineState, SessionRow
<1>5. /\ decision = [action |-> decision.action, stage |-> decision.stage]
      /\ decision.action \in Actions
      /\ decision.action = "CLOSE_INTERVIEW" => decision.stage = "COMPLETED"
      /\ decision.action # "CLOSE_INTERVIEW" => decision.stage \in AskingStages
  BY <1>4, DecisionTarget
<1> HIDE DEF decision, loaded
<1>6. CASE decision.action = "CLOSE_INTERVIEW"
  <2>1. /\ local.at = "closing"
        /\ decision \in [action : Actions, stage : {"COMPLETED"}]
    BY <1>5, <1>6 DEF AfterDecision
  <2>2. local \in Handler /\ Numbered(local.loaded, Len(questions))
    BY <1>1, <1>2, <2>1 DEF Handler
  <2> HIDE DEF local
  <2> QED
    BY <1>3, <2>2, LoadInvariant
<1>7. CASE decision.action # "CLOSE_INTERVIEW"
  <2>1. /\ local.at = "asking"
        /\ decision \in [action : Actions, stage : AskingStages]
    BY <1>5, <1>7 DEF AfterDecision
  <2>2. local \in Handler /\ Numbered(local.loaded, Len(questions))
    BY <1>1, <1>2, <2>1 DEF Handler
  <2> HIDE DEF local
  <2> QED
    BY <1>3, <2>2, LoadInvariant
<1> QED
  BY <1>6, <1>7

LEMMA EvaluatedAnswers ==
    ASSUME IInv, NEW r \in Requests, MarkEvaluated(r)
    PROVE  answers' \subseteq AnswerRow
  BY DEF MarkEvaluated, Preserved, AnswersTo, IInv, TypeOK, AnswerRow

\* The second half of a submission, and the report.
LEMMA FinishInvariant ==
    ASSUME IInv, NEW r \in Requests
    PROVE  /\ \A source \in QuestionSources, modelSaysFollowUp \in BOOLEAN :
                 CommitNextQuestion(r, source, modelSaysFollowUp) => IInv'
           /\ CommitClose(r) => IInv'
           /\ GatherReport(r) => IInv'
           /\ SaveReport(r) => IInv'
<1>1. ASSUME NEW source \in QuestionSources, NEW modelSaysFollowUp \in BOOLEAN,
             CommitNextQuestion(r, source, modelSaysFollowUp)
      PROVE  IInv'
  <2> DEFINE loaded   == request[r].loaded
             decision == request[r].decision
             followUp == CountsAsFollowUp(decision.action, source, modelSaysFollowUp)
             s        == decision.stage
             next     == loaded.used + 1
             changed  == [loaded EXCEPT !.stage   = s,
                                        !.used    = next,
                                        !.current = next]
  <2>1. loaded \in SessionRow /\ Numbered(loaded, Len(questions))
    BY <1>1, LoadedRow DEF CommitNextQuestion, LoadedAt
  <2>2. decision.stage \in AskingStages
    BY <1>1 DEF CommitNextQuestion, IInv, TypeOK, Handler
  <2>3. /\ SequenceFree(loaded) /\ InsertQuestion(decision.stage, followUp)
        /\ Flush(loaded, changed) /\ GoIdle(r) /\ report' = report
    BY <1>1 DEF CommitNextQuestion
  <2>4. answers' \subseteq AnswerRow
    BY <1>1, EvaluatedAnswers DEF CommitNextQuestion
  <2>5. followUp \in BOOLEAN
    BY DEF CountsAsFollowUp
  <2> HIDE DEF decision, followUp, loaded
  <2>6. changed \in SessionRow /\ changed.used = next /\ changed.current = next
    <3>1. s \in Stages /\ next \in Nat
      BY <2>1, <2>2 DEF SessionRow, Stages
    <3> HIDE DEF s, next
    <3> QED
      BY <2>1, <3>1 DEF SessionRow
  <2> HIDE DEF changed
  <2> QED
    BY <2>1, <2>2, <2>3, <2>4, <2>5, <2>6, InsertInvariant
<1>2. ASSUME CommitClose(r)
      PROVE  IInv'
  <2> DEFINE loaded  == request[r].loaded
             changed == [loaded EXCEPT !.status  = "COMPLETED",
                                       !.stage   = "COMPLETED",
                                       !.current = 0]
             local   == [at |-> "gathering"]
  <2>1. loaded \in SessionRow
    BY <1>2, LoadedRow DEF CommitClose, LoadedAt
  <2>2. /\ Flush(loaded, changed) /\ request' = [request EXCEPT ![r] = local]
        /\ questions' = questions /\ report' = report
    BY <1>2 DEF CommitClose
  <2>3. answers' \subseteq AnswerRow
    BY <1>2, EvaluatedAnswers DEF CommitClose
  <2>4. /\ changed \in SessionRow
        /\ changed.used = loaded.used /\ changed.current = 0
    BY <2>1 DEF SessionRow, Statuses, Stages
  <2>5. local \in Handler /\ local.at \notin LoadedAt
    BY DEF Handler, LoadedAt
  <2> HIDE DEF loaded, changed, local
  <2> QED
    BY <2>1, <2>2, <2>3, <2>4, <2>5, UpdateInvariant
<1>3. ASSUME GatherReport(r)
      PROVE  IInv'
  <2> DEFINE covers == {a.question : a \in Evaluated(answers)}
             local  == [at |-> "narrating", covers |-> covers]
  <2>1. covers \subseteq Nat
    BY DEF Evaluated, IInv, TypeOK, AnswerRow
  <2>2. Load(r, local)
    BY <1>3 DEF GatherReport
  <2> HIDE DEF covers
  <2>3. local \in Handler /\ local.at \notin LoadedAt
    BY <2>1 DEF Handler, LoadedAt
  <2> HIDE DEF local
  <2> QED
    BY <2>2, <2>3, LoadInvariant
<1>4. ASSUME SaveReport(r)
      PROVE  IInv'
  <2>1. request[r].covers \subseteq Nat
    BY <1>4 DEF SaveReport, IInv, TypeOK, Handler
  <2>2. /\ report' \in [covers : SUBSET Nat] \union {NoReport}
        /\ request' = [request EXCEPT ![r] = Idle]
        /\ session' = session /\ questions' = questions /\ answers' = answers
    BY <1>4, <2>1 DEF SaveReport, GoIdle
  <2>3. session' \in SessionRow /\ answers' \subseteq AnswerRow
    BY <2>2 DEF IInv, TypeOK
  <2> QED
    BY <2>2, <2>3, IdleHandler, RowInvariant
<1> QED
  BY <1>1, <1>2, <1>3, <1>4

LEMMA EndInvariant ==
    ASSUME IInv, NEW r \in Requests, Refused(r) \/ Abort(r)
    PROVE  IInv'
<1>1. Load(r, Idle)
  BY DEF Refused, Abort
<1> QED
  BY <1>1, IdleHandler, LoadInvariant

-----------------------------------------------------------------------------
(* The theorems.                                                           *)

LEMMA InitInvariant ==
    ASSUME Init
    PROVE  IInv
<1>1. TypeOK
  BY IdleHandler DEF Init, TypeOK, SessionRow, Statuses, Stages, AskingStages
<1>2. QuestionsNumbered
  BY IdleHandler DEF Init, QuestionsNumbered, HasLoaded
<1> QED
  BY <1>1, <1>2 DEF IInv

LEMMA NextInvariant ==
    ASSUME IInv, [Next]_vars
    PROVE  IInv'
<1>1. CASE UNCHANGED vars
  BY <1>1 DEF vars, IInv, TypeOK, QuestionsNumbered, HasLoaded
<1>2. ASSUME NEW r \in Requests, Accept(r)
      PROVE  IInv'
  <2>1. CASE BeginStart(r)
    BY <2>1, StartInvariant
  <2>2. CASE Pause(r) \/ Resume(r) \/ Cancel(r)
    <3>1. \E target \in Moves : BeginMove(r, target)
      BY <2>2 DEF Pause, Resume, Cancel, BeginMove
    <3> QED
      BY <3>1, MoveInvariant
  <2>3. CASE BeginSubmit(r)
    BY <2>3, SubmitInvariant
  <2> QED
    BY <1>2, <2>1, <2>2, <2>3 DEF Accept
<1>3. ASSUME NEW r \in Requests, Serve(r)
      PROVE  IInv'
  <2>1. ASSUME NEW source \in QuestionSources, NEW modelSaysFollowUp \in ModelTypes,
               \/ CommitStart(r, CountsAsFollowUp("CHANGE_TOPIC", source, modelSaysFollowUp))
               \/ CommitNextQuestion(r, source, modelSaysFollowUp)
        PROVE  IInv'
    <3>1. /\ modelSaysFollowUp \in BOOLEAN
          /\ CountsAsFollowUp("CHANGE_TOPIC", source, modelSaysFollowUp) \in BOOLEAN
      BY SessionAssumption DEF CountsAsFollowUp
    <3> QED
      BY <2>1, <3>1, StartInvariant, FinishInvariant
  <2>2. CASE CommitStartFailure(r)
    BY <2>2, StartInvariant
  <2>3. CASE CommitMove(r)
    BY <2>3, MoveInvariant
  <2>4. CASE CheckPrevious(r) \/ PreserveAnswer(r)
    BY <2>4, SubmitInvariant
  <2>5. ASSUME NEW recommended \in Actions, Decide(r, recommended)
        PROVE  IInv'
    BY <2>5, DecideInvariant
  <2>6. CASE CommitClose(r) \/ GatherReport(r) \/ SaveReport(r)
    BY <2>6, FinishInvariant
  <2>7. CASE Refused(r)
    BY <2>7, EndInvariant
  <2> QED
    BY <1>3, <2>1, <2>2, <2>3, <2>4, <2>5, <2>6, <2>7 DEF Serve
<1>4. ASSUME NEW r \in Requests, Abort(r)
      PROVE  IInv'
  BY <1>4, EndInvariant
<1> QED
  BY <1>1, <1>2, <1>3, <1>4 DEF Next

\* Every reachable state satisfies the inductive invariant.
THEOREM Invariance == Spec => []IInv
<1>1. Init => IInv
  BY InitInvariant
<1>2. IInv /\ [Next]_vars => IInv'
  BY NextInvariant
<1> QED
  BY <1>1, <1>2, PTL DEF Spec

\* Rows and handlers keep their types whatever requests are interleaved.
THEOREM TypeCorrect == Spec => []TypeOK
  BY Invariance, PTL DEF IInv

\* question_budget_used counts the stored questions and the pending question
\* is the last one, for any number of racing requests.
THEOREM NumberingHolds == Spec => []QuestionsNumbered
  BY Invariance, PTL DEF IInv

-----------------------------------------------------------------------------
(* The session implements the sequential engine.                           *)
(*                                                                         *)
(* Two conditions are needed, each because a race ends differently without *)
(* it.  When CLOSING has two questions, two submissions to the first of    *)
(* them can close the interview and then store the second.  A start that   *)
(* fails late commits FAILED over a running session, which can be started  *)
(* again.  Under the conditions every stored question extends an interview *)
(* that was not at its end, and only the question at the end closes it.    *)

\* The closing stage has one question.
ClosesOnce == /\ "CLOSING" \in DOMAIN Plan.stageBudgets
              /\ Plan.stageBudgets["CLOSING"] = 1

\* A start whose opening question fails ends before another one has succeeded.
NoLateStartFailure == \A r \in Requests : CommitStartFailure(r) => questions = <<>>

\* Question n is the last one of the interview: the evaluation of its answer
\* closes it.
AtEnd(n) == n >= Plan.budget \/ questions[n].stage = "CLOSING"

SessionAligned ==
    /\ \A n \in DOMAIN questions : n < Len(questions) => ~AtEnd(n)
    /\ session.status # "READY"
    /\ session.status \in {"PENDING", "FAILED"} => questions = <<>>
    /\ questions = <<>> => session.stage = "INTRODUCTION"
    /\ questions # <<>> =>
          \/ /\ session.stage = questions[Len(questions)].stage
             /\ session.current = Len(questions)
          \/ /\ session.stage = "COMPLETED"
             /\ session.current = 0
             /\ AtEnd(Len(questions))

\* A handler with a row that was loaded when question loaded.used was pending.
AnswersLoadedQuestion(r) ==
    LET loaded == request[r].loaded IN
    /\ loaded.used \in DOMAIN questions
    /\ loaded.stage = questions[loaded.used].stage
    /\ loaded.current = loaded.used

\* The decision a handler holds is the one the stored questions lead to, as
\* long as no question has been stored since its row was loaded.
DecisionCurrent(r) ==
    LET loaded == request[r].loaded IN
    loaded.used = Len(questions) =>
        \E recommended \in Actions :
            request[r].decision = DecideNextAction(LoadedEngineState(loaded), recommended)

HandlerAligned(r) ==
    /\ request[r].at = "starting" =>
          /\ request[r].loaded.status \in {"PENDING", "FAILED"}
          /\ request[r].loaded.used = 0
          /\ request[r].loaded.stage = "INTRODUCTION"
    /\ request[r].at \in LoadedAt \ {"starting"} => AnswersLoadedQuestion(r)
    /\ request[r].at = "closing" => AtEnd(request[r].loaded.used)
    /\ request[r].at = "asking" => /\ ~AtEnd(request[r].loaded.used)
                                   /\ DecisionCurrent(r)

Aligned == SessionAligned /\ \A r \in Requests : HandlerAligned(r)

\* The decision closes the interview at its last question and only there.
LEMMA DecideEnds ==
    ASSUME ClosesOnce, NEW loaded \in SessionRow, NEW recommended \in Actions,
           loaded.stage \in AskingStages,
           loaded.stage = "CLOSING" => QuestionsIn("CLOSING") >= 1
    PROVE  DecideNextAction(LoadedEngineState(loaded), recommended).action
               = "CLOSE_INTERVIEW"
           <=> loaded.used >= Plan.budget \/ loaded.stage = "CLOSING"
<1> DEFINE state  == LoadedEngineState(loaded)
           action == ChosenAction(state, recommended)
           target == TargetStage(state, action)
<1>1. /\ state.stage = loaded.stage /\ state.total = loaded.used
      /\ state.inStage = QuestionsIn(loaded.stage)
      /\ state.budget = Plan.budget /\ state.stageBudgets = Plan.stageBudgets
  BY DEF LoadedEngineState
<1>2. InterviewExhausted(state)
          <=> loaded.used >= Plan.budget \/ loaded.stage = "CLOSING"
  BY <1>1 DEF InterviewExhausted, StageExhausted, ClosesOnce
<1>3. DecideNextAction(state, recommended).action
          = IF target = "COMPLETED" THEN "CLOSE_INTERVIEW" ELSE action
  BY DEF DecideNextAction
<1>4. ASSUME InterviewExhausted(state)
      PROVE  DecideNextAction(state, recommended).action = "CLOSE_INTERVIEW"
  BY <1>3, <1>4 DEF ChosenAction
<1>5. ASSUME ~InterviewExhausted(state)
      PROVE  DecideNextAction(state, recommended).action # "CLOSE_INTERVIEW"
  <2>1. loaded.stage # "CLOSING"
    BY <1>2, <1>5
  <2>2. action # "CLOSE_INTERVIEW"
    <3>1. "CLOSE_INTERVIEW" \notin AllowedActionsByStage[loaded.stage]
      BY <2>1 DEF AllowedActionsByStage, AskingStages
    <3> QED
      BY <1>1, <1>5, <3>1 DEF ChosenAction, Screened
  <2>3. NextStage(loaded.stage, DOMAIN Plan.stageBudgets) # "COMPLETED"
    <3>1. "CLOSING" \in {s \in DOMAIN Plan.stageBudgets :
                            StageIndex(s) > StageIndex(loaded.stage)}
      BY <2>1, StageIndexOrder, StageIndexValues DEF ClosesOnce, Stages, AskingStages
    <3> QED
      BY <3>1, NextStageSpec, SessionAssumption DEF Stages, AskingStages
  <2>4. target # "COMPLETED"
    BY <1>1, <2>2, <2>3 DEF TargetStage, AskingStages
  <2> HIDE DEF target, action
  <2> QED
    BY <1>3, <2>2, <2>4
<1> QED
  BY <1>2, <1>4, <1>5

-----------------------------------------------------------------------------
(* The counters of the stored questions.                                   *)

LEMMA StoredFinite ==
    ASSUME questions \in Seq(QuestionRow), NEW rows \in SUBSET (DOMAIN questions)
    PROVE  IsFiniteSet(rows) /\ Cardinality(rows) \in Nat
<1>1. IsFiniteSet(DOMAIN questions)
  <2>1. DOMAIN questions = 1..Len(questions) /\ Len(questions) \in Nat
    OBVIOUS
  <2> QED
    BY <2>1, FS_Interval
<1> QED
  BY <1>1, FS_Subset, FS_CardinalityType

LEMMA CountersInNat ==
    ASSUME questions \in Seq(QuestionRow), NEW s
    PROVE  QuestionsIn(s) \in Nat /\ FollowUpStreak(s) \in Nat
<1>1. /\ {i \in DOMAIN questions : questions[i].stage = s} \subseteq DOMAIN questions
      /\ {i \in DOMAIN questions : \A j \in i..Len(questions) :
             questions[j].stage = s /\ questions[j].followUp} \subseteq DOMAIN questions
  OBVIOUS
<1> QED
  BY <1>1, StoredFinite DEF QuestionsIn, FollowUpStreak

\* A stage a stored question belongs to has a question.
LEMMA StageCounted ==
    ASSUME questions \in Seq(QuestionRow), NEW n \in DOMAIN questions
    PROVE  QuestionsIn(questions[n].stage) >= 1
<1> DEFINE rows == {i \in DOMAIN questions : questions[i].stage = questions[n].stage}
<1>1. IsFiniteSet(rows) /\ n \in rows /\ Cardinality(rows) \in Nat
  BY StoredFinite
<1>2. Cardinality(rows) # 0
  BY <1>1, FS_EmptySet
<1> QED
  BY <1>1, <1>2 DEF QuestionsIn

\* What an inserted question adds to the counters.
LEMMA InsertCounts ==
    ASSUME questions \in Seq(QuestionRow), NEW s \in AskingStages,
           NEW followUp \in BOOLEAN, InsertQuestion(s, followUp)
    PROVE  /\ \A t : QuestionsIn(t)' = IF t = s THEN QuestionsIn(t) + 1
                                                ELSE QuestionsIn(t)
           /\ FollowUpStreak(s)' = IF followUp THEN FollowUpStreak(s) + 1 ELSE 0
<1> DEFINE n == Len(questions)
<1>1. /\ questions' \in Seq(QuestionRow)
      /\ Len(questions') = n + 1 /\ n \in Nat
      /\ DOMAIN questions = 1..n /\ DOMAIN questions' = 1..(n + 1)
      /\ \A i \in 1..n : questions'[i] = questions[i]
      /\ questions'[n + 1] = [stage |-> s, followUp |-> followUp]
  BY DEF InsertQuestion, QuestionRow
<1>2. ASSUME NEW t
      PROVE  QuestionsIn(t)' = IF t = s THEN QuestionsIn(t) + 1 ELSE QuestionsIn(t)
  <2> DEFINE before == {i \in DOMAIN questions : questions[i].stage = t}
             after  == {i \in DOMAIN questions' : questions'[i].stage = t}
  <2>1. IsFiniteSet(before) /\ n + 1 \notin before
    <3>1. before \subseteq DOMAIN questions
      OBVIOUS
    <3> QED
      BY <1>1, <3>1, StoredFinite
  <2>2. CASE t = s
    <3>1. after = before \union {n + 1}
      BY <1>1, <2>2
    <3>2. Cardinality(after) = Cardinality(before) + 1
      BY <2>1, <3>1, FS_AddElement
    <3> QED
      BY <2>2, <3>2 DEF QuestionsIn
  <2>3. CASE t # s
    <3>1. after = before
      BY <1>1, <2>3
    <3> QED
      BY <2>3, <3>1 DEF QuestionsIn
  <2> QED
    BY <2>2, <2>3
<1>3. FollowUpStreak(s)' = IF followUp THEN FollowUpStreak(s) + 1 ELSE 0
  <2> DEFINE before == {i \in DOMAIN questions : \A j \in i..n :
                           questions[j].stage = s /\ questions[j].followUp}
             after  == {i \in DOMAIN questions' : \A j \in i..Len(questions') :
                           questions'[j].stage = s /\ questions'[j].followUp}
  <2>1. IsFiniteSet(before) /\ n + 1 \notin before
    <3>1. before \subseteq DOMAIN questions
      OBVIOUS
    <3> QED
      BY <1>1, <3>1, StoredFinite
  <2>2. FollowUpStreak(s) = Cardinality(before) /\ FollowUpStreak(s)' = Cardinality(after)
    BY DEF FollowUpStreak
  <2>3. CASE followUp
    <3>1. after = before \union {n + 1}
      BY <1>1, <2>3
    <3>2. Cardinality(after) = Cardinality(before) + 1
      BY <2>1, <3>1, FS_AddElement
    <3> QED
      BY <2>2, <2>3, <3>2
  <2>4. CASE ~followUp
    <3>1. after = {}
      BY <1>1, <2>4
    <3> QED
      BY <2>2, <2>4, <3>1, FS_EmptySet
  <2> QED
    BY <2>3, <2>4
<1> QED
  BY <1>2, <1>3

\* The streak belongs to the stage of the last question.
LEMMA StreakElsewhere ==
    ASSUME questions \in Seq(QuestionRow), NEW s,
           questions # <<>> => questions[Len(questions)].stage # s
    PROVE  FollowUpStreak(s) = 0
<1>1. {i \in DOMAIN questions : \A j \in i..Len(questions) :
          questions[j].stage = s /\ questions[j].followUp} = {}
  OBVIOUS
<1> QED
  BY <1>1, FS_EmptySet DEF FollowUpStreak

-----------------------------------------------------------------------------
(* Alignment is preserved, step by step.                                   *)

\* The other handlers stay aligned when a question is stored: what they rely
\* on is the question they answer, not the last one.
LEMMA OthersAligned ==
    ASSUME IInv, Aligned, NEW h \in Requests, request'[h] = request[h],
           \/ questions' = questions
           \/ \E s \in AskingStages, followUp \in BOOLEAN : InsertQuestion(s, followUp)
    PROVE  HandlerAligned(h)'
<1>1. questions \in Seq(QuestionRow) /\ request[h] \in Handler /\ HandlerAligned(h)
  BY DEF IInv, TypeOK, Aligned
<1>2. CASE questions' = questions
  BY <1>1, <1>2, SMTT(30) DEF HandlerAligned, AnswersLoadedQuestion, DecisionCurrent, AtEnd,
                    LoadedEngineState, QuestionsIn, FollowUpStreak
<1>3. ASSUME NEW s \in AskingStages, NEW followUp \in BOOLEAN, InsertQuestion(s, followUp)
      PROVE  HandlerAligned(h)'
  <2>1. /\ Len(questions') = Len(questions) + 1 /\ Len(questions) \in Nat
        /\ DOMAIN questions = 1..Len(questions)
        /\ DOMAIN questions' = 1..(Len(questions) + 1)
        /\ \A i \in DOMAIN questions : questions'[i] = questions[i]
    BY <1>1, <1>3 DEF InsertQuestion, QuestionRow
  <2>2. ASSUME request[h].at \in LoadedAt \ {"starting"}
        PROVE  /\ request[h].loaded.used \in DOMAIN questions
               /\ AnswersLoadedQuestion(h)'
               /\ AtEnd(request[h].loaded.used)' <=> AtEnd(request[h].loaded.used)
               /\ DecisionCurrent(h)'
    <3>1. AnswersLoadedQuestion(h)
      BY <1>1, <2>2 DEF HandlerAligned
    <3>2. request'[h].loaded.used # Len(questions')
      BY <2>1, <3>1 DEF AnswersLoadedQuestion
    <3> QED
      BY <2>1, <3>1, <3>2 DEF AnswersLoadedQuestion, AtEnd, DecisionCurrent
  <2> QED
    BY <1>1, <2>2 DEF HandlerAligned, LoadedAt
<1> QED
  BY <1>2, <1>3

\* A step of one handler that leaves the session and that handler aligned.
LEMMA StepAligned ==
    ASSUME IInv, Aligned, NEW r \in Requests, NEW local,
           request' = [request EXCEPT ![r] = local],
           \/ questions' = questions
           \/ \E s \in AskingStages, followUp \in BOOLEAN : InsertQuestion(s, followUp),
           SessionAligned', HandlerAligned(r)'
    PROVE  Aligned'
<1>1. ASSUME NEW h \in Requests, h # r
      PROVE  HandlerAligned(h)'
  <2>1. request'[h] = request[h]
    BY <1>1 DEF IInv, TypeOK
  <2> QED
    BY <2>1, OthersAligned
<1> QED
  BY <1>1 DEF Aligned

\* A handler that holds no row is aligned with anything.
LEMMA NoRowAligned ==
    ASSUME NEW r \in Requests, request[r].at \notin LoadedAt
    PROVE  HandlerAligned(r)
  BY DEF HandlerAligned, LoadedAt

\* Steps that only load or compute.
LEMMA LoadAligned ==
    ASSUME IInv, Aligned, NEW r \in Requests, NEW local, Load(r, local),
           HandlerAligned(r)'
    PROVE  Aligned'
<1>1. /\ request' = [request EXCEPT ![r] = local]
      /\ session' = session /\ questions' = questions
  BY DEF Load
<1>2. SessionAligned'
  BY <1>1 DEF Aligned, SessionAligned, AtEnd
<1> QED
  BY <1>1, <1>2, StepAligned

\* The row a handler loads for a submission belongs to the pending question.
LEMMA PendingQuestion ==
    ASSUME IInv, Aligned, session.current # 0
    PROVE  /\ session.used \in DOMAIN questions
           /\ session.stage = questions[session.used].stage
           /\ session.current = session.used
<1>1. /\ questions \in Seq(QuestionRow) /\ session.used = Len(questions)
      /\ session.current = Len(questions)
  BY DEF IInv, TypeOK, QuestionsNumbered
<1>2. questions # <<>> /\ Len(questions) \in DOMAIN questions
  BY <1>1
<1> QED
  BY <1>1, <1>2 DEF Aligned, SessionAligned

LEMMA BeginAligned ==
    ASSUME IInv, Aligned, NEW r \in Requests
    PROVE  /\ BeginStart(r) => Aligned'
           /\ \A target \in Moves : BeginMove(r, target) => Aligned'
           /\ BeginSubmit(r) => Aligned'
<1>0. request \in [Requests -> Handler]
  BY DEF IInv, TypeOK
<1>1. ASSUME BeginStart(r)
      PROVE  Aligned'
  <2> DEFINE local == [at |-> "starting", loaded |-> session]
  <2>1. /\ session.status \in {"PENDING", "FAILED"} /\ session.used = 0
        /\ session.stage = "INTRODUCTION"
    BY <1>1 DEF BeginStart, StatusTransitions, IInv, TypeOK, QuestionsNumbered,
                SessionRow, Statuses, Aligned, SessionAligned
  <2>2. Load(r, local) /\ request'[r] = local
    BY <1>0, <1>1 DEF BeginStart, Load
  <2>3. HandlerAligned(r)'
    BY <2>1, <2>2 DEF HandlerAligned
  <2> QED
    BY <2>2, <2>3, LoadAligned
<1>2. ASSUME NEW target \in Moves, BeginMove(r, target)
      PROVE  Aligned'
  <2> DEFINE local == [at |-> "moving", target |-> target]
  <2>1. Load(r, local) /\ request'[r] = local
    BY <1>0, <1>2 DEF BeginMove, Load
  <2>2. HandlerAligned(r)'
    BY <2>1 DEF HandlerAligned, LoadedAt
  <2> QED
    BY <2>1, <2>2, LoadAligned
<1>3. ASSUME BeginSubmit(r)
      PROVE  Aligned'
  <2> DEFINE local == [at |-> "transcribing", loaded |-> session]
  <2>1. Load(r, local) /\ request'[r] = local /\ questions' = questions
    BY <1>0, <1>3 DEF BeginSubmit, Load
  <2>2. HandlerAligned(r)'
    BY <1>3, <2>1, PendingQuestion
       DEF BeginSubmit, HandlerAligned, LoadedAt, AnswersLoadedQuestion
  <2> QED
    BY <2>1, <2>2, LoadAligned
<1> QED
  BY <1>1, <1>2, <1>3

LEMMA CommitStartAligned ==
    ASSUME IInv, Aligned, NEW r \in Requests, NEW followUp \in BOOLEAN,
           CommitStart(r, followUp)
    PROVE  /\ questions = <<>>
           /\ session'.stage = "INTRODUCTION"
           /\ Aligned'
<1> DEFINE loaded  == request[r].loaded
           changed == [status |-> "RUNNING", stage |-> "INTRODUCTION",
                       used |-> loaded.used + 1, current |-> loaded.used + 1]
<1>1. /\ session \in SessionRow /\ loaded \in SessionRow
      /\ Numbered(loaded, Len(questions))
      /\ questions \in Seq(QuestionRow) /\ request \in [Requests -> Handler]
  BY LoadedRow DEF CommitStart, LoadedAt, IInv, TypeOK
<1>2. /\ loaded.status \in {"PENDING", "FAILED"} /\ loaded.used = 0
      /\ loaded.stage = "INTRODUCTION" /\ loaded.current = 0
  BY <1>1 DEF CommitStart, Aligned, HandlerAligned, Numbered
<1>3. questions = <<>> /\ session.stage = "INTRODUCTION"
  BY <1>1, <1>2 DEF CommitStart, SequenceFree, Aligned, SessionAligned
<1>4. /\ InsertQuestion("INTRODUCTION", followUp) /\ Flush(loaded, changed)
      /\ request' = [request EXCEPT ![r] = Idle]
  BY DEF CommitStart, GoIdle
<1>5. /\ session'.status = "RUNNING" /\ session'.stage = "INTRODUCTION"
      /\ session'.current = 1
  BY <1>1, <1>2, <1>3, <1>4 DEF Flush, SessionRow
<1>6. questions' = <<[stage |-> "INTRODUCTION", followUp |-> followUp]>>
  BY <1>3, <1>4 DEF InsertQuestion
<1>7. SessionAligned'
  BY <1>5, <1>6 DEF SessionAligned
<1>8. HandlerAligned(r)'
  BY <1>1, <1>4, IdleHandler DEF HandlerAligned, LoadedAt
<1>9. "INTRODUCTION" \in AskingStages
  BY DEF AskingStages
<1> QED
  BY <1>3, <1>4, <1>5, <1>7, <1>8, <1>9, StepAligned

\* Updates of the status only.
LEMMA StatusAligned ==
    ASSUME IInv, Aligned, NEW r \in Requests
    PROVE  /\ NoLateStartFailure /\ CommitStartFailure(r) =>
                  Aligned' /\ session'.stage = session.stage
           /\ CommitMove(r) => Aligned' /\ session'.stage = session.stage
<1>1. session \in SessionRow /\ request \in [Requests -> Handler]
  BY DEF IInv, TypeOK
<1>2. ASSUME NoLateStartFailure, CommitStartFailure(r)
      PROVE  Aligned' /\ session'.stage = session.stage
  <2> DEFINE loaded == request[r].loaded
  <2>1. loaded \in SessionRow /\ questions = <<>>
    BY <1>2, LoadedRow DEF CommitStartFailure, LoadedAt, NoLateStartFailure
  <2>2. /\ session' = [f \in DOMAIN session |->
                          IF [loaded EXCEPT !.status = "FAILED"][f] = loaded[f]
                          THEN session[f] ELSE [loaded EXCEPT !.status = "FAILED"][f]]
        /\ request' = [request EXCEPT ![r] = Idle] /\ questions' = questions
    BY <1>2 DEF CommitStartFailure, Flush, GoIdle
  <2>3. /\ session'.stage = session.stage
        /\ session'.status \in {session.status, "FAILED"}
    BY <1>1, <2>1, <2>2 DEF SessionRow
  <2>4. SessionAligned'
    BY <2>1, <2>2, <2>3 DEF Aligned, SessionAligned
  <2>5. HandlerAligned(r)'
    BY <1>1, <2>2, IdleHandler DEF HandlerAligned, LoadedAt
  <2> QED
    BY <2>2, <2>3, <2>4, <2>5, StepAligned
<1>3. ASSUME CommitMove(r)
      PROVE  Aligned' /\ session'.stage = session.stage
  <2>1. request[r].target \in {"PAUSED", "RUNNING", "CANCELLED"}
    BY <1>3, SessionAssumption DEF CommitMove, IInv, TypeOK, Handler
  <2>2. /\ session' = [session EXCEPT !.status = request[r].target]
        /\ request' = [request EXCEPT ![r] = Idle] /\ questions' = questions
    BY <1>3 DEF CommitMove, GoIdle
  <2>3. /\ session'.stage = session.stage /\ session'.current = session.current
        /\ session'.status = request[r].target
    BY <1>1, <2>2 DEF SessionRow
  <2>4. SessionAligned'
    BY <2>1, <2>2, <2>3 DEF Aligned, SessionAligned, AtEnd
  <2>5. HandlerAligned(r)'
    BY <1>1, <2>2, IdleHandler DEF HandlerAligned, LoadedAt
  <2> QED
    BY <2>2, <2>3, <2>4, <2>5, StepAligned
<1> QED
  BY <1>2, <1>3

\* A handler keeps its row from the first check to the evaluation.
LEMMA AnswerAligned ==
    ASSUME IInv, Aligned, NEW r \in Requests, CheckPrevious(r) \/ PreserveAnswer(r)
    PROVE  /\ Aligned'
           /\ session' = session /\ questions' = questions
<1>1. /\ request[r].at \in LoadedAt \ {"starting"} /\ request \in [Requests -> Handler]
      /\ AnswersLoadedQuestion(r)
  BY DEF CheckPrevious, PreserveAnswer, LoadedAt, IInv, TypeOK, Aligned, HandlerAligned
<1>2. PICK local :
         /\ request' = [request EXCEPT ![r] = local]
         /\ \/ local = Idle
            \/ /\ local.at \in {"preserving", "evaluating"}
               /\ local.loaded = request[r].loaded
  BY DEF CheckPrevious, PreserveAnswer, Load
<1>3. session' = session /\ questions' = questions
  BY DEF CheckPrevious, PreserveAnswer, Load
<1>4. SessionAligned'
  BY <1>3 DEF Aligned, SessionAligned, AtEnd
<1>5. HandlerAligned(r)'
  <2>1. request'[r] = local
    BY <1>1, <1>2
  <2>2. CASE local = Idle
    BY <2>1, <2>2, IdleHandler DEF HandlerAligned, LoadedAt
  <2>3. CASE local.at \in {"preserving", "evaluating"} /\ local.loaded = request[r].loaded
    BY <1>1, <1>3, <2>1, <2>3 DEF HandlerAligned, LoadedAt, AnswersLoadedQuestion
  <2> QED
    BY <1>2, <2>2, <2>3
<1> QED
  BY <1>2, <1>3, <1>4, <1>5, StepAligned

LEMMA LoadedStage ==
    ASSUME IInv, NEW r, AnswersLoadedQuestion(r)
    PROVE  /\ questions \in Seq(QuestionRow)
           /\ request[r].loaded.stage \in AskingStages
           /\ request[r].loaded.current # 0
           /\ QuestionsIn(request[r].loaded.stage) >= 1
<1> DEFINE n == request[r].loaded.used
<1>1. questions \in Seq(QuestionRow) /\ n \in DOMAIN questions
  BY DEF IInv, TypeOK, AnswersLoadedQuestion
<1>2. DOMAIN questions = 1..Len(questions) /\ questions[n] \in QuestionRow
  BY <1>1
<1>3. QuestionsIn(questions[n].stage) >= 1
  BY <1>1, StageCounted
<1> QED
  BY <1>1, <1>2, <1>3 DEF AnswersLoadedQuestion, QuestionRow

\* The decision is taken on the question the handler answers.
LEMMA DecideAligned ==
    ASSUME IInv, Aligned, ClosesOnce, NEW r \in Requests, NEW recommended \in Actions,
           Decide(r, recommended)
    PROVE  Aligned'
<1> DEFINE loaded   == request[r].loaded
           decision == DecideNextAction(LoadedEngineState(loaded), recommended)
           local    == [at       |-> AfterDecision(decision),
                        loaded   |-> loaded,
                        attempt  |-> request[r].attempt,
                        decision |-> decision]
<1>1. /\ loaded \in SessionRow /\ questions \in Seq(QuestionRow)
      /\ request \in [Requests -> Handler] /\ AnswersLoadedQuestion(r)
  BY LoadedRow DEF Decide, LoadedAt, IInv, TypeOK, Aligned, HandlerAligned
<1>2. Load(r, local) /\ request'[r] = local
  BY <1>1 DEF Decide, Load
<1>3. /\ loaded.stage \in AskingStages
      /\ QuestionsIn(loaded.stage) >= 1
  BY <1>1, LoadedStage
<1>4. decision.action = "CLOSE_INTERVIEW" <=> AtEnd(loaded.used)
  BY <1>1, <1>3, DecideEnds DEF AnswersLoadedQuestion, AtEnd
<1>5. local.at = IF decision.action = "CLOSE_INTERVIEW" THEN "closing" ELSE "asking"
  BY DEF AfterDecision
<1>6. questions' = questions
  BY <1>2 DEF Load
<1>7. HandlerAligned(r)'
  <2>1. AnswersLoadedQuestion(r)'
    BY <1>1, <1>2, <1>6 DEF AnswersLoadedQuestion
  <2>2. AtEnd(request[r].loaded.used)' <=> AtEnd(loaded.used)
    BY <1>2, <1>6 DEF AtEnd
  <2>3. DecisionCurrent(r)'
    <3>1. request'[r].decision = decision /\ request'[r].loaded = loaded
      BY <1>2
    <3>2. LoadedEngineState(loaded) = LoadedEngineState(request[r].loaded)'
      BY <1>6, <3>1 DEF LoadedEngineState, QuestionsIn, FollowUpStreak
    <3> HIDE DEF loaded, local
    <3> QED
      BY <3>1, <3>2 DEF DecisionCurrent
  <2>4. request'[r].at = local.at
    BY <1>2
  <2> HIDE DEF decision, local, loaded
  <2> QED
    BY <1>4, <1>5, <2>1, <2>2, <2>3, <2>4 DEF HandlerAligned
<1> HIDE DEF local
<1> QED
  BY <1>2, <1>7, LoadAligned

\* The question a handler stores was decided on the interview as it is now:
\* the sequence number was free, so no question was stored in between.
LEMMA CommitNextAligned ==
    ASSUME IInv, Aligned, NEW r \in Requests, NEW source \in QuestionSources,
           NEW modelSaysFollowUp \in BOOLEAN,
           CommitNextQuestion(r, source, modelSaysFollowUp)
    PROVE  /\ questions # <<>>
           /\ request[r].loaded.used = Len(questions)
           /\ session.stage = questions[Len(questions)].stage
           /\ session'.stage = request[r].decision.stage
           /\ Aligned'
<1> DEFINE loaded   == request[r].loaded
           decision == request[r].decision
           followUp == CountsAsFollowUp(decision.action, source, modelSaysFollowUp)
           s        == decision.stage
           changed  == [loaded EXCEPT !.stage   = s,
                                      !.used    = loaded.used + 1,
                                      !.current = loaded.used + 1]
<1>1. /\ session \in SessionRow /\ loaded \in SessionRow
      /\ Numbered(loaded, Len(questions)) /\ session.used = Len(questions)
      /\ questions \in Seq(QuestionRow) /\ request \in [Requests -> Handler]
      /\ decision.stage \in AskingStages /\ followUp \in BOOLEAN
  BY LoadedRow DEF CommitNextQuestion, LoadedAt, IInv, TypeOK, QuestionsNumbered,
                   Handler, CountsAsFollowUp
<1>2. AnswersLoadedQuestion(r) /\ ~AtEnd(loaded.used)
  BY DEF CommitNextQuestion, LoadedAt, Aligned, HandlerAligned
<1>3. /\ loaded.used = Len(questions) /\ Len(questions) \in Nat /\ Len(questions) # 0
      /\ questions # <<>>
  BY <1>1, <1>2 DEF CommitNextQuestion, SequenceFree, SessionRow, Numbered,
                    AnswersLoadedQuestion
<1>4. /\ session.stage = loaded.stage /\ session.current = loaded.current
      /\ loaded.stage = questions[Len(questions)].stage
  BY <1>2, <1>3 DEF Aligned, SessionAligned, AnswersLoadedQuestion
<1>5. /\ InsertQuestion(s, followUp) /\ Flush(loaded, changed)
      /\ request' = [request EXCEPT ![r] = Idle]
  BY DEF CommitNextQuestion, GoIdle
<1>6. /\ changed \in SessionRow /\ changed.stage = s
      /\ changed.current = Len(questions) + 1 /\ changed.status = loaded.status
  <2>1. s \in Stages /\ loaded.used + 1 \in Nat
    BY <1>1 DEF SessionRow, Stages
  <2> HIDE DEF s
  <2> QED
    BY <1>1, <1>3, <2>1 DEF SessionRow
<1> HIDE DEF changed, followUp
<1>7. /\ session'.stage = s /\ session'.current = Len(questions) + 1
      /\ session'.status = session.status
  BY <1>1, <1>2, <1>3, <1>4, <1>5, <1>6 DEF Flush, SessionRow, AnswersLoadedQuestion
<1>8. /\ Len(questions') = Len(questions) + 1
      /\ DOMAIN questions = 1..Len(questions)
      /\ DOMAIN questions' = 1..(Len(questions) + 1)
      /\ \A i \in DOMAIN questions : questions'[i] = questions[i]
      /\ questions'[Len(questions) + 1].stage = s
      /\ questions' # <<>>
  BY <1>1, <1>5 DEF InsertQuestion, QuestionRow
<1>9. SessionAligned'
  <2>1. ASSUME NEW n \in DOMAIN questions', n < Len(questions')
        PROVE  ~AtEnd(n)'
    <3>1. n \in DOMAIN questions /\ (AtEnd(n)' <=> AtEnd(n))
      BY <1>8, <2>1 DEF AtEnd
    <3>2. n < Len(questions) => ~AtEnd(n)
      BY <3>1 DEF Aligned, SessionAligned
    <3> QED
      BY <1>2, <1>3, <1>8, <3>1, <3>2
  <2>2. session.status # "READY" /\ session.status \notin {"PENDING", "FAILED"}
    BY <1>3 DEF Aligned, SessionAligned
  <2> QED
    BY <1>3, <1>7, <1>8, <2>1, <2>2 DEF SessionAligned
<1>10. HandlerAligned(r)'
  BY <1>1, <1>5, IdleHandler DEF HandlerAligned, LoadedAt
<1>11. Aligned'
  BY <1>1, <1>5, <1>9, <1>10, StepAligned
<1> QED
  BY <1>3, <1>4, <1>7, <1>11

\* The question that closes the interview is the last one stored.
LEMMA CommitCloseAligned ==
    ASSUME IInv, Aligned, NEW r \in Requests, CommitClose(r)
    PROVE  /\ questions # <<>> /\ questions' = questions
           /\ AtEnd(Len(questions))
           /\ session'.stage = "COMPLETED"
           /\ Aligned'
<1> DEFINE loaded  == request[r].loaded
           changed == [loaded EXCEPT !.status  = "COMPLETED",
                                     !.stage   = "COMPLETED",
                                     !.current = 0]
<1>1. /\ session \in SessionRow /\ loaded \in SessionRow
      /\ Numbered(loaded, Len(questions))
      /\ questions \in Seq(QuestionRow) /\ request \in [Requests -> Handler]
  BY LoadedRow DEF CommitClose, LoadedAt, IInv, TypeOK
<1>2. AnswersLoadedQuestion(r) /\ AtEnd(loaded.used)
  BY DEF CommitClose, LoadedAt, Aligned, HandlerAligned
<1>3. /\ loaded.used = Len(questions) /\ Len(questions) # 0 /\ questions # <<>>
  BY <1>1, <1>2 DEF Aligned, SessionAligned, AnswersLoadedQuestion, SessionRow, Numbered
<1>4. /\ Flush(loaded, changed) /\ questions' = questions
      /\ request' = [request EXCEPT ![r] = [at |-> "gathering"]]
      /\ loaded.status # "COMPLETED"
  BY <1>1 DEF CommitClose, StatusTransitions
<1>5. /\ loaded.stage # "COMPLETED" /\ loaded.current # 0
  BY <1>2, LoadedStage DEF AskingStages
<1>6. /\ session'.stage = "COMPLETED" /\ session'.current = 0
      /\ session'.status = "COMPLETED"
  BY <1>1, <1>4, <1>5 DEF Flush, SessionRow
<1>7. SessionAligned'
  BY <1>2, <1>3, <1>4, <1>6 DEF Aligned, SessionAligned, AtEnd
<1>8. HandlerAligned(r)'
  BY <1>1, <1>4 DEF HandlerAligned, LoadedAt
<1>9. Aligned'
  BY <1>4, <1>7, <1>8, StepAligned
<1> QED
  BY <1>2, <1>3, <1>4, <1>6, <1>9

\* The report, and every end without a commit.
LEMMA EndAligned ==
    ASSUME IInv, Aligned, NEW r \in Requests,
           GatherReport(r) \/ SaveReport(r) \/ Refused(r) \/ Abort(r)
    PROVE  /\ Aligned'
           /\ session' = session /\ questions' = questions
<1>1. request \in [Requests -> Handler]
  BY DEF IInv, TypeOK
<1>2. PICK local : /\ request' = [request EXCEPT ![r] = local]
                   /\ local.at \notin LoadedAt
  BY IdleHandler DEF GatherReport, SaveReport, Refused, Abort, Load, GoIdle, LoadedAt
<1>3. session' = session /\ questions' = questions
  BY DEF GatherReport, SaveReport, Refused, Abort, Load
<1>4. SessionAligned'
  BY <1>3 DEF Aligned, SessionAligned, AtEnd
<1>5. HandlerAligned(r)'
  BY <1>1, <1>2 DEF HandlerAligned, LoadedAt
<1> QED
  BY <1>2, <1>3, <1>4, <1>5, StepAligned

-----------------------------------------------------------------------------
(* The refinement mapping takes every step to a step of the engine or to a *)
(* stutter.                                                                *)

\* The engine is built on its own instance of the rule tables: they are the
\* same tables.
LEMMA SameRules ==
    /\ Engine!AskingStages = AskingStages
    /\ Engine!Actions = Actions
    /\ Engine!QuestionSources = QuestionSources
    /\ \A state, recommended :
          Engine!DecideNextAction(state, recommended) = DecideNextAction(state, recommended)
    /\ \A action, source, modelSaysFollowUp :
          Engine!CountsAsFollowUp(action, source, modelSaysFollowUp)
              = CountsAsFollowUp(action, source, modelSaysFollowUp)
<1>1. /\ Engine!AskingStages = AskingStages
      /\ Engine!Actions = Actions
      /\ Engine!QuestionSources = QuestionSources
  BY DEF Engine!AskingStages, Engine!Actions, Engine!QuestionSources,
         AskingStages, Actions, QuestionSources
<1>2. ASSUME NEW state, NEW recommended
      PROVE  Engine!DecideNextAction(state, recommended)
                 = DecideNextAction(state, recommended)
  BY DEF Engine!DecideNextAction, Engine!ChosenAction, Engine!TargetStage,
         Engine!InterviewExhausted, Engine!StageExhausted, Engine!Screened,
         Engine!FollowUpActions, Engine!AllowedActionsByStage,
         Engine!MaxFollowUpStreak, Engine!NextStage, Engine!StageIndex,
         DecideNextAction, ChosenAction, TargetStage,
         InterviewExhausted, StageExhausted, Screened,
         FollowUpActions, AllowedActionsByStage,
         MaxFollowUpStreak, NextStage, StageIndex
<1>3. ASSUME NEW action, NEW source, NEW modelSaysFollowUp
      PROVE  Engine!CountsAsFollowUp(action, source, modelSaysFollowUp)
                 = CountsAsFollowUp(action, source, modelSaysFollowUp)
  BY DEF Engine!CountsAsFollowUp, CountsAsFollowUp, Engine!FollowUpActions, FollowUpActions
<1> QED
  BY <1>1, <1>2, <1>3

\* The stage the mapped streak is counted in.
StreakStage == IF questions = <<>> THEN "INTRODUCTION" ELSE questions[Len(questions)].stage

\* A commit that stores a question in the stage the session is moved to is
\* StoreQuestion of the engine.
LEMMA StoresQuestion ==
    ASSUME questions \in Seq(QuestionRow), NEW s \in AskingStages,
           NEW followUp \in BOOLEAN, InsertQuestion(s, followUp),
           session'.stage = s, session.stage = StreakStage
    PROVE  Engine!StoreQuestion(s, followUp)
<1> DEFINE asked == [t \in AskingStages |-> QuestionsIn(t)]
<1>1. /\ Len(questions') = Len(questions) + 1 /\ questions' # <<>>
      /\ questions'[Len(questions')].stage = s
  BY DEF InsertQuestion, QuestionRow
<1>2. asked' = [asked EXCEPT ![s] = @ + 1]
  <2>1. /\ asked' = [t \in AskingStages |-> QuestionsIn(t)']
        /\ \A t \in AskingStages : asked[t] = QuestionsIn(t)
    OBVIOUS
  <2> HIDE DEF asked
  <2>2. asked = [t \in AskingStages |-> QuestionsIn(t)]
    BY DEF asked
  <2> QED
    BY <2>1, <2>2, InsertCounts
<1>3. FollowUpStreak(StreakStage)'
          = IF ~followUp THEN 0
            ELSE IF s = session.stage THEN FollowUpStreak(StreakStage) + 1 ELSE 1
  <2>1. StreakStage' = s
    BY <1>1 DEF StreakStage
  <2>2. FollowUpStreak(StreakStage)' = FollowUpStreak(s)'
    BY <2>1 DEF FollowUpStreak
  <2>3. s # session.stage => FollowUpStreak(s) = 0
    BY StreakElsewhere DEF StreakStage
  <2> QED
    BY <2>2, <2>3, InsertCounts
<1> QED
  BY <1>1, <1>2, <1>3 DEF Engine!StoreQuestion, StreakStage

\* A step that stores no question and leaves the stage alone is a stutter.
LEMMA Stutters ==
    ASSUME questions' = questions, session'.stage = session.stage
    PROVE  UNCHANGED Engine!vars
  BY DEF Engine!vars, QuestionsIn, FollowUpStreak

\* The engine state of the mapping is the one a handler computes from an
\* up-to-date row.
LEMMA MappedEngineState ==
    ASSUME NEW loaded, loaded.stage \in AskingStages, loaded.used = Len(questions),
           loaded.stage = session.stage, session.stage = StreakStage
    PROVE  Engine!EngineState = LoadedEngineState(loaded)
  BY DEF Engine!EngineState, LoadedEngineState, StreakStage

LEMMA StartOpens ==
    ASSUME IInv, Aligned, NEW r \in Requests, NEW source \in QuestionSources,
           NEW modelSaysFollowUp \in BOOLEAN,
           CommitStart(r, CountsAsFollowUp("CHANGE_TOPIC", source, modelSaysFollowUp))
    PROVE  Engine!Next
<1> DEFINE followUp == CountsAsFollowUp("CHANGE_TOPIC", source, modelSaysFollowUp)
<1>1. followUp \in BOOLEAN
  BY DEF CountsAsFollowUp
<1>2. questions = <<>> /\ session'.stage = "INTRODUCTION"
  BY <1>1, CommitStartAligned
<1>3. session.stage = StreakStage /\ questions \in Seq(QuestionRow) /\ Len(questions) = 0
  BY <1>2 DEF Aligned, SessionAligned, StreakStage, IInv, TypeOK
<1>4. Engine!StoreQuestion("INTRODUCTION", followUp)
  BY <1>1, <1>2, <1>3, StoresQuestion DEF CommitStart, AskingStages
<1>5. Engine!Open(source, modelSaysFollowUp)
  BY <1>3, <1>4, SameRules DEF Engine!Open
<1> QED
  BY <1>5, SameRules DEF Engine!Next

LEMMA CommitAsks ==
    ASSUME IInv, Aligned, ClosesOnce, NEW r \in Requests, NEW source \in QuestionSources,
           NEW modelSaysFollowUp \in BOOLEAN,
           CommitNextQuestion(r, source, modelSaysFollowUp)
    PROVE  Engine!Next
<1> DEFINE loaded   == request[r].loaded
           decision == request[r].decision
           followUp == CountsAsFollowUp(decision.action, source, modelSaysFollowUp)
<1>1. /\ questions # <<>> /\ loaded.used = Len(questions)
      /\ session.stage = questions[Len(questions)].stage
      /\ session'.stage = decision.stage
  BY CommitNextAligned
<1>2. /\ AnswersLoadedQuestion(r) /\ ~AtEnd(loaded.used) /\ DecisionCurrent(r)
      /\ loaded \in SessionRow
  BY LoadedRow DEF CommitNextQuestion, LoadedAt, Aligned, HandlerAligned
<1>3. /\ questions \in Seq(QuestionRow) /\ loaded.stage \in AskingStages
      /\ QuestionsIn(loaded.stage) >= 1 /\ loaded.stage = session.stage
      /\ session.stage = StreakStage /\ Len(questions) > 0
      /\ decision.stage \in AskingStages /\ followUp \in BOOLEAN
  BY <1>1, <1>2, LoadedStage DEF AnswersLoadedQuestion, StreakStage, CommitNextQuestion,
     CountsAsFollowUp, IInv, TypeOK, Handler
<1>4. PICK recommended \in Actions :
         decision = DecideNextAction(LoadedEngineState(loaded), recommended)
  BY <1>1, <1>2 DEF DecisionCurrent
<1>5. decision.action # "CLOSE_INTERVIEW"
  BY <1>2, <1>3, <1>4, DecideEnds DEF AtEnd, AnswersLoadedQuestion
<1>6. Engine!EngineState = LoadedEngineState(loaded)
  BY <1>1, <1>3, MappedEngineState
<1>7. Engine!StoreQuestion(decision.stage, followUp)
  BY <1>1, <1>3, StoresQuestion DEF CommitNextQuestion
<1>8. Engine!Ask(recommended, source, modelSaysFollowUp)
  <2>1. Engine!DecideNextAction(Engine!EngineState, recommended) = decision
    BY <1>4, <1>6, SameRules
  <2>2. session.stage # "COMPLETED"
    BY <1>3 DEF AskingStages
  <2>3. Engine!CountsAsFollowUp(decision.action, source, modelSaysFollowUp) = followUp
    BY SameRules
  <2> HIDE DEF decision, followUp
  <2> QED
    BY <1>3, <1>5, <1>7, <2>1, <2>2, <2>3 DEF Engine!Ask
<1> QED
  BY <1>8, SameRules DEF Engine!Next, Engine!Cycle

\* Of two submissions to the last question the second changes nothing more.
LEMMA CommitCloses ==
    ASSUME IInv, Aligned, ClosesOnce, NEW r \in Requests, CommitClose(r)
    PROVE  Engine!Next \/ UNCHANGED Engine!vars
<1>1. /\ questions # <<>> /\ questions' = questions /\ AtEnd(Len(questions))
      /\ session'.stage = "COMPLETED"
  BY CommitCloseAligned
<1>2. CASE session.stage = "COMPLETED"
  BY <1>1, <1>2, Stutters
<1>3. CASE session.stage # "COMPLETED"
  <2>1. /\ session.stage = questions[Len(questions)].stage
        /\ session.stage = StreakStage
    BY <1>1, <1>3 DEF Aligned, SessionAligned, StreakStage
  <2>2. /\ questions \in Seq(QuestionRow) /\ Len(questions) > 0
        /\ session \in SessionRow /\ session.used = Len(questions)
    BY <1>1 DEF IInv, TypeOK, QuestionsNumbered
  <2>3. session.stage \in AskingStages /\ QuestionsIn(session.stage) >= 1
    <3>1. Len(questions) \in DOMAIN questions /\ questions[Len(questions)] \in QuestionRow
      BY <2>2
    <3> QED
      BY <2>1, <2>2, <3>1, StageCounted DEF QuestionRow
  <2>4. PICK recommended \in Actions : recommended = "CHANGE_TOPIC"
    BY DEF Actions
  <2>5. DecideNextAction(LoadedEngineState(session), recommended).action = "CLOSE_INTERVIEW"
    BY <1>1, <2>1, <2>2, <2>3, DecideEnds DEF AtEnd
  <2>6. Engine!EngineState = LoadedEngineState(session)
    BY <2>1, <2>2, <2>3, MappedEngineState
  <2>7. UNCHANGED <<Plan, Len(questions), [s \in AskingStages |-> QuestionsIn(s)],
                    FollowUpStreak(StreakStage)>>
    BY <1>1 DEF QuestionsIn, FollowUpStreak, StreakStage
  <2>8. Engine!Close(recommended)
    BY <1>1, <1>3, <2>2, <2>5, <2>6, <2>7, SameRules DEF Engine!Close, StreakStage
  <2> QED
    BY <2>8, SameRules DEF Engine!Next, Engine!Cycle
<1> QED
  BY <1>2, <1>3

LEMMA InitAligned ==
    ASSUME Init
    PROVE  Aligned /\ Engine!Init
<1>1. Aligned
  BY DEF Init, Aligned, SessionAligned, HandlerAligned, Idle, LoadedAt
<1>2. questions \in Seq(QuestionRow)
  BY DEF Init
<1>3. \A s : QuestionsIn(s) = 0 /\ FollowUpStreak(s) = 0
  <2>1. DOMAIN questions = {} /\ questions = <<>>
    BY DEF Init
  <2>2. \A s : {i \in DOMAIN questions : questions[i].stage = s} = {}
    BY <2>1
  <2> QED
    BY <1>2, <2>1, <2>2, StreakElsewhere, FS_EmptySet DEF QuestionsIn
<1>4. Len(questions) = 0 /\ session.stage = "INTRODUCTION"
  BY DEF Init
<1>5. Engine!Init
  BY <1>3, <1>4, SameRules DEF Engine!Init
<1> QED
  BY <1>1, <1>5

\* Every step keeps the alignment and is a step of the engine or a stutter.
LEMMA StepImplementsEngine ==
    ASSUME IInv, Aligned, ClosesOnce, [Next]_vars, [NoLateStartFailure]_vars
    PROVE  Aligned' /\ (Engine!Next \/ UNCHANGED Engine!vars)
<1> DEFINE Goal == Aligned' /\ (Engine!Next \/ UNCHANGED Engine!vars)
<1>1. CASE UNCHANGED vars
  <2>1. Aligned'
    BY <1>1, ZenonT(30) DEF vars, Aligned, SessionAligned, HandlerAligned, AnswersLoadedQuestion,
                DecisionCurrent, AtEnd, LoadedEngineState, QuestionsIn, FollowUpStreak
  <2> QED
    BY <1>1, <2>1, Stutters DEF vars
<1>2. ASSUME NEW r \in Requests, Accept(r)
      PROVE  Goal
  <2>1. questions' = questions /\ session' = session
    BY <1>2 DEF Accept, BeginStart, Pause, Resume, Cancel, BeginMove, BeginSubmit, Load
  <2>2. CASE BeginStart(r) \/ BeginSubmit(r)
    BY <2>1, <2>2, BeginAligned, Stutters
  <2>3. CASE Pause(r) \/ Resume(r) \/ Cancel(r)
    <3>1. \E target \in Moves : BeginMove(r, target)
      BY <2>3 DEF Pause, Resume, Cancel, BeginMove
    <3> QED
      BY <2>1, <3>1, BeginAligned, Stutters
  <2> QED
    BY <1>2, <2>2, <2>3 DEF Accept
<1>3. ASSUME NEW r \in Requests, Serve(r), NoLateStartFailure
      PROVE  Goal
  <2>1. ASSUME NEW source \in QuestionSources, NEW modelSaysFollowUp \in ModelTypes,
               \/ CommitStart(r, CountsAsFollowUp("CHANGE_TOPIC", source, modelSaysFollowUp))
               \/ CommitNextQuestion(r, source, modelSaysFollowUp)
        PROVE  Goal
    <3>1. /\ modelSaysFollowUp \in BOOLEAN
          /\ CountsAsFollowUp("CHANGE_TOPIC", source, modelSaysFollowUp) \in BOOLEAN
      BY SessionAssumption DEF CountsAsFollowUp
    <3> QED
      BY <2>1, <3>1, StartOpens, CommitStartAligned, CommitAsks, CommitNextAligned
  <2>2. CASE CommitStartFailure(r)
    BY <1>3, <2>2, StatusAligned, Stutters DEF CommitStartFailure
  <2>3. CASE CommitMove(r)
    BY <2>3, StatusAligned, Stutters DEF CommitMove
  <2>4. CASE CheckPrevious(r) \/ PreserveAnswer(r)
    BY <2>4, AnswerAligned, Stutters
  <2>5. ASSUME NEW recommended \in Actions, Decide(r, recommended)
        PROVE  Goal
    BY <2>5, DecideAligned, Stutters DEF Decide, Load
  <2>6. CASE CommitClose(r)
    BY <2>6, CommitCloses, CommitCloseAligned
  <2>7. CASE GatherReport(r) \/ SaveReport(r) \/ Refused(r)
    BY <2>7, EndAligned, Stutters
  <2> QED
    BY <1>3, <2>1, <2>2, <2>3, <2>4, <2>5, <2>6, <2>7 DEF Serve
<1>4. ASSUME NEW r \in Requests, Abort(r)
      PROVE  Goal
  BY <1>4, EndAligned, Stutters
<1>5. CASE vars' # vars /\ Next
  <2>1. NoLateStartFailure
    BY <1>5
  <2> QED
    BY <1>2, <1>3, <1>4, <1>5, <2>1 DEF Next
<1> QED
  BY <1>1, <1>5

\* Whatever the requests, their number and the plan: as long as the closing
\* stage has one question and no start fails after another has succeeded, the
\* stored questions and the stage take only the steps of the sequential
\* engine.  A decision taken from stale rows is never stored.
THEOREM ImplementsEngine ==
    ASSUME ClosesOnce
    PROVE  Spec /\ [][NoLateStartFailure]_vars => SerialisedEngine
<1>1. Init => Aligned /\ Engine!Init
  BY InitAligned
<1>2. IInv /\ Aligned /\ [Next]_vars /\ [NoLateStartFailure]_vars
          => Aligned' /\ [Engine!Next]_(Engine!vars)
  BY StepImplementsEngine
<1> QED
  BY <1>1, <1>2, Invariance, PTL DEF Spec, SerialisedEngine, Engine!Spec

-----------------------------------------------------------------------------
(* A session whose requests come one after the other: one handler at a time, *)
(* which may fail anywhere.                                                *)

Sequential == \A r, h \in Requests : r = h

\* Question n has an evaluated answer.
Answered(n) == \E a \in answers : a.question = n /\ a.evaluated

\* The handler has missed nothing: its row is the stored one, and the status
\* it checked is still there.
HandlerFresh(r) ==
    /\ HasLoaded(r) => request[r].loaded = session
    /\ request[r].at = "starting" => session.status \in {"PENDING", "FAILED"}
    /\ request[r].at \in LoadedAt \ {"starting"} => session.status = "RUNNING"
    /\ request[r].at = "moving" => request[r].target \in StatusTransitions[session.status]
    /\ request[r].at \in {"gathering", "narrating"} => session.status = "COMPLETED"
    /\ request[r].at = "narrating" => request[r].covers = DOMAIN questions
    /\ request[r].at \in {"asking", "closing"} =>
          \E recommended \in Actions :
             /\ request[r].decision
                    = DecideNextAction(LoadedEngineState(session), recommended)
             /\ request[r].at = AfterDecision(request[r].decision)

\* What the status says of the rows: exactly the questions before the pending
\* one are answered, and in the end all of them.
RowsFollowStatus ==
    /\ session.status # "READY"
    /\ session.stage = IF session.status = "COMPLETED" THEN "COMPLETED" ELSE StreakStage
    /\ session.status = "COMPLETED" => questions # <<>>
    /\ session.status \in {"PENDING", "FAILED"} => questions = <<>>
    /\ session.status \in {"RUNNING", "PAUSED"} => session.current # 0
    /\ \A a \in answers : a.question \in DOMAIN questions
    /\ \A n \in DOMAIN questions : n < Len(questions) => Answered(n)
    /\ IF session.status = "COMPLETED"
       THEN \A n \in DOMAIN questions : Answered(n)
       ELSE ~Answered(Len(questions))
    /\ report # NoReport => /\ session.status = "COMPLETED"
                            /\ report.covers = DOMAIN questions

SerialInv == RowsFollowStatus /\ \A r \in Requests : HandlerFresh(r)

\* There is one handler: it is enough to show that it stays fresh.
LEMMA OnlyHandler ==
    ASSUME Sequential, NEW r \in Requests, RowsFollowStatus', HandlerFresh(r)'
    PROVE  SerialInv'
  BY DEF Sequential, SerialInv

LEMMA IdleFresh ==
    ASSUME IInv, NEW r \in Requests, request' = [request EXCEPT ![r] = Idle]
    PROVE  HandlerFresh(r)'
<1>1. request'[r] = [at |-> "idle"]
  BY DEF IInv, TypeOK, Idle
<1> QED
  BY <1>1 DEF HandlerFresh, HasLoaded, LoadedAt

\* Steps that only load or compute leave the rows alone.
LEMMA RowsUnchanged ==
    ASSUME RowsFollowStatus, session' = session, questions' = questions,
           answers' = answers, report' = report
    PROVE  RowsFollowStatus'
  BY DEF RowsFollowStatus, Answered, StreakStage

\* A flush of an up-to-date row writes the changed row.
LEMMA FreshFlush ==
    ASSUME session \in SessionRow, NEW changed \in SessionRow, Flush(session, changed)
    PROVE  session' = changed
<1>1. session' = [f \in DOMAIN session |->
                     IF changed[f] = session[f] THEN session[f] ELSE changed[f]]
  BY DEF Flush
<1>2. DOMAIN session = DOMAIN changed /\ changed = [f \in DOMAIN changed |-> changed[f]]
  BY DEF SessionRow
<1> QED
  BY <1>1, <1>2

LEMMA BeginSerial ==
    ASSUME IInv, SerialInv, Sequential, NEW r \in Requests, Accept(r)
    PROVE  SerialInv' /\ session' = session /\ answers' = answers
<1>1. /\ session' = session /\ questions' = questions
      /\ answers' = answers /\ report' = report
      /\ request \in [Requests -> Handler] /\ session \in SessionRow
  BY DEF Accept, BeginStart, Pause, Resume, Cancel, BeginMove, BeginSubmit, Load,
         IInv, TypeOK
<1>2. RowsFollowStatus'
  BY <1>1, RowsUnchanged DEF SerialInv
<1>3. HandlerFresh(r)'
  <2>1. CASE BeginStart(r)
    <3>1. request'[r] = [at |-> "starting", loaded |-> session]
      BY <1>1, <2>1 DEF BeginStart, Load
    <3>2. session.status \in {"PENDING", "FAILED"}
      BY <1>1, <2>1 DEF BeginStart, StatusTransitions, SessionRow, Statuses
    <3> QED
      BY <1>1, <3>1, <3>2 DEF HandlerFresh, LoadedAt
  <2>2. ASSUME NEW target, BeginMove(r, target)
        PROVE  HandlerFresh(r)'
    <3>1. request'[r] = [at |-> "moving", target |-> target]
      BY <1>1, <2>2 DEF BeginMove, Load
    <3> QED
      BY <1>1, <2>2, <3>1 DEF BeginMove, HandlerFresh, HasLoaded, LoadedAt
  <2>3. CASE BeginSubmit(r)
    <3>1. request'[r] = [at |-> "transcribing", loaded |-> session]
      BY <1>1, <2>3 DEF BeginSubmit, Load
    <3> QED
      BY <1>1, <2>3, <3>1 DEF BeginSubmit, HandlerFresh, LoadedAt
  <2> QED
    BY <2>1, <2>2, <2>3 DEF Accept, Pause, Resume, Cancel
<1> QED
  BY <1>1, <1>2, <1>3, OnlyHandler

LEMMA StartSerial ==
    ASSUME IInv, SerialInv, Sequential, NEW r \in Requests, NEW followUp \in BOOLEAN,
           CommitStart(r, followUp)
    PROVE  /\ SerialInv' /\ answers' = answers
           /\ questions = <<>> /\ session'.stage = "INTRODUCTION"
           /\ LegalStatusChange(session.status, session'.status)
<1> DEFINE changed == [status |-> "RUNNING", stage |-> "INTRODUCTION",
                       used |-> session.used + 1, current |-> session.used + 1]
<1>1. /\ session \in SessionRow /\ questions \in Seq(QuestionRow)
      /\ session.used = Len(questions) /\ RowsFollowStatus
      /\ request[r].loaded = session /\ session.status \in {"PENDING", "FAILED"}
  BY DEF IInv, TypeOK, QuestionsNumbered, SerialInv, HandlerFresh, HasLoaded, LoadedAt,
         CommitStart
<1>2. questions = <<>> /\ session.used = 0
  BY <1>1 DEF RowsFollowStatus
<1>3. /\ InsertQuestion("INTRODUCTION", followUp) /\ Flush(session, changed)
      /\ request' = [request EXCEPT ![r] = Idle]
      /\ answers' = answers /\ report' = report
  BY <1>1 DEF CommitStart, GoIdle
<1>4. session' = [status |-> "RUNNING", stage |-> "INTRODUCTION", used |-> 1, current |-> 1]
  <2>1. changed \in SessionRow
    BY <1>1, <1>2 DEF SessionRow, Statuses, Stages, AskingStages
  <2> QED
    BY <1>1, <1>2, <1>3, <2>1, FreshFlush
<1>5. questions' = <<[stage |-> "INTRODUCTION", followUp |-> followUp]>>
  BY <1>2, <1>3 DEF InsertQuestion
<1>6. answers = {}
  BY <1>1, <1>2 DEF RowsFollowStatus
<1>7. RowsFollowStatus'
  BY <1>1, <1>3, <1>4, <1>5, <1>6 DEF RowsFollowStatus, Answered, StreakStage
<1>8. LegalStatusChange(session.status, session'.status)
  BY <1>1, <1>4 DEF LegalStatusChange, StatusTransitions
<1> QED
  BY <1>2, <1>3, <1>4, <1>7, <1>8, IdleFresh, OnlyHandler

LEMMA StatusSerial ==
    ASSUME IInv, SerialInv, Sequential, NEW r \in Requests,
           CommitStartFailure(r) \/ CommitMove(r)
    PROVE  /\ SerialInv' /\ answers' = answers
           /\ questions' = questions /\ session'.stage = session.stage
           /\ \/ session'.status = session.status
              \/ LegalStatusChange(session.status, session'.status)
<1>1. /\ session \in SessionRow /\ questions \in Seq(QuestionRow)
      /\ RowsFollowStatus /\ HandlerFresh(r)
      /\ session.current \in {0, Len(questions)}
  BY DEF IInv, TypeOK, QuestionsNumbered, SerialInv
<1>2. PICK s :
        /\ session' = [session EXCEPT !.status = s]
        /\ s \in StatusTransitions[session.status] \/ s = session.status
        /\ s \in {"FAILED", "PAUSED", "RUNNING", "CANCELLED"}
        /\ s = "FAILED" => session.status \in {"PENDING", "FAILED"}
  <2>1. CASE CommitStartFailure(r)
    <3>1. /\ request[r].loaded = session /\ session.status \in {"PENDING", "FAILED"}
          /\ Flush(session, [session EXCEPT !.status = "FAILED"])
      BY <1>1, <2>1 DEF CommitStartFailure, HandlerFresh, HasLoaded, LoadedAt
    <3>2. [session EXCEPT !.status = "FAILED"] \in SessionRow
      BY <1>1 DEF SessionRow, Statuses
    <3>3. session' = [session EXCEPT !.status = "FAILED"]
      BY <1>1, <3>1, <3>2, FreshFlush
    <3> QED
      BY <3>1, <3>3 DEF StatusTransitions
  <2>2. CASE CommitMove(r)
    <3>1. request[r].target \in {"PAUSED", "RUNNING", "CANCELLED"}
      BY <2>2, SessionAssumption DEF CommitMove, IInv, TypeOK, Handler
    <3> QED
      BY <1>1, <2>2, <3>1 DEF CommitMove, HandlerFresh
  <2> QED
    BY <2>1, <2>2
<1>3. /\ request' = [request EXCEPT ![r] = Idle] /\ questions' = questions
      /\ answers' = answers /\ report' = report
  BY DEF CommitStartFailure, CommitMove, GoIdle
<1>4. /\ session'.status = s /\ session'.stage = session.stage
      /\ session'.current = session.current
  BY <1>1, <1>2 DEF SessionRow
<1>5. session.status # "COMPLETED"
  BY <1>1, <1>2 DEF StatusTransitions, RowsFollowStatus
<1>6. s \in {"RUNNING", "PAUSED"} => session.current # 0
  BY <1>1, <1>2 DEF StatusTransitions, RowsFollowStatus, SessionRow, Statuses
<1>7. s = "FAILED" => questions = <<>>
  BY <1>1, <1>2 DEF RowsFollowStatus
<1>8. RowsFollowStatus'
  BY <1>1, <1>2, <1>3, <1>4, <1>5, <1>6, <1>7 DEF RowsFollowStatus, Answered, StreakStage
<1> QED
  BY <1>2, <1>3, <1>4, <1>8, IdleFresh, OnlyHandler DEF LegalStatusChange

\* While a session has a pending question, no answer to it is evaluated: what
\* a submission replaces is unevaluated.
LEMMA PendingUnanswered ==
    ASSUME IInv, SerialInv, NEW r \in Requests, request[r].at \in LoadedAt \ {"starting"}
    PROVE  /\ request[r].loaded = session
           /\ session.status = "RUNNING"
           /\ session.current = Len(questions)
           /\ Len(questions) \in DOMAIN questions
           /\ DOMAIN questions = 1..Len(questions)
           /\ questions \in Seq(QuestionRow)
           /\ \A a \in answers : a.question = Len(questions) => ~a.evaluated
<1>1. /\ request[r].loaded = session /\ session.status = "RUNNING" /\ RowsFollowStatus
  BY DEF SerialInv, HandlerFresh, HasLoaded
<1>2. /\ session.current # 0 /\ session.current \in {0, Len(questions)}
      /\ questions \in Seq(QuestionRow)
  BY <1>1 DEF RowsFollowStatus, IInv, TypeOK, QuestionsNumbered
<1> QED
  BY <1>1, <1>2 DEF RowsFollowStatus, Answered

LEMMA AnswerSerial ==
    ASSUME IInv, SerialInv, Sequential, NEW r \in Requests
    PROVE  /\ CheckPrevious(r) =>
                 /\ SerialInv' /\ session' = session
                 /\ questions' = questions /\ answers' = answers
           /\ PreserveAnswer(r) =>
                 /\ SerialInv' /\ session' = session /\ questions' = questions
                 /\ Evaluated(answers) \subseteq answers'
<1>1. /\ request \in [Requests -> Handler] /\ RowsFollowStatus /\ HandlerFresh(r)
      /\ answers \subseteq AnswerRow
  BY DEF IInv, TypeOK, SerialInv
<1>2. ASSUME CheckPrevious(r)
      PROVE  /\ SerialInv' /\ session' = session
             /\ questions' = questions /\ answers' = answers
  <2>1. PICK local : /\ Load(r, local)
                     /\ \/ local = Idle
                        \/ local.at = "preserving" /\ local.loaded = request[r].loaded
    BY <1>2 DEF CheckPrevious
  <2>2. /\ session' = session /\ questions' = questions
        /\ answers' = answers /\ report' = report
        /\ request' = [request EXCEPT ![r] = local]
    BY <2>1 DEF Load
  <2>3. request'[r] = local
    BY <1>1, <2>2
  <2>4. request[r].loaded = session /\ session.status = "RUNNING"
    BY <1>2, PendingUnanswered DEF CheckPrevious, LoadedAt
  <2>5. HandlerFresh(r)'
    <3>1. CASE local = Idle
      BY <2>2, <3>1, IdleFresh
    <3>2. CASE local.at = "preserving" /\ local.loaded = request[r].loaded
      BY <2>2, <2>3, <2>4, <3>2 DEF HandlerFresh, HasLoaded, LoadedAt
    <3> QED
      BY <2>1, <3>1, <3>2
  <2> QED
    BY <1>1, <2>2, <2>5, RowsUnchanged, OnlyHandler
<1>3. ASSUME PreserveAnswer(r)
      PROVE  /\ SerialInv' /\ session' = session /\ questions' = questions
             /\ Evaluated(answers) \subseteq answers'
  <2>1. /\ request[r].loaded = session /\ session.status = "RUNNING"
        /\ session.current = Len(questions)
        /\ Len(questions) \in DOMAIN questions /\ DOMAIN questions = 1..Len(questions)
        /\ \A a \in answers : a.question = Len(questions) => ~a.evaluated
    BY <1>3, PendingUnanswered DEF PreserveAnswer, LoadedAt
  <2>2. PICK attempt, removed :
          /\ answers' = (answers \ removed) \union
                 {[question |-> Len(questions), attempt |-> attempt, evaluated |-> FALSE]}
          /\ removed \subseteq AnswersTo(Len(questions))
          /\ request' = [request EXCEPT ![r] = [at |-> "evaluating", loaded |-> session,
                                                attempt |-> attempt]]
    <3> DEFINE gone == {a \in AnswersTo(request[r].loaded.current) :
                           a.attempt \in request[r].stale}
               kept == answers \ gone
               free == Attempts \ (HeldByOthers(r) \union
                   {a.attempt : a \in {b \in kept : b.question = request[r].loaded.current}})
               chosen == CHOOSE k \in free : TRUE
    <3>1. /\ answers' = kept \union {[question |-> request[r].loaded.current,
                                     attempt |-> chosen, evaluated |-> FALSE]}
          /\ request' = [request EXCEPT ![r] = [at |-> "evaluating",
                                                loaded |-> request[r].loaded,
                                                attempt |-> chosen]]
      BY <1>3 DEF PreserveAnswer
    <3>2. gone \subseteq AnswersTo(Len(questions))
      BY <2>1
    <3> HIDE DEF chosen, gone, free
    <3> QED
      BY <2>1, <3>1, <3>2
  <2>3. session' = session /\ questions' = questions /\ report' = report
    BY <1>3 DEF PreserveAnswer
  <2>4. \A a \in answers : a.question # Len(questions) => a \in answers'
    BY <2>2 DEF AnswersTo
  <2>5. \A a \in answers' :
           a \in answers \/ (a.question = Len(questions) /\ ~a.evaluated)
    BY <2>2
  <2>6. RowsFollowStatus'
    <3>1. \A n \in DOMAIN questions : n < Len(questions) => Answered(n)'
      BY <1>1, <2>1, <2>4 DEF RowsFollowStatus, Answered
    <3>2. ~Answered(Len(questions))' /\ \A a \in answers' : a.question \in DOMAIN questions
      BY <1>1, <2>1, <2>3, <2>5 DEF RowsFollowStatus, Answered
    <3> QED
      BY <1>1, <2>1, <2>3, <3>1, <3>2 DEF RowsFollowStatus, Answered, StreakStage
  <2>7. HandlerFresh(r)'
    <3>1. /\ request'[r].at = "evaluating" /\ request'[r].loaded = session
      BY <1>1, <2>2
    <3> QED
      BY <2>1, <2>3, <3>1 DEF HandlerFresh, HasLoaded, LoadedAt
  <2>8. Evaluated(answers) \subseteq answers'
    BY <2>1, <2>4 DEF Evaluated
  <2> QED
    BY <2>3, <2>6, <2>7, <2>8, OnlyHandler
<1> QED
  BY <1>2, <1>3

LEMMA DecideSerial ==
    ASSUME IInv, SerialInv, Sequential, NEW r \in Requests,
           NEW recommended \in Actions, Decide(r, recommended)
    PROVE  /\ SerialInv' /\ session' = session
           /\ questions' = questions /\ answers' = answers
<1> DEFINE decision == DecideNextAction(LoadedEngineState(request[r].loaded), recommended)
           local    == [at       |-> AfterDecision(decision),
                        loaded   |-> request[r].loaded,
                        attempt  |-> request[r].attempt,
                        decision |-> decision]
<1>1. /\ request \in [Requests -> Handler] /\ RowsFollowStatus
      /\ request[r].loaded = session /\ session.status = "RUNNING"
  BY PendingUnanswered DEF IInv, TypeOK, SerialInv, Decide, LoadedAt
<1>2. Load(r, local)
  BY DEF Decide
<1>3. /\ session' = session /\ questions' = questions
      /\ answers' = answers /\ report' = report
      /\ request'[r] = local
  BY <1>1, <1>2 DEF Load
<1>4. /\ request'[r].at \in {"asking", "closing"} /\ request'[r].loaded = session
      /\ request'[r].at = AfterDecision(request'[r].decision)
      /\ request'[r].decision = DecideNextAction(LoadedEngineState(session), recommended)
  BY <1>1, <1>3 DEF AfterDecision
<1>5. LoadedEngineState(session)' = LoadedEngineState(session)
  BY <1>3 DEF LoadedEngineState, QuestionsIn, FollowUpStreak
<1> HIDE DEF local, decision
<1>6. HandlerFresh(r)'
  BY <1>1, <1>3, <1>4, <1>5 DEF HandlerFresh, HasLoaded, LoadedAt
<1> QED
  BY <1>1, <1>3, <1>6, RowsUnchanged, OnlyHandler

\* The handler answers the pending question and its decision is the engine's.
LEMMA FinishFacts ==
    ASSUME IInv, SerialInv, NEW r \in Requests, request[r].at \in {"asking", "closing"}
    PROVE  /\ session.stage = StreakStage /\ session.stage \in AskingStages
           /\ Engine!EngineState = LoadedEngineState(session)
           /\ \E recommended \in Actions :
                 /\ request[r].decision
                        = DecideNextAction(LoadedEngineState(session), recommended)
                 /\ request[r].decision.action = "CLOSE_INTERVIEW"
                       <=> request[r].at = "closing"
<1>1. /\ session.status = "RUNNING" /\ RowsFollowStatus /\ HandlerFresh(r)
      /\ questions \in Seq(QuestionRow) /\ session.used = Len(questions)
      /\ Len(questions) \in DOMAIN questions
  BY PendingUnanswered DEF LoadedAt, SerialInv, IInv, TypeOK, QuestionsNumbered
<1>2. session.stage = StreakStage /\ questions[Len(questions)] \in QuestionRow
  BY <1>1 DEF RowsFollowStatus
<1>3. session.stage \in AskingStages
  BY <1>1, <1>2 DEF StreakStage, QuestionRow
<1>4. Engine!EngineState = LoadedEngineState(session)
  BY <1>1, <1>2, <1>3, MappedEngineState
<1> QED
  BY <1>1, <1>2, <1>3, <1>4 DEF HandlerFresh, AfterDecision

\* The evaluation of the preserved answer: the pending question is answered
\* now, and nothing else changes.
LEMMA MarkSerial ==
    ASSUME IInv, SerialInv, NEW r \in Requests, MarkEvaluated(r),
           request[r].at \in {"asking", "closing"}
    PROVE  /\ \A n \in DOMAIN questions : Answered(n)'
           /\ \A a \in answers' : a.question \in DOMAIN questions
           /\ Evaluated(answers) \subseteq answers'
<1>1. /\ request[r].loaded = session /\ session.current = Len(questions)
      /\ Len(questions) \in DOMAIN questions /\ DOMAIN questions = 1..Len(questions)
      /\ \A a \in answers : a.question = Len(questions) => ~a.evaluated
      /\ RowsFollowStatus /\ answers \subseteq AnswerRow
  BY PendingUnanswered DEF LoadedAt, SerialInv, IInv, TypeOK
<1>2. \A a \in Preserved(r) : a \in answers /\ a.question = Len(questions)
  BY <1>1 DEF Preserved, AnswersTo
<1>3. PICK p \in Preserved(r) : TRUE
  BY DEF MarkEvaluated
<1>4. \A a \in AnswerRow : /\ [a EXCEPT !.evaluated = TRUE].question = a.question
                           /\ [a EXCEPT !.evaluated = TRUE].evaluated
  BY DEF AnswerRow
<1>5. answers' = (answers \ Preserved(r))
                    \union {[a EXCEPT !.evaluated = TRUE] : a \in Preserved(r)}
  BY DEF MarkEvaluated
<1>6. [p EXCEPT !.evaluated = TRUE] \in answers' /\ p \in AnswerRow
  BY <1>1, <1>2, <1>3, <1>5
<1>7. \E a \in answers' : a.question = Len(questions) /\ a.evaluated
  BY <1>2, <1>3, <1>4, <1>6
<1>8. \A a \in answers : a.question # Len(questions) => a \in answers'
  BY <1>2, <1>5
<1>9. \A n \in DOMAIN questions : Answered(n)'
  <2> SUFFICES ASSUME NEW n \in DOMAIN questions
               PROVE  \E a \in answers' : a.question = n /\ a.evaluated
    BY DEF Answered
  <2>1. CASE n = Len(questions)
    BY <1>7, <2>1
  <2>2. CASE n # Len(questions)
    <3>1. Answered(n)
      BY <1>1, <2>2 DEF RowsFollowStatus
    <3> QED
      BY <1>8, <2>2, <3>1 DEF Answered
  <2> QED
    BY <2>1, <2>2
<1>10. \A a \in answers' : a.question \in DOMAIN questions
  BY <1>1, <1>2, <1>4, <1>5 DEF RowsFollowStatus
<1>11. Evaluated(answers) \subseteq answers'
  BY <1>1, <1>8 DEF Evaluated
<1> QED
  BY <1>9, <1>10, <1>11

LEMMA CommitNextSerial ==
    ASSUME IInv, SerialInv, Sequential, NEW r \in Requests, NEW source \in QuestionSources,
           NEW modelSaysFollowUp \in BOOLEAN,
           CommitNextQuestion(r, source, modelSaysFollowUp)
    PROVE  /\ SerialInv' /\ session'.status = session.status
           /\ Evaluated(answers) \subseteq answers'
           /\ Engine!Next
<1> DEFINE decision == request[r].decision
           followUp == CountsAsFollowUp(decision.action, source, modelSaysFollowUp)
           s        == decision.stage
           n        == session.used + 1
           changed  == [session EXCEPT !.stage = s, !.used = n, !.current = n]
<1>1. /\ request[r].at = "asking" /\ request[r].loaded = session
      /\ session.status = "RUNNING" /\ session.used = Len(questions)
      /\ Len(questions) \in DOMAIN questions /\ DOMAIN questions = 1..Len(questions)
      /\ questions \in Seq(QuestionRow) /\ session \in SessionRow
      /\ RowsFollowStatus
  BY PendingUnanswered DEF CommitNextQuestion, LoadedAt, SerialInv, IInv, TypeOK,
                           QuestionsNumbered
<1>2. s \in AskingStages /\ followUp \in BOOLEAN /\ n \in Nat
  BY <1>1 DEF IInv, TypeOK, Handler, CountsAsFollowUp, SessionRow
<1>3. /\ MarkEvaluated(r) /\ InsertQuestion(s, followUp) /\ Flush(session, changed)
      /\ request' = [request EXCEPT ![r] = Idle] /\ report' = report
  BY <1>1 DEF CommitNextQuestion, GoIdle
<1>4. /\ \A m \in DOMAIN questions : Answered(m)'
      /\ \A a \in answers' : a.question \in DOMAIN questions
      /\ Evaluated(answers) \subseteq answers'
  BY <1>1, <1>3, MarkSerial
<1>5. PICK recommended \in Actions :
         /\ decision = DecideNextAction(LoadedEngineState(session), recommended)
         /\ decision.action # "CLOSE_INTERVIEW"
  BY <1>1, FinishFacts
<1>6. /\ session.stage = StreakStage /\ session.stage \in AskingStages
      /\ Engine!EngineState = LoadedEngineState(session)
  BY <1>1, FinishFacts
<1>7. Engine!CountsAsFollowUp(decision.action, source, modelSaysFollowUp) = followUp
  BY SameRules
<1> HIDE DEF decision, followUp, s, n
<1>8. /\ session'.stage = s /\ session'.current = n /\ session'.status = "RUNNING"
  <2>1. changed \in SessionRow
    BY <1>1, <1>2 DEF SessionRow, Stages
  <2>2. session' = changed
    BY <1>1, <1>3, <2>1, FreshFlush
  <2> QED
    BY <1>1, <2>2 DEF SessionRow
<1>9. /\ Len(questions') = Len(questions) + 1 /\ n = Len(questions) + 1
      /\ DOMAIN questions' = 1..(Len(questions) + 1)
      /\ questions'[Len(questions) + 1].stage = s /\ questions' # <<>>
  BY <1>1, <1>3 DEF InsertQuestion, QuestionRow, n
<1>10. RowsFollowStatus'
  <2>1. ~Answered(Len(questions))'
    BY <1>1, <1>4, <1>9 DEF Answered
  <2>2. \A m \in DOMAIN questions' : m < Len(questions') => Answered(m)'
    BY <1>1, <1>4, <1>9
  <2>3. \A a \in answers' : a.question \in DOMAIN questions'
    BY <1>1, <1>4, <1>9
  <2>4. session'.stage = StreakStage' /\ session'.current # 0
    BY <1>1, <1>8, <1>9 DEF StreakStage
  <2>5. report' = NoReport
    BY <1>1, <1>3 DEF RowsFollowStatus
  <2> QED
    BY <1>8, <1>9, <2>1, <2>2, <2>3, <2>4, <2>5 DEF RowsFollowStatus
<1>11. SerialInv'
  BY <1>3, <1>10, IdleFresh, OnlyHandler
<1>12. Engine!Next
  <2>1. Engine!StoreQuestion(s, followUp)
    BY <1>1, <1>2, <1>3, <1>6, <1>8, StoresQuestion
  <2>2. Engine!DecideNextAction(Engine!EngineState, recommended) = decision
    BY <1>5, <1>6, SameRules
  <2>3. session.stage # "COMPLETED" /\ Len(questions) > 0
    BY <1>1, <1>6 DEF AskingStages
  <2>4. Engine!Ask(recommended, source, modelSaysFollowUp)
    BY <1>5, <1>7, <2>1, <2>2, <2>3 DEF Engine!Ask, s
  <2> QED
    BY <2>4, SameRules DEF Engine!Next, Engine!Cycle
<1> QED
  BY <1>1, <1>4, <1>8, <1>11, <1>12

LEMMA CommitCloseSerial ==
    ASSUME IInv, SerialInv, Sequential, NEW r \in Requests, CommitClose(r)
    PROVE  /\ SerialInv' /\ LegalStatusChange(session.status, session'.status)
           /\ Evaluated(answers) \subseteq answers'
           /\ Engine!Next
<1> DEFINE changed == [session EXCEPT !.status  = "COMPLETED",
                                      !.stage   = "COMPLETED",
                                      !.current = 0]
<1>1. /\ request[r].at = "closing" /\ request[r].loaded = session
      /\ session.status = "RUNNING" /\ session.used = Len(questions)
      /\ Len(questions) \in DOMAIN questions /\ DOMAIN questions = 1..Len(questions)
      /\ questions \in Seq(QuestionRow) /\ session \in SessionRow
      /\ RowsFollowStatus /\ request \in [Requests -> Handler]
  BY PendingUnanswered DEF CommitClose, LoadedAt, SerialInv, IInv, TypeOK,
                           QuestionsNumbered
<1>2. /\ MarkEvaluated(r) /\ Flush(session, changed)
      /\ request'[r] = [at |-> "gathering"]
      /\ questions' = questions /\ report' = report
  BY <1>1 DEF CommitClose
<1>3. /\ \A m \in DOMAIN questions : Answered(m)'
      /\ \A a \in answers' : a.question \in DOMAIN questions
      /\ Evaluated(answers) \subseteq answers'
  BY <1>1, <1>2, MarkSerial
<1>4. PICK recommended \in Actions :
         DecideNextAction(LoadedEngineState(session), recommended).action = "CLOSE_INTERVIEW"
  BY <1>1, FinishFacts
<1>5. /\ session.stage = StreakStage /\ session.stage \in AskingStages
      /\ Engine!EngineState = LoadedEngineState(session)
  BY <1>1, FinishFacts
<1>6. /\ session'.stage = "COMPLETED" /\ session'.current = 0
      /\ session'.status = "COMPLETED"
  <2>1. changed \in SessionRow
    BY <1>1 DEF SessionRow, Statuses, Stages
  <2>2. session' = changed
    BY <1>1, <1>2, <2>1, FreshFlush
  <2> QED
    BY <1>1, <2>2 DEF SessionRow
<1>7. RowsFollowStatus'
  <2>1. report' = NoReport
    BY <1>1, <1>2 DEF RowsFollowStatus
  <2>2. questions' # <<>>
    BY <1>1, <1>2
  <2> QED
    BY <1>2, <1>3, <1>6, <2>1, <2>2 DEF RowsFollowStatus
<1>8. HandlerFresh(r)'
  BY <1>2, <1>6 DEF HandlerFresh, HasLoaded, LoadedAt
<1>9. SerialInv'
  BY <1>7, <1>8, OnlyHandler
<1>10. LegalStatusChange(session.status, session'.status)
  BY <1>1, <1>6 DEF LegalStatusChange, StatusTransitions
<1>11. Engine!Next
  <2>1. UNCHANGED <<Plan, Len(questions), [s \in AskingStages |-> QuestionsIn(s)],
                    FollowUpStreak(StreakStage)>>
    BY <1>2 DEF QuestionsIn, FollowUpStreak, StreakStage
  <2>2. session.stage # "COMPLETED" /\ Len(questions) > 0
    BY <1>1, <1>5 DEF AskingStages
  <2>3. Engine!Close(recommended)
    BY <1>4, <1>5, <1>6, <2>1, <2>2, SameRules DEF Engine!Close, StreakStage
  <2> QED
    BY <2>3, SameRules DEF Engine!Next, Engine!Cycle
<1> QED
  BY <1>3, <1>9, <1>10, <1>11

LEMMA ReportSerial ==
    ASSUME IInv, SerialInv, Sequential, NEW r \in Requests,
           GatherReport(r) \/ SaveReport(r)
    PROVE  /\ SerialInv' /\ session' = session
           /\ questions' = questions /\ answers' = answers
<1>1. /\ request \in [Requests -> Handler] /\ RowsFollowStatus /\ HandlerFresh(r)
  BY DEF IInv, TypeOK, SerialInv
<1>2. CASE GatherReport(r)
  <2> DEFINE covers == {a.question : a \in Evaluated(answers)}
  <2>1. /\ session' = session /\ questions' = questions
        /\ answers' = answers /\ report' = report
        /\ request'[r] = [at |-> "narrating", covers |-> covers]
    BY <1>1, <1>2 DEF GatherReport, Load
  <2>2. session.status = "COMPLETED"
    BY <1>1, <1>2 DEF GatherReport, HandlerFresh
  <2>3. covers = DOMAIN questions
    <3>1. \A n \in DOMAIN questions : \E a \in Evaluated(answers) : a.question = n
      BY <1>1, <2>2 DEF RowsFollowStatus, Answered, Evaluated
    <3>2. \A a \in Evaluated(answers) : a.question \in DOMAIN questions
      BY <1>1 DEF RowsFollowStatus, Evaluated
    <3> QED
      BY <3>1, <3>2
  <2>4. HandlerFresh(r)'
    BY <2>1, <2>2, <2>3 DEF HandlerFresh, HasLoaded, LoadedAt
  <2> QED
    BY <1>1, <2>1, <2>4, RowsUnchanged, OnlyHandler
<1>3. CASE SaveReport(r)
  <2>1. /\ session' = session /\ questions' = questions /\ answers' = answers
        /\ report' = [covers |-> request[r].covers]
        /\ request' = [request EXCEPT ![r] = Idle]
    BY <1>3 DEF SaveReport, GoIdle
  <2>2. session.status = "COMPLETED" /\ request[r].covers = DOMAIN questions
    BY <1>1, <1>3 DEF SaveReport, HandlerFresh
  <2>3. RowsFollowStatus'
    BY <1>1, <2>1, <2>2 DEF RowsFollowStatus, Answered, StreakStage
  <2> QED
    BY <2>1, <2>3, IdleFresh, OnlyHandler
<1> QED
  BY <1>2, <1>3

LEMMA EndSerial ==
    ASSUME IInv, SerialInv, Sequential, NEW r \in Requests, Refused(r) \/ Abort(r)
    PROVE  /\ SerialInv' /\ session' = session
           /\ questions' = questions /\ answers' = answers
<1>1. /\ session' = session /\ questions' = questions
      /\ answers' = answers /\ report' = report
      /\ request' = [request EXCEPT ![r] = Idle] /\ RowsFollowStatus
  BY DEF Refused, Abort, Load, SerialInv
<1> QED
  BY <1>1, IdleFresh, RowsUnchanged, OnlyHandler

\* What every step of a sequential session does.
LEMMA StepSerial ==
    ASSUME IInv, SerialInv, Sequential, [Next]_vars
    PROVE  /\ SerialInv'
           /\ Evaluated(answers) \subseteq answers'
           /\ \/ session'.status = session.status
              \/ LegalStatusChange(session.status, session'.status)
           /\ Engine!Next \/ UNCHANGED Engine!vars
<1> DEFINE Goal == /\ SerialInv'
                   /\ Evaluated(answers) \subseteq answers'
                   /\ \/ session'.status = session.status
                      \/ LegalStatusChange(session.status, session'.status)
                   /\ Engine!Next \/ UNCHANGED Engine!vars
<1>0. ASSUME answers' = answers
      PROVE  Evaluated(answers) \subseteq answers'
  BY <1>0 DEF Evaluated
<1>1. CASE UNCHANGED vars
  <2>1. SerialInv'
    BY <1>1, SMTT(30) DEF vars, SerialInv, RowsFollowStatus, HandlerFresh, Answered, StreakStage,
                HasLoaded, LoadedEngineState, QuestionsIn, FollowUpStreak
  <2> QED
    BY <1>0, <1>1, <2>1, Stutters DEF vars
<1>2. ASSUME NEW r \in Requests, Accept(r)
      PROVE  Goal
  <2>1. questions' = questions
    BY <1>2 DEF Accept, BeginStart, Pause, Resume, Cancel, BeginMove, BeginSubmit, Load
  <2> QED
    BY <1>0, <1>2, <2>1, BeginSerial, Stutters
<1>3. ASSUME NEW r \in Requests, Serve(r)
      PROVE  Goal
  <2>1. ASSUME NEW source \in QuestionSources, NEW modelSaysFollowUp \in ModelTypes,
               CommitStart(r, CountsAsFollowUp("CHANGE_TOPIC", source, modelSaysFollowUp))
        PROVE  Goal
    <3> DEFINE followUp == CountsAsFollowUp("CHANGE_TOPIC", source, modelSaysFollowUp)
    <3>1. followUp \in BOOLEAN
      BY DEF CountsAsFollowUp
    <3>2. /\ SerialInv' /\ answers' = answers
          /\ questions = <<>> /\ session'.stage = "INTRODUCTION"
          /\ LegalStatusChange(session.status, session'.status)
      BY <2>1, <3>1, StartSerial
    <3>3. session.stage = StreakStage /\ questions \in Seq(QuestionRow)
      BY <2>1, <3>2 DEF CommitStart, SerialInv, HandlerFresh, RowsFollowStatus,
                        IInv, TypeOK, StreakStage
    <3>4. InsertQuestion("INTRODUCTION", followUp) /\ "INTRODUCTION" \in AskingStages
      BY <2>1 DEF CommitStart, AskingStages
    <3>5. Engine!StoreQuestion("INTRODUCTION", followUp)
      BY <3>1, <3>2, <3>3, <3>4, StoresQuestion
    <3>6. modelSaysFollowUp \in BOOLEAN
      BY SessionAssumption
    <3>7. Engine!Open(source, modelSaysFollowUp)
      BY <3>2, <3>5, SameRules DEF Engine!Open
    <3> QED
      BY <1>0, <3>2, <3>6, <3>7, SameRules DEF Engine!Next
  <2>2. ASSUME NEW source \in QuestionSources, NEW modelSaysFollowUp \in ModelTypes,
               CommitNextQuestion(r, source, modelSaysFollowUp)
        PROVE  Goal
    BY <2>2, CommitNextSerial, SessionAssumption
  <2>3. CASE CommitStartFailure(r) \/ CommitMove(r)
    BY <1>0, <2>3, StatusSerial, Stutters
  <2>4. CASE CheckPrevious(r) \/ PreserveAnswer(r)
    BY <1>0, <2>4, AnswerSerial, Stutters
  <2>5. ASSUME NEW recommended \in Actions, Decide(r, recommended)
        PROVE  Goal
    BY <1>0, <2>5, DecideSerial, Stutters
  <2>6. CASE CommitClose(r)
    BY <2>6, CommitCloseSerial
  <2>7. CASE GatherReport(r) \/ SaveReport(r)
    BY <1>0, <2>7, ReportSerial, Stutters
  <2>8. CASE Refused(r)
    BY <1>0, <2>8, EndSerial, Stutters
  <2> QED
    BY <1>3, <2>1, <2>2, <2>3, <2>4, <2>5, <2>6, <2>7, <2>8 DEF Serve
<1>4. ASSUME NEW r \in Requests, Abort(r)
      PROVE  Goal
  BY <1>0, <1>4, EndSerial, Stutters
<1> QED
  BY <1>1, <1>2, <1>3, <1>4 DEF Next

\* No row is stale when requests come one after the other, and the status
\* tells which questions are answered.
THEOREM SerialInvariance ==
    ASSUME Sequential
    PROVE  Spec => []SerialInv
<1>1. Init => SerialInv
  BY DEF Init, SerialInv, RowsFollowStatus, HandlerFresh, HasLoaded, LoadedAt, Idle,
         Answered, StreakStage
<1>2. IInv /\ SerialInv /\ [Next]_vars => SerialInv'
  BY StepSerial
<1> QED
  BY <1>1, <1>2, Invariance, PTL DEF Spec

\* Whatever fails and wherever, the running session of a candidate who sends
\* one request at a time has a pending question without an evaluated answer:
\* the next submission is accepted.
THEOREM NeverStrandedSerially ==
    ASSUME Sequential
    PROVE  Spec => []NeverStranded
<1>1. IInv /\ SerialInv => NeverStranded
  <2> SUFFICES ASSUME IInv, SerialInv, session.status = "RUNNING"
               PROVE  session.current # 0 /\ Evaluated(AnswersTo(session.current)) = {}
    BY DEF NeverStranded
  <2>1. session.current = Len(questions) /\ session.current # 0
    BY DEF SerialInv, RowsFollowStatus, IInv, QuestionsNumbered
  <2>2. ~Answered(Len(questions))
    BY DEF SerialInv, RowsFollowStatus
  <2> QED
    BY <2>1, <2>2 DEF Answered, Evaluated, AnswersTo
<1> QED
  BY <1>1, Invariance, SerialInvariance, PTL

\* A stored report covers every question of the interview, and nothing else.
THEOREM ReportIsComplete ==
    ASSUME Sequential
    PROVE  Spec => []ReportCoversInterview
<1>1. SerialInv => ReportCoversInterview
  BY DEF SerialInv, RowsFollowStatus, ReportCoversInterview
<1> QED
  BY <1>1, SerialInvariance, PTL

\* Every committed status change is one the transition table allows.
THEOREM StatusTableFollowed ==
    ASSUME Sequential
    PROVE  Spec => FollowsStatusTable
<1>1. IInv /\ SerialInv /\ [Next]_vars
          => [LegalStatusChange(session.status, session'.status)]_(session.status)
  BY StepSerial
<1> QED
  BY <1>1, Invariance, SerialInvariance, PTL DEF Spec, FollowsStatusTable

\* A resubmission never deletes an evaluated answer (with racing requests it
\* can: run kept_answers).
THEOREM AnswersKeptSerially ==
    ASSUME Sequential
    PROVE  Spec => EvaluatedAnswersKept
<1>1. IInv /\ SerialInv /\ [Next]_vars => [Evaluated(answers) \subseteq answers']_answers
  BY StepSerial
<1> QED
  BY <1>1, Invariance, SerialInvariance, PTL DEF Spec, EvaluatedAnswersKept

\* Requests that come one after the other implement the engine under every
\* plan, whatever fails: neither condition of ImplementsEngine is needed.
THEOREM ImplementsEngineSerially ==
    ASSUME Sequential
    PROVE  Spec => SerialisedEngine
<1>1. Init => Engine!Init
  BY InitAligned
<1>2. IInv /\ SerialInv /\ [Next]_vars => [Engine!Next]_(Engine!vars)
  BY StepSerial
<1> QED
  BY <1>1, <1>2, Invariance, SerialInvariance, PTL
     DEF Spec, SerialisedEngine, Engine!Spec
=============================================================================
