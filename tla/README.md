# Verification project for Caviar

Caviar is a career-preparation service: a FastAPI backend
(`src/backend/app`) and a React frontend (`src/frontend/src`). A user uploads
or builds a resume, has it analysed, generates a PDF, and takes an adaptive
mock interview whose questions and evaluations come from a language model.
This directory holds TLA+ models of the code, TLC configurations that check
them on small instances, and proofs checked by TLAPS.

Run, from this directory:

    tlc -workers 2 -config MCInterviewSession_racing.cfg MCInterviewSession
    tlapm InterviewSessionProofs.tla

## 1. Inventory

Paths are relative to `src/backend/app` unless they start with `frontend`.

| Component | State | Operations | Hard behaviour | What makes it correct |
|---|---|---|---|---|
| Interview rules `services/interview/enums.py` | none (tables) | status and stage tables, profiles | tables must agree with each other | every reachable combination has a legal decision |
| Adaptive engine `services/interview/state_machine.py` | none (pure) | `compute_question_budget`, `allocate_stage_budgets`, `next_stage`, `decide_next_action` | rounding, ties, small budgets; arbitrary recommendations | exact totals, forward stages, budgets never exceeded, termination |
| Interview session `services/interview/service.py`, `db/models/interview.py` | rows: session, questions, answers, evaluations, memory, report | create, start, submit, pause, resume, cancel, report | concurrent requests without locks; two or three commits per submission; failures and crashes between them | numbering of questions, legal status changes, no stranded session, answers and report kept |
| Questions and memory `services/interview/service.py`, `memory.py` | stored texts, one memory row | `_generate_question`, `apply_evaluation_to_memory` | a provider that repeats itself or fails; capped lists | no question repeated but as a last resort, no topic lost |
| Readiness `services/interview/readiness.py` | none (pure) | `compute_readiness` | missing criteria, outliers, rounding | robust, monotone |
| Speech `services/speech/*` | none | transcribe, metrics, synthesize | worker threads behind a timeout, overlapping words | metrics that fit together |
| AI runner `services/ai/client.py` | none | `run` | transient retry, repair | bounded, justified calls |
| Resumes and storage `services/resumes`, `services/storage` | rows and stored objects | upload, retry extraction, delete, link | two stores without a common transaction | a row has its object unless it is being deleted; status and extraction agree |
| PDF extraction `services/resume_extraction` | none | extract, normalise, parse sections | text heuristics | no text lost between sections |
| Resume analysis `services/resume_analysis` | analysis rows | run, score | parents deleted during a model call; caps and rounding | rows have their parents, scores are monotone averages |
| Resume builder `services/resume_builder` | projects, sections | upsert, delete, assist | check-then-insert races, AI-written numbers | one section per type, unsupported numbers flagged |
| Generation pipeline `services/resume_generation` | generation row, stored PDF | render, compile, validate, upload | a commit per phase, a crash in between | an honest record; everything saved reaches the page |
| Rate limiter `core/rate_limit.py` | deque of events per user | `check` | window boundary | never more than the limit in a window |
| Auth, RLS, routes, config `core`, `api`, `db/rls.py`, `main.py`, `config.py` | none | verify token, delegate | library code | - |
| Database session `db/session.py` | connection | `get_db` | rollback on failure | a refused request changes nothing |
| Builder page `frontend/src/pages/BuilderProjectPage.tsx`, `features/builder` | drafts, debounce timer, requests | edit, autosave, leave, remove | timers, unmounting, late answers | no edit lost before it is sent |
| Recorder `frontend/src/features/interviews/recorder.ts` | phase, microphone, recorder | start, pause, stop, reset | browser callbacks arriving late | what the recorder says of its microphone is true |
| API client `frontend/src/services/api/client.ts` | token | request, refresh, replay | repeated writes | one replay |
| Interview room `frontend/src/pages/InterviewRoomPage.tsx` | session copy, last cycle | answer, retry, pause, end | overlapping requests, stale copies | the answer goes to the question shown |

Interaction: a route opens one database session per request (`get_db`), passes
it to a service function together with the AI runner, the speech providers and
the storage client, and the service commits one or more times. Different
requests share nothing but the database, the buckets and the rate limiter: two
requests on the same row interleave at every `await`. A browser tab shows one
page at a time; what a page has sent is served on after it is closed.

`PROJECT.json` lists every component with its status and, under `hazards`,
each place of the code that is hard to test.

## 2. Modules

    InterviewRules <- StageBudgets <- BudgetAllocation <- InterviewNumbers (+ InterviewReadiness)
      ^      ^                                                   ^
      |   InterviewEngine <- InterviewQuestions             Computations (+ ResumeIntake,
      |      ^ (INSTANCE)                                     SpeechMetrics, ContentAssist,
      +-- InterviewSession                                    ResumePrinting)

    AIRunner, RateLimiter, ResumeScoring <- ResumeAnalysis
    ResumeLifecycle <- ResumeStorage (INSTANCE)

    ResumeBuilder <- SectionAutosave, ResumeGeneration <- BuilderWorkspace <-+
    AudioRecorder <- InterviewRoom <-----------------------------------------+- BrowserTab

(`A <- B`: B extends A.) `Totals`, which `InterviewReadiness` and
`SpeechMetrics` extend, is `sum()` over a list; `TextParts`, which `ResumeIntake`
and `ResumePrinting` extend, is a comprehension with a condition and
`"".join()`. Both are recursive functions, of which more can be proved than of
the library's folds. An `MCX` gives the constants of a run their values. Each
`X` that is proved about has an `XProofs` beside it, with these exceptions:

- `InterviewQuestionsProofs` is also that of `InterviewEngine`,
  `BrowserTabProofs` that of `BuilderWorkspace`, `ResumeAnalysisProofs` that of
  `RateLimiter`;
- `ComputationsProofs` has `BudgetAllocation`, `InterviewReadiness` and
  `SpeechMetrics`;
- `ResumeTextProofs` has `ContentAssist`, `ResumeIntake` and `ResumePrinting`.

### The interview

**InterviewRules** - the tables of `enums.py` and the pure functions of
`state_machine.py` that need no arithmetic beyond counters. `STAGE_ORDER` is
`StageIndex`; a `stage_budgets` dict is a function whose domain is the planned
stages, so `DOMAIN` is the allocated plan. `DecideNextAction` keeps the order
of the rules: total budget and closing stage (`InterviewExhausted`), stage
budget (`StageExhausted`), then the recommendation (`Screened`). A missing or
unknown recommendation is not a value of its own: the code treats it as one
that is not allowed, which yields `CHANGE_TOPIC`, the same outcome as
recommending `CHANGE_TOPIC` (or, in `CLOSING`, any action but
`CLOSE_INTERVIEW`). The fields that only explain an override are left out.

**StageBudgets** - `allocate_stage_budgets`. The code multiplies by binary
floating-point fractions; the model uses integer percentages, raw shares being
in hundredths of a question. Evaluating both over the three types and all
budgets from 3 to 30 gives the same dicts (the first difference is at budget
50, which `compute_question_budget` cannot produce). **BudgetAllocation** has
the two loops of the same function as a state machine, an iteration per step,
to state termination and the absence of `min()` on an empty list.

**InterviewReadiness** - `compute_readiness`: difficulty weights are in fifths
and category weights in thousandths; binary floating point decides an exact
half to one side or the other, so both are possible. **InterviewNumbers**
follows one interview from its duration over its budget to its report.

**InterviewEngine** - the abstract specification: one interview, no requests,
no storage, no failures. Its counters are what the code recomputes from the
question rows for each decision. `Open`, `Ask` and `Close` are the opening
question, a question after an evaluated answer, and the end.

**InterviewQuestions** - the engine with the texts of its questions and its
memory. `Generated` is `_generate_question`: two attempts, each refused when
its normalized text is known, then the fallback of the stage, with a suffix
when the fallback is known. A text is a value that stands for a normalized
one. The two attempts are abstracted to their result, a text that is not known
or the fallback. `Merge` is `_merge`, by which all lists of the memory are
capped; topics, pending topics and questions are state, the lists that nothing
reads for a decision (strengths, weaknesses, corrections, recent turns) are not.
A list keeps the place at which each item occurs first, without recursion, so
that it can be reasoned about for lists of any length. An ended interview only
repeats itself (`Completed`), which leaves a deadlock to mean an interview that
cannot go on.

**InterviewSession** - the service. A request handler is a process: the value
of `request[r]` is the point it has reached and its local variables. A step is
a stretch of code between two points at which another handler can change what
it will read or overwrite, that is between database round trips.

| Handler code | Actions |
|---|---|
| `start_interview` | `BeginStart`; `CommitStart` or `CommitStartFailure` |
| `pause_`, `resume_`, `cancel_interview` | `Pause`, `Resume`, `Cancel`; `CommitMove` |
| `submit_answer`, up to the transcription | `BeginSubmit` |
| previous attempts | `CheckPrevious` |
| new answer, first commit | `PreserveAnswer` |
| evaluation, engine state, decision | `Decide` |
| second commit | `CommitNextQuestion` or `CommitClose` |
| `_generate_report` | `GatherReport`, `SaveReport` |
| rollback, error, disconnect, crash | `Refused`, `Abort` |

How the database behaves is part of the model because it decides the races:

- sessions are created with `autoflush=False`, `expire_on_commit=False`: what a
  handler has loaded stays as it was, and everything is written at a commit;
- an UPDATE contains the attributes whose value differs from the loaded one,
  without a version check: `Flush`;
- `UNIQUE(session_id, sequence_number)` and `UNIQUE(session_id)` on reports
  refuse a second insert: `SequenceFree`, and the guard of `SaveReport`;
- deleting a row that is gone is accepted, updating one or inserting a child of
  it is refused: `Preserved(r) # {}`.

READY is assigned and checked in memory but never committed alone, so no action
produces it. Left out, because they decide nothing here: memory contents,
transcripts, scores, speech metrics and audio (all written in the same commits),
the refresh and read-only operations, ownership checks, and the existence
checks of `create_interview`, whose result is `Init`.

### Uploaded resumes

**ResumeStorage** - uploaded resumes, in a database and an object store that
share no transaction. A handler is cut at its external calls: it can end at
each of them (`Abort`), and a call that fails may have had its effect.

| Handler code | Actions |
|---|---|
| `upload_resume` | `BeginUpload`; `StoreObject` or `StoreFails`; `CommitUpload` or `CommitUploadRaises`, then `CleanUp` |
| `retry_extraction` | `BeginRetry`, `Fetch`, `CommitRetry` |
| `delete_resume` | `BeginDelete`; `EraseObject` or `EraseFails`; `DeleteRow` |
| rollback, disconnect, crash | `Abort` |

PENDING is the column's default and no code leaves it there. Whether a file
has text is an input of the upload and again of a retry, because the extraction
pipeline may have changed in between; a retry that finds none assigns the
values it had loaded, so the flush writes nothing. `LostAcknowledgements` says
whether a commit can have been done and still raise.

**ResumeLifecycle** - the abstract specification of the same: what becomes of a
resume, without requests. It appears once and with its file; its extraction can
only come to succeed; a deletion on its way (`Doom`, `Delete`) may take its
file; once gone it stays gone. `ResumeStorage` maps onto it by `Stage`: without
a row a resume is new as long as its id is unused or its upload goes on, gone
afterwards.

**ResumeIntake** - what the upload makes of a file before that: the checks of
the file, the joining of page texts, the normalised lines, the sections cut at
headings. A line is what those steps tell apart in it.

**ResumeAnalysis** with **AIRunner**, **RateLimiter** and **ResumeScoring** -
the route and service of an analysis: the limiter is charged first, so requests
refused later count too (`RejectRequest`); resume and job context are loaded;
the model runs (`Reply`, at most four calls); the output is scored and one
commit writes the row. Resume and job context may be deleted at any time:
foreign keys cascade, set null, or refuse the insert (`SaveRefused`). The deque
of the limiter is the log of accepted events and the number of those popped.
Weights are percentages, and a rounding of an exact half goes either way.

### Built resumes and the browser

**ResumeBuilder** - sections and the requests that save and remove them. A
handler reads the section in one statement (`Load`) and writes in a later
transaction: `CommitInsert` meets the unique constraint, `CommitUpdate` is not
issued when nothing changed and fails when the row has gone, `CommitDelete` of
a row that has gone is no error. A request is lost, fails, or has its effect
and a lost answer (`CallFails`). The status of a project blocks nothing.

**ResumeGeneration** - `generate_resume`: every phase is committed before its
work begins. `work[g]` is where the handler is, `rows[g]` what it has
committed, `bucket` the PDFs stored. `AbortGeneration` ends a handler anywhere
(an exception no phase catches, a disconnect, a crash); deleting the project
takes the rows but not the stored PDFs.

**SectionAutosave** - the builder page: one editor at a time, drafts kept while
the page is open, `useDebouncedCallback` with its timer, blur and unmount
flush, the removal dialog. **BuilderWorkspace** puts the three together.

**AudioRecorder** - the hook around `getUserMedia` and `MediaRecorder`; `asking`
and `live` are the permission requests and open microphones of the composer on
the screen and of those before it. **InterviewRoom** - the room, the API client
with its replay, and as much of the backend as a page can see. **BrowserTab** -
one tab, that shows the builder page or the room.

**ContentAssist** - AI assistance as advice that changes nothing until applied,
and the guard on numbers; a text is the sequence of numbers written in it.
**ResumePrinting** - sections to LaTeX tokens: the escaping boundary, the
context, the template (external, from its source). A text is a sequence of
characters from any set; `Put` is what TeX makes of the next token of a source
and `Typeset` of the whole of it, so that what is saved and what is typeset can
be counted and compared (`CharactersAssumption`: a control word such as
`\textbackslash` is several characters of a text). `Page` adds what `\\` and
`\item` read of the text after them: a star (`Swallowed`), a square bracket
(`Arguments`). The model ends where TeX hands a character to the font: that
`--` becomes one dash there, or that a glyph is missing and only warned of
(`compiler.py:26-29`), is outside. **SpeechMetrics** - audio
checks, transcription outcome, metrics. **Computations** puts the
deterministic computations side by side, each behaviour following one of them.

A property is under its own comment in the module that defines it. Definitions
whose comment begins with "Mutated form" are not part of a model: each is a
definition changed by a plausible bug, and `PROJECT.json` says which property
must fail when it takes the place of the original.

## 3. Runs

| Run | Distinct states | What it checks |
|---|---|---|
| `interview` | 72 843 | `InterviewQuestions`: engine, question texts and memory, under allocated plans |
| `serial` | 2 895 | `InterviewSession`, one request at a time, ten questions, failures everywhere |
| `racing` | 182 750 | `InterviewSession`, two requests, three questions |
| `storage` | 2 163 | `ResumeStorage`, two requests, two resumes |
| `analysis` | 741 790 | `ResumeAnalysis`: limiter, runner, scoring and deletions together |
| `tab` | 3 496 612 | `BrowserTab`: builder page and backend, generation, interview room |
| `computations` | 369 827 | the pure algorithms, over sampled inputs |
| `status_law`, `kept_answers`, `lost_report`, `lost_commit`, `stale_question` | - | expected violations, section 4 |

**interview.** Budgets 3-8 cover every shrunk plan and the first full one of
each type; 10, 12 and 15 give stages of two to six questions, in which the
follow-up streak reaches its limit. `EventuallyCompletes` assumes only that the
candidate keeps answering (`WF_vars(Next)`, an engine step): no choice of
recommendations keeps an interview open. Deadlock is checked. The provider repeats itself, fails or
writes text that normalizes to nothing under one plan, BEHAVIORAL with eight
questions, whose stage of three is what it takes to use up a fallback and its
suffix; there the recommendations are ADVANCE_STAGE and CHANGE_TOPIC and the
topic lists two. `ListCap` is 2 and `QuestionCap` 15, above every budget as the
code's 60 is above 30: `EveryQuestionRemembered` depends on it, and so does the
duplicate check.

**serial.** One request at a time, so any interference is excluded and what
remains is failure: `Abort` can end a handler at each point, start can fail
and be repeated, the user can pause, resume and cancel. The BEHAVIORAL plan
of ten questions has a stage of four, in which the streak limit matters, and a
stage of two. `NeverStranded` and `RunningInterviewEnds` are the promise of
`docs/INTERVIEW_SYSTEM.md` about failed submissions.

**racing.** Two handlers in any of the operations. What holds although nothing
is locked: `QuestionsNumbered` and, more strongly, `SerialisedEngine` - read
through the mapping `Engine`, the run is one of `InterviewEngine`: each stored
question and the stage that goes with it are what the sequential engine would
have produced at that moment. The reason is that a handler whose view of the
session is out of date always collides on the unique sequence number. It is not
the whole reason: the instance has one question in CLOSING and no failing
starts, and without either the mapping breaks (section 4, and the two
hypotheses of the theorem in section 5).

**storage.** An upload may be retried by its user (a new id), extracted again
and deleted, by two handlers at once, with a failure at each call. No row is
ever created without its file and a file goes only with a deletion of its
resume; racing retries and deletions leave the status and the extraction in
agreement; whatever a retry or a deletion had read, a resume that is gone does
not come back (`ResumesLive`, the refinement of `ResumeLifecycle`); a deletion
that failed half-way can be completed. Files that no row
names are possible and accepted (the module calls them "invisible cost"). Two
handlers exhibit each pairwise race and no handler waits for another; an id
is used once, so two ids give an upload beside an old resume. The safety
properties are proved for any number of both. `LostAcknowledgements` is FALSE;
`lost_commit` is the same instance with TRUE.

**analysis.** Two callers of one user, two events per window of three ticks of
half a second, time up to 3, three accepted requests, three outputs of the
model on both sides of each evidence cap, four sets of detected sections. Time
passes between any two steps, so an event exactly one window old is met. No
fairness: the properties are safety. What a restart of the process does to the
limiter (forget everything) is left out, as the module says its promise is per
process. The OpenAI client's own retries are external.

**tab.** Two section types, two contents and an incomplete one, two section
requests, one generation; three questions, two posts. Two requests are one
race, and a third only more of the same: the proofs are for any number. Two
posts give an answer and its retry, or two answers in a row; three questions
leave one to go. The bin of a section is available whatever the page's cached
copy says, which allows more than the page does. In the room one pause, resume
or cancel is pending at a time, and the page opens with a fresh copy of the
session. No fairness: safety only. `stale_question` is the room alone, with
three questions and three posts.

**computations.** Every duration the API accepts and every type through the
allocation loops, whose termination (`AllocationTerminates`) assumes that the
loop goes on: for the allocation the run is exhaustive, since the schema admits
nothing else. One ten-minute MIXED interview is followed to its report with
seven kinds of answers. Resumes of up to four lines of seven kinds on up to two
pages (one allowed), seven uploads; spoken answers of up to four of nine words,
times in tenths of a second; three writable sections, one of them with two
bullets, and three texts of the AI, of which it answers up to two at once; up
to three samples of every section for the printer, every special character, a
company of one blank, and stars and square brackets at the start of texts among
them, where they are harmless and where a command takes them. `subject` chooses one computation per
behaviour, which share no state. The samples contain every case the definitions
tell apart; for inputs of any length section 5 has the proofs.

Bounds of `InterviewSession`:

- `Requests`: two requests exhibit each pairwise race. Handlers hold no lock,
  so a third adds no blocking, only more stale writers; `QuestionsNumbered` is
  proved for any number.
- `Plan`: three questions (one in each of INTRODUCTION, ROLE_SPECIFIC, CLOSING)
  are a beginning, a middle and an end for the races; the rules inside a stage
  are the business of `serial` and `interview`.
- `Attempts`: answer rows of one question that exist at a time; three suffices
  for two handlers (a fourth adds no state). Row identity is a UUID: a number
  is free again only when no handler refers to it.
- `StartMayFail` is FALSE in `racing`: a start that fails late commits FAILED
  over a session that another start has brought to RUNNING, which makes
  the interview restartable and adds questions without end (section 4).
- `ModelTypes = {FALSE}`: the model does not itself label a question a
  follow-up. With TRUE as well the streak can exceed two (section 4) and the
  properties of `racing` still hold (1.4 million states). The proofs hold for every value.

Deadlock checking is off wherever everything asked for may have been done.

Fairness. `WF_vars(Serve(r))`: a handler that can go on does. Calls to the
language model, the speech engines and the object store are bounded by
timeouts (`AI_TIMEOUT_SECONDS`, `TRANSCRIPTION_TIMEOUT_SECONDS`,
`STORAGE_TIMEOUT_SECONDS` and others in `config.py`), after which the handler
fails or continues; for database calls the code sets none, and they are assumed
to return or to raise. Users, failures and crashes get no fairness. The two
specifications called `PersistentSpec` add assumptions on the environment, not
on the code. In `InterviewSession`, used by `serial`, it is what "can be
resubmitted" presumes: the candidate submits again whenever that keeps being
possible, and no phase of a submission fails for ever. In `ResumeStorage` the
user repeats a deletion and neither of its two calls fails every time.

## 4. Disagreements between code and documentation

1. **A cancelled interview can come back** (`status_law`). `start_interview`
   loads PENDING and awaits the opening question; a cancel is committed
   meanwhile; start then writes RUNNING over CANCELLED. `enums.py:30` calls the
   table "the ONLY way a session status may change".
2. **An evaluated answer can be deleted** (`kept_answers`). A resubmission
   reads the attempt while it is unevaluated and deletes it at its own commit,
   after another request has evaluated it; the evaluation goes with it.
   `service.py:570` says it replaces "a previous unevaluated attempt".
3. **A completed interview can stay without a report** (`lost_report`).
   COMPLETED is committed before the report is generated, and nothing generates
   it again. `docs/INTERVIEW_SYSTEM.md:39`: "A single failure never strands the
   session."
4. **An upload can erase the file of the row it created** (`lost_commit`). Any
   exception of the commit leads to the clean-up, also one raised because the
   connection was lost after the database had committed. The header of
   `services/resumes/service.py` (lines 21-22) wants the opposite preference:
   "a DB row pointing at a nonexistent object is user-visible breakage, while
   an orphaned object is invisible cost".
5. **The room can show a question that has been answered** (`stale_question`).
   The Retry button sends the answer again without the callback that keeps the
   cycle, and the `next_question` of the cycle before it goes on winning over
   the refetched session. `InterviewRoomPage.tsx:2-4`: "the room renders the
   current backend question/stage, submits one answer at a time".

Other behaviour met while modelling, not kept as runs.

Interview: the opening and the closing can have two questions, since
`allocate_stage_budgets` has a minimum of one and no maximum and from 40
minutes on 8 % of the budget is more than one question (`enums.py:206-208`
speaks of "fixed single questions"); when CLOSING has two, two submissions to
the first of them can close the interview and then store the second,
unanswered, in an interview that is COMPLETED. With two racing requests, a late
failing start over a running session allows a restart that moves the stage
backwards; two submissions that both close can leave two evaluated answers to
the last question; a resume that commits over COMPLETED leaves a running
session without a pending question; the follow-up streak can exceed
`MAX_FOLLOW_UP_STREAK` because the model may label a question FOLLOW_UP after
`CHANGE_TOPIC`. The third fallback of one stage repeats its suffixed text
(`RepeatsOnlyLastResort` excepts it), although `state_machine.py:233-235` calls
fallbacks "guaranteed loop-free"; that a fallback is used only after two
duplicates (same comment) leaves out provider errors. Normalization keeps
`a-z0-9`, so a question in another script normalizes to nothing and escapes the
duplicate check.

Analyses: an empty reply of the provider raises at once, without the repair;
a quote given twice counts twice; deleting the job context during the model
call refuses the commit, and the paid output is lost.

Browser: two saves of one section can commit in the opposite order, and "All
changes saved" is then false; a tab closed within the 800 ms of the debounce
loses the edit; a PDF generated right after an edit may miss it; a removed
section keeps its draft, which a later edit saves again; `delete_project`
leaves PDFs in the bucket. `client.ts:8-10` says that a second 401 signs the
user out; the code only rejects. A background refetch that fails replaces the
room by an error and discards a recording; a microphone granted after the
composer was unmounted stays on (`RecorderHonest` is about the composer on the
screen). Text mode shows nothing of the recorder and does not stop it
(`AnswerComposer.tsx:110`, `182-195`): a recording goes on unseen, through a text
answer and into the next question, and can then be submitted for that one.
`RecorderHonest` says that the recorder's phase agrees with the microphone in
either mode, not that the page shows the phase.

Texts: the URL of a project is not printed unless it names technologies, the
location of a job not unless its company has a visible character, and the
credential URL never (`SavedReachesFont` excepts the three); a field of one blank
leaves a dangling separator. Escaping leaves `*` and `[` alone, which the
commands `\\` and `\item` of the template take when a text after them starts
with one: a bullet, a highlight or an achievement that starts with `[`, the
description of a project with technologies that starts with `*` or `[`
(`template.tex.j2:15-16`, `36-37`, `40`, `64`). The star is not printed, although
`latex_escape.py:24-25` says that "symbols pass through intact"; a bracket opens
an argument, and the compilation may fail or print it otherwise.
`SavedReachesFont` excepts resumes with such a text (`ReadInto`). A text
layer of invisible characters only is EXTRACTED with an empty text; the raw
text is stored before control characters are removed, and a NUL in it makes the
database refuse the row. A bulleted line "Skills" counts as a heading. A number
inside an applied placeholder counts as stated by the user the next time, and
"3,4" is read as 34. With overlapping words the silence is understated.

## 5. Proofs

All are for every value of the constants that satisfies the named assumptions
(for the interview `PlansAssumption`: plans are what the allocator returns -
anchors planned, positive shares, exact total - and `SessionAssumption`).

**InterviewRulesProofs** - lemmas that the others cite. On the rule tables:
stage positions are distinct and ordered, a non-empty set of stages has a first
one, `NextStage` is the nearest later planned stage or COMPLETED, and how
`TotalOf`, a sum of eight terms, reacts to an increment and bounds its parts. On
numbered places: a set of numbers up to n can be ranked (`Ranks`), so it has a
first member (`FirstPlace`) and one of smallest key (`SmallestKey`). That is how
these proofs do induction over lists without an induction theorem, whose
operator parameter no backend can instantiate: a claim is the set of places
where it holds, and such a set that contains the first place and with each place
the next is all of them (`Everywhere`). The same argument gives that a function
defined by recursion over places exists and obeys its equation
(`RecursionExists`), which `CHOOSE` alone does not say.

**InterviewQuestionsProofs**, first part, is about the engine alone: type
correctness, `WithinBudgets`, `PlanFollowed`, `CompletesOnlyAfterWholePlan` and
`StagesForward`. None of the first two is inductive without the third: the
budget is kept because the stages' shares are kept and add up to it, a share is
kept because a stage is entered with no question in it, and that is so because
stages are followed in order. Hence
`IInv == TypeOK /\ WithinBudgets /\ PlanFollowed`. It also gives the last two:
the total runs out only when every stage is full, so closing early is
impossible.

The second part, for every list of topics and both caps: an interview with texts
and memory is one of the engine (`QuestionsLeaveTheEngine`, so all of the
engine's theorems hold of it), `EveryQuestionRemembered`,
`RepeatsOnlyLastResort` and `NoTopicLost`. First what `_merge` does to any
list: nothing blank, nothing twice, nothing beyond the cap, everything already
in a clean list kept, everything new kept if it fits. Then why the question list
never meets its cap: it is never longer than the number of questions stored,
which the engine bounds by the budget. From there a text not remembered is a
text never asked, and a fallback is repeated only as its suffixed form. The
topics covered are distinct and within their cap, which is what keeps the next
merge from dropping one.

**InterviewSessionProofs** - for any set of requests, type correctness and
`QuestionsNumbered`. The argument is about stale rows: a loaded row never counts
more questions than there are, and an insert succeeds only if it counts
exactly as many, at which moment the attributes that the flush leaves alone
are the ones that were loaded.

`ImplementsEngine`: the session implements the sequential engine, for any number
of racing requests, under two hypotheses: CLOSING has one question
(`ClosesOnce`, a condition on the plan), and no start fails after another has
stored the first question (`NoLateStartFailure`, a condition on the behaviour).
Neither can be dropped: TLC refutes the refinement without them, by the races
described in section 4. The invariant is `Aligned`: every stored question but
the last extends an interview that was not at its end; what a handler has
loaded and not yet seen refused agrees with the stored row in all that the
decision reads; and a decision to close was taken at the end. Then each commit
of a question is the engine's `Ask` with the recommendation the handler was
given, the close of the last is its `Close`, the first commit of a start its
`Open`, and every other step a stutter. Together with the engine's theorems a
racing interview keeps its budgets and its order of stages; that last step is
made on paper, because the prover cannot cite a theorem of a module that is
instantiated.

For requests that come one after the other (`Sequential`), with failures and
crashes anywhere, the hypotheses are not needed: `ImplementsEngineSerially`, and
what `serial` checks or the violations need a race to break: `NeverStranded`,
`ReportCoversInterview`, `FollowsStatusTable`, `EvaluatedAnswersKept`. `SerialInv`
is why: the only handler's row is the stored row, and the status tells which
questions have an evaluated answer (all but the last while RUNNING, all once
COMPLETED).

**ResumeStorageProofs** - type correctness, `ExtractionMatchesStatus`,
`UploadsOwnResumes`, `FilesLostOnlyToDeletes` and `ResumesLive`, for any resumes
and any requests; the last two for a database whose raising commits have no
effect (`~LostAcknowledgements`, without which they are false). That a row is created
with its file cannot be seen from rows and objects alone: the file could have
been erased since it was stored. `UploadsOwnResumes` is the strengthening:
before its commit an upload is the only handler that knows the id, so nobody
can have deleted the file, and a clean-up runs only for a resume without row. For
the refinement each step is about one resume and leaves the stage of the others
alone (`OthersStay`); the next step of an upload moves a resume that is new and
not doomed (`UploadStep`), that of a deletion one that is doomed
(`DeletionStep`), and that of a retry one that has a row or has gone.

**ResumeAnalysisProofs** - first the limiter alone, for any keys, limit and
window. `WindowBound` says nothing of the deque, which is what `check` looks at;
`DequeInv` does: the deque never exceeds the limit and everything popped from it
has expired, so that of `MaxEvents + 1` accepted events the first had been
popped, and had expired, when the last was accepted. `RetryAfterHonest` needs in
addition that events are logged in the order of their times (`Chronological`):
the head of a full deque is then the first to expire, and rounding its rest up
to whole seconds costs less than one second.

Then the whole analysis: `WindowBound` and `RetryAfterHonest` again, an analysis
step being a step of the limiter or a stutter; `CallsJustified`, where the point
a run has reached determines the replies that brought it there but for one
repetition (`Brought`), which makes it a case analysis; `RowsHaveParents`, which
rests on the database refusing what names a missing parent and cascading what it
deletes, and on nothing a request has loaded; and the scores. `ScoreIsAverage`
holds because every adjusted category stays between 0 and 100 and the weights
add up to 100 (`ScoredInv` keeps the scores of a row those of its output);
`BetterNeverScoresLower` because capping, deducting, weighting and rounding are
each monotone - for every output the validator accepts and every set of
detected sections, not only for the three outputs of the run.

**ComputationsProofs** - the allocation (`EveryStageKeepsAQuestion`,
`LargerFractionNeverLoses`), the readiness scores of any number of answers
(`OutlierCannotDistort`, `OverallWithinCategories`, `BestAnswerNeverLowers`) and
the metrics of a spoken answer (`SpeechAddsUp`).

The trim loop picks the stage owed least, which exists and has two questions
(`TrimCandidateTrimmable`), so no stage is emptied. A middle stage of larger
fraction ends with at least as many questions as one of smaller (the anchors
always have one: MIXED with a budget of three asks an INTRODUCTION of 8 % and no
PROJECT_DEEP_DIVE of 17 %) because the initial split keeps the order of the
shares, because the top-up goes to the stage owed most and the trim takes from
the one owed least, so that neither can overtake an equal or larger claim, and
because the preferred stages that a short interview keeps fit in it.

`PartialSums` is a recursive function; that the sums
exist, grow and change with one term is shown by the first place where they
would not. A weighted mean then lies between any bounds of its samples
(`MeanBetween`), rounding keeps integer bounds (`NearestIs`), and what is kept of
four samples lies above the second lowest and below the second highest
(`TrimmedScoreBetween`). A best answer is the new highest. With fewer than three
earlier samples it joins; as the fourth it starts the trimming, and what leaves
in effect is the lowest; later it takes the place of the highest, which comes
back. Each moves the mean one way (`MeanChanges`). The overall score being within
0..100, the exception `compute_readiness` would raise otherwise is unreachable.

`SpeechAddsUp` (under `SpokenWordsAssumption`) relates sums over the words: when
they do not overlap, the lengths of successive words and the gaps between them
telescope to the time from the first to the last (`Telescope`); the pauses are
some of the gaps, so they add up to no more, and a count is a sum of ones
(`OnesCount`), which compares it with the times it counts. `SpeechInv`: metrics
shown were computed from the words heard.

**ResumeTextProofs** - texts and documents of any length, under
`AssistAssumption`, `LinesAssumption` and `CharactersAssumption`.

`EveryNumberAccounted`: the normal form of a number determines its value, and two
numbers with the same value have the same normal form; the flags of a text are
followed place by place, as the loop collects them. `AssistInv`: every number
saved, and every number advice was compared with, was typed by the user or noticed
when he applied a text, and the flags shown are those of the source they were
computed from.

`NoLineLost`: joining the pages, normalising and stripping keep the lines with
text and their order; the headings are distinct places in ascending order, so
the sections are the pieces between successive boundaries; such pieces one after
the other are the whole, and the line span of a piece ends where the next
begins. `IntakeInv`: an extracted row is the row of the pages read. For induction
over a sequence there is `EverySequence`: a set of sequences with the empty one
and, with each of its members, every extension by an item, has them all.

`SavedReachesFont`: an escaped character typesets itself, a text therefore its
normal form; a source typeset after another adds its characters to those already
there as long as the first one is well formed, a group typesets what is in it and a
separator nothing (`TypesetConcat`). Nothing of it is taken by a command: of two
neighbouring tokens none is a `\\` or `\item` with a character it would read
(`Calm`), in a text by itself because it has no commands, and between texts
because what follows a command is another command, a group, or a text that does
not start with such a character (`Led`), which is the hypothesis `ReadInto`. So
what a list of lines prints of a character is the sum of what its texts have of it, and it remains to count the
fields of each section type on both sides, missing fields and empty bullets
included, and to add up the entries of a section and the sections of the
document. `PrintingInv`: what is saved is valid, and a source was rendered from
what is saved.

**BrowserTabProofs** - of the whole tab, for any numbers of everything:
`OneSectionPerType`, `NoEditDropped`, `RecordIsHonest`, `FinishedIsHistory`,
`RecorderHonest`, `AnswersFitQuestions`. `SectionsInv`: what a request has
loaded is irrelevant to uniqueness, since an update changes neither id nor type
and an insertion needs the type unused. `GenerationsInv`: `Matches` ties a row
and the bucket to the point its handler has reached, and says that a finished
row has no handler that could write it. `EditsInv`: what is armed is the draft
of the open section, and requests are numbered in the order of their sending.
`RecorderInv` adds that a stop event
is awaited only by an inactive recorder and only a mounted composer asks.
`RoomInv` has the argument for the last: as long as no post was seen to fail,
the k-th post answers the k-th question, all but the last have been served and
received, and the page's last cycle is at most one step behind the backend, so
what is shown is what is current. An answer names no question; that it needs
none rests on this.

Only model-checked:

- liveness: `EventuallyCompletes`, `RunningInterviewEnds`,
  `AllocationTerminates`, `HalfDeletedRemovable` (fairness and ENABLED are out of
  the prover's reach);
- that each hypothesis of `ImplementsEngine` is needed, and everything in
  section 4: a counterexample is TLC's business.

## 6. Not modelled, and what could follow

- The thread pool of the Python runtime, shared by extraction, compilation,
  transcription and synthesis, where `wait_for` abandons what runs; model
  loading from several threads; the compiler's subprocess.
- `create_interview`'s checks, the lists of memory that nothing reads, the
  recent-turns window.
- A resume deleted under a running interview; interviews in two tabs seen from
  both pages.
- Starting an interview in the room, offline state, playback; other pages.
- Length limits of section contents, contact patterns, PDF reading, prompt wording and
  output schemas, token verification and row-level security (library and
  database), middleware, configuration, migrations, rendering components.
