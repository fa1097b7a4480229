--------------------------- MODULE InterviewQuestions ---------------------------
(***************************************************************************)
(* What the questions of ONE interview say and what its memory keeps       *)
(* (_generate_question in services/interview/service.py, memory.py): the   *)
(* prevention of duplicates, the fallback questions, the capped lists.     *)
(* The engine supplies the decisions; requests, storage and failures other *)
(* than those of the provider are InterviewSession's.                      *)
(*                                                                         *)
(* A text stands for a normalized text (lower case, everything but a-z,    *)
(* 0-9 and blanks removed): <<"model", n>> one written for question n,     *)
(* <<s, 1>> the fallback of stage s, <<s, 2>> the fallback with its        *)
(* suffix, Blank any text of which normalization leaves nothing (a question*)
(* in another script).                                                     *)
(***************************************************************************)
EXTENDS InterviewEngine, SequencesExt

CONSTANTS
    Unreliable,         \* bound: plans for which the provider may repeat itself
                        \* or fail, and for which topics are tracked
    Recommended,        \* bound: recommendations explored under those plans
    TopicLists,         \* bound: lists of topics one evaluation adds to them
    DetectedSections,   \* sections of the resume: the topics pending at first
    ListCap,            \* _LIST_CAP, 30
    QuestionCap         \* the cap of questions_asked, 60

ASSUME ContentAssumption ==
    /\ Recommended \subseteq Actions
    /\ ListCap \in Nat \ {0} /\ QuestionCap \in Nat \ {0}
    /\ \A p \in Plans : p.budget <= QuestionCap
    /\ \A list \in TopicLists : list \in Seq(ToSet(list))

VARIABLES
    texts,      \* normalized_text of the stored questions, by sequence number
    remembered, \* memory.questions_asked
    explored,   \* memory.topics_explored
    pending     \* memory.topics_pending

memory == <<remembered, explored, pending>>
content == <<vars, texts, memory>>

Blank == <<"blank", 0>>
Fresh == <<"model", Len(texts) + 1>>
Fallback(s) == <<s, 1>>
SuffixedFallback(s) == <<s, 2>>

\* dict.fromkeys: a second occurrence is dropped.
Remember(list, item) == IF item \in ToSet(list) THEN list ELSE Append(list, item)

\* Mutated form: the newest entries are kept.
CappedToNewest(list, cap) == SubSeq(list, Max({1, Len(list) - cap + 1}), Len(list))

Capped(list, cap) == SubSeq(list, 1, Min({cap, Len(list)}))

\* What stands at place i of a sequence is no blank and stands at no earlier
\* place.
New(all, i) == all[i] # Blank /\ \A j \in 1 .. i - 1 : all[j] # all[i]

\* The place of the k-th new item.
Place(all, k) ==
    CHOOSE i \in DOMAIN all : New(all, i) /\ Cardinality({j \in 1 .. i : New(all, j)}) = k

\* dict.fromkeys and setdefault: of equal items the first is kept, blank ones
\* are dropped.
FirstOccurrences(all) ==
    [k \in 1 .. Cardinality({i \in DOMAIN all : New(all, i)}) |-> all[Place(all, k)]]

\* _merge.
Merge(list, additions, cap) == Capped(FirstOccurrences(list \o additions), cap)

\* Mutated form: the questions share the cap of the other lists.
QuestionsMergedShort == Merge(remembered, <<Last(texts)>>, ListCap)

\* memory.questions_asked once the answer to the last question is folded in.
QuestionsMerged == Merge(remembered, <<Last(texts)>>, QuestionCap)

\* apply_evaluation_to_memory for the topics: what is explored is not pending.
FoldTopics(found) ==
    /\ explored' = Merge(explored, found, ListCap)
    /\ pending' = pending \ ToSet(explored')

\* What a provider may write: something new, any earlier question, the words
\* of a fallback, or a text that normalizes to nothing.
Candidates(s) ==
    IF plan \in Unreliable THEN {Fresh, Blank, Fallback(s)} \union ToSet(texts) ELSE {Fresh}

\* Mutated form: a duplicate is accepted.
GeneratedUnchecked(source, s, known) ==
    IF source = "model" THEN Candidates(s) ELSE {}

\* _generate_question: one of two attempts is no duplicate of what memory
\* holds or, when both are or the provider fails, the fallback of the stage,
\* with the suffix if memory holds the fallback; the suffixed text itself is
\* not compared again.
Generated(source, s, known) ==
    IF source = "model" THEN Candidates(s) \ known
    ELSE IF plan \notin Unreliable THEN {}
    ELSE {IF Fallback(s) \in known THEN SuffixedFallback(s) ELSE Fallback(s)}

ContentInit == /\ Init
               /\ texts = <<>>
               /\ remembered = <<>>
               /\ explored = <<>>
               /\ pending = DetectedSections

\* start_interview.
OpenQuestion(source, modelSaysFollowUp) ==
    /\ Open(source, modelSaysFollowUp)
    /\ \E text \in Generated(source, "INTRODUCTION", ToSet(remembered)) :
          /\ texts' = Append(texts, text)
          /\ remembered' = Remember(remembered, text)
    /\ UNCHANGED <<explored, pending>>

\* submit_answer that goes on: memory, decision, next question.
AskQuestion(recommended, source, modelSaysFollowUp, found) ==
    LET next == DecideNextAction(EngineState, recommended).stage
    IN  /\ Ask(recommended, source, modelSaysFollowUp)
        /\ \E text \in Generated(source, next, ToSet(QuestionsMerged)) :
              /\ texts' = Append(texts, text)
              /\ remembered' = Remember(QuestionsMerged, text)
        /\ FoldTopics(found)

\* submit_answer that ends the interview.
EndInterview(recommended, found) ==
    /\ Close(recommended)
    /\ remembered' = QuestionsMerged
    /\ FoldTopics(found)
    /\ UNCHANGED texts

\* Bounds: InterviewEngine explores everything under the other plans.
Found == IF plan \in Unreliable THEN TopicLists ELSE {<<>>}
Recommendations == IF plan \in Unreliable THEN Recommended ELSE Actions
ModelTypes == IF plan \in Unreliable THEN {FALSE} ELSE BOOLEAN

\* A completed interview asks nothing: everything else may not come to a stop.
Completed == stage = "COMPLETED" /\ UNCHANGED content

ContentNext ==
    \/ \E source \in QuestionSources, modelSaysFollowUp \in ModelTypes :
          \/ OpenQuestion(source, modelSaysFollowUp)
          \/ \E recommended \in Recommendations, found \in Found :
                AskQuestion(recommended, source, modelSaysFollowUp, found)
    \/ \E recommended \in Recommendations, found \in Found : EndInterview(recommended, found)
    \/ Completed

\* The candidate keeps answering (InterviewEngine.DiligentSpec); a question or
\* an end is always possible because no unfinished state is a deadlock.
ContentSpec == ContentInit /\ [][ContentNext]_content /\ WF_vars(Next)

-----------------------------------------------------------------------------
\* The duplicate check sees the whole interview: no cap and no merge ever
\* makes memory forget a question, except one that normalizes to nothing.
EveryQuestionRemembered ==
    ToSet(texts) \subseteq ToSet(remembered) \union {Blank}

\* However often the provider repeats itself or fails, a question is asked
\* twice only as the last resort, the suffixed fallback of its stage, or when
\* normalization leaves nothing to compare.
RepeatsOnlyLastResort ==
    \A i, j \in DOMAIN texts :
        i < j /\ texts[i] = texts[j] =>
            texts[j] \in {SuffixedFallback(s) : s \in AskingStages} \union {Blank}

\* "moved, not duplicated" (test_interview_memory_readiness_speech.py): a
\* detected section is pending until it is recorded as explored, and the cap
\* never drops one that was recorded; a full list refuses new topics, which
\* then stay pending.
NoTopicLost ==
    /\ DetectedSections \subseteq pending \union ToSet(explored)
    /\ pending \intersect ToSet(explored) = {}
=============================================================================
