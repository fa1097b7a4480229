------------------------------ MODULE Computations ------------------------------
(***************************************************************************)
(* The deterministic computations of the backend side by side: the budget  *)
(* and the scores of an interview, the intake of an uploaded resume, the   *)
(* metrics of a spoken answer, the guard over AI-written text, the printing*)
(* of a resume.  They share no state; each behaviour follows one of them.  *)
(***************************************************************************)
EXTENDS InterviewNumbers, ResumeIntake, SpeechMetrics, ContentAssist, ResumePrinting

VARIABLE subject        \* the computation this behaviour follows (bound)

Subjects == {"interview", "intake", "speech", "assist", "printing"}

computed == <<numbers, pages, intake, words, metrics, assistVars, saved, source, subject>>

ComputationsInit ==
    /\ subject \in Subjects
    /\ NumbersInit
    /\ subject # "interview" => <<type, minutes>> \in Held
    /\ IntakeInit /\ SpeechInit /\ AssistInit /\ PrintingInit

Follow(s) == Done /\ subject = s /\ UNCHANGED <<numbers, subject>>

ComputationsNext ==
    \/ /\ subject = "interview" \/ ~Done
       /\ NumbersNext
       /\ UNCHANGED <<pages, intake, words, metrics, assistVars, saved, source, subject>>
    \/ /\ Follow("intake")
       /\ IntakeNext
       /\ UNCHANGED <<words, metrics, assistVars, saved, source>>
    \/ /\ Follow("speech")
       /\ SpeechNext
       /\ UNCHANGED <<pages, intake, assistVars, saved, source>>
    \/ /\ Follow("assist")
       /\ AssistNext
       /\ UNCHANGED <<pages, intake, words, metrics, saved, source>>
    \/ /\ Follow("printing")
       /\ PrintingNext
       /\ UNCHANGED <<pages, intake, words, metrics, assistVars>>
    \/ Done /\ UNCHANGED computed

ComputationsSpec ==
    ComputationsInit /\ [][ComputationsNext]_computed /\ WF_vars(TopUp \/ Trim)
=================================================================================
