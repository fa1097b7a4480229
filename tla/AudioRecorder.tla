----------------------------- MODULE AudioRecorder -----------------------------
(***************************************************************************)
(* The answer composer's voice recorder (features/interviews/recorder.ts): *)
(* a React hook around getUserMedia and MediaRecorder, whose results and   *)
(* events arrive later, perhaps after the composer has been unmounted.     *)
(*                                                                         *)
(* Each mounted composer has a stream and a recorder of its own; those of  *)
(* all the composers gone before it are told apart from its own, but not   *)
(* from one another.  Left out: the level meter, the clock, the chunks.    *)
(***************************************************************************)

VARIABLES
    mounted,        \* whether a composer is on the screen
    mode,           \* what it shows: "voice" or "text"
    phase,          \* RecorderState.phase of its recorder
    machine,        \* its MediaRecorder: state, or "none" while recorderRef is null
    stopping,       \* its MediaRecorder's stop event is on the way
    asking,         \* whose getUserMedia calls are unanswered
    live            \* whose microphone streams are running

recorderVars == <<mounted, mode, phase, machine, stopping, asking, live>>

RecorderPhases == {"idle", "requesting", "recording", "paused", "stopped", "error"}
Owners == {"ours", "gone"}

RecorderInit == /\ mounted = TRUE
                /\ mode = "voice"
                /\ phase = "idle"
                /\ machine = "none"
                /\ stopping = FALSE
                /\ asking = {}
                /\ live = {}

Mount == /\ ~mounted
         /\ mounted' = TRUE
         /\ UNCHANGED <<mode, phase, machine, stopping, asking, live>>

\* The hook's cleanup: tracks stopped, references dropped.
Cleanup == live' = live \ {"ours"} /\ machine' = "none"

\* The hook's cleanup runs; an unanswered getUserMedia call goes on without the composer.
UnmountComposer == /\ mounted
                   /\ mounted' = FALSE
                   /\ mode' = "voice"
                   /\ phase' = "idle"
                   /\ Cleanup /\ stopping' = FALSE
                   /\ asking' = IF asking = {} THEN {} ELSE {"gone"}

\* The recorder is neither asked nor told.
ChooseMode(m) == /\ mounted /\ mode # m
                 /\ mode' = m
                 /\ UNCHANGED <<mounted, phase, machine, stopping, asking, live>>

Voice == mounted /\ mode = "voice"

\* Start recording, or Retry recording: a button the room may disable.
Start == /\ Voice /\ phase \in {"idle", "error"}
         /\ phase' = "requesting"
         /\ asking' = asking \union {"ours"}
         /\ UNCHANGED <<mounted, mode, machine, stopping, live>>

\* getUserMedia resolves: nothing asks whether the composer is still there.
Granted(o) ==
    /\ o \in asking
    /\ asking' = asking \ {o}
    /\ live' = live \union {o}
    /\ IF o = "ours" THEN phase' = "recording" /\ machine' = "recording"
       ELSE UNCHANGED <<phase, machine>>
    /\ UNCHANGED <<mounted, mode, stopping>>

\* Denied, no device, or the recorder could not be made.
Denied(o) ==
    /\ o \in asking
    /\ asking' = asking \ {o}
    /\ IF o = "ours" THEN Cleanup /\ phase' = "error" ELSE UNCHANGED <<live, machine, phase>>
    /\ UNCHANGED <<mounted, mode, stopping>>

PauseRecording == /\ Voice /\ phase = "recording" /\ machine = "recording"
                  /\ machine' = "paused" /\ phase' = "paused"
                  /\ UNCHANGED <<mounted, mode, stopping, asking, live>>

ResumeRecording == /\ Voice /\ phase = "paused" /\ machine = "paused"
                   /\ machine' = "recording" /\ phase' = "recording"
                   /\ UNCHANGED <<mounted, mode, stopping, asking, live>>

Stop == /\ Voice /\ machine \in {"recording", "paused"}
        /\ machine' = "inactive" /\ stopping' = TRUE
        /\ UNCHANGED <<mounted, mode, phase, asking, live>>

\* onstop: the recording becomes a blob to review.
Stopped == /\ stopping
           /\ stopping' = FALSE
           /\ Cleanup /\ phase' = "stopped"
           /\ UNCHANGED <<mounted, mode, asking>>

\* Mutated form: onerror only tells.
FailsUncleaned == /\ machine \in {"recording", "paused"}
                  /\ phase' = "error" /\ stopping' = FALSE
                  /\ UNCHANGED <<mounted, mode, machine, asking, live>>

\* The device fails: onerror cleans up and tells; where the browser also fires
\* the stop event, onstop keeps what was recorded.
DeviceFails == /\ machine \in {"recording", "paused"}
               /\ Cleanup /\ stopping' = FALSE
               /\ phase' \in {"error", "stopped"}
               /\ UNCHANGED <<mounted, mode, asking>>

\* Re-record, or an audio answer submitted.
Reset == /\ Voice /\ phase = "stopped"
         /\ Cleanup /\ phase' = "idle"
         /\ UNCHANGED <<mounted, mode, stopping, asking>>

RecorderNext == \/ \E m \in {"voice", "text"} : ChooseMode(m)
                \/ \E o \in Owners : Granted(o) \/ Denied(o)
                \/ PauseRecording \/ ResumeRecording \/ Stop \/ Stopped \/ DeviceFails

-----------------------------------------------------------------------------
RecorderTypeOK == /\ mounted \in BOOLEAN
                  /\ mode \in {"voice", "text"}
                  /\ phase \in RecorderPhases
                  /\ machine \in {"none", "recording", "paused", "inactive"}
                  /\ stopping \in BOOLEAN
                  /\ asking \subseteq Owners
                  /\ live \subseteq Owners

\* The phase a mounted composer's recorder is in is the truth about its microphone,
\* which is on while recording or paused and then only, and about the answer it
\* waits for, through denials, device failures, late stop events and unmounting; and
\* no pause, resume or stop button is dead.  The phase is shown in voice mode only:
\* a recording goes on, unseen, in text mode.
RecorderHonest ==
    /\ "ours" \in live <=> phase \in {"recording", "paused"}
    /\ "ours" \in live => mounted
    /\ "ours" \in asking <=> phase = "requesting"
    /\ phase \in {"recording", "paused"} /\ ~stopping => machine = phase
=============================================================================
