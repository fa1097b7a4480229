---------------------------- MODULE SectionAutosave ----------------------------
(***************************************************************************)
(* The builder page (BuilderProjectPage.tsx, SectionWorkspace.tsx): it     *)
(* shows one section at a time, keeps a draft per section as long as it is *)
(* open, and saves what the user types through a debounced callback        *)
(* (useDebouncedCallback.ts, useSectionAutosave in features/builder).      *)
(***************************************************************************)
EXTENDS ResumeBuilder

CONSTANT Incomplete         \* a draft the section's schema rejects

ASSUME AutosaveAssumption == Incomplete \notin Contents \union {None}

VARIABLES
    shown,          \* the section whose editor is mounted, None without one
    draft,          \* what the page holds for each section, None when untouched
    armed,          \* content waiting for the debounce timer of the editor
    status,         \* what the editor says of its saves
    mine,           \* requests sent by the mounted editor
    dialog          \* whether the removal dialog is open

pageVars == <<shown, draft, armed, status, mine, dialog>>

Drafts == Contents \union {Incomplete}
Statuses == {"idle", "editing", "saving", "saved", "invalid", "error"}

PageInit == /\ shown \in Types
            /\ draft = [t \in Types |-> None]
            /\ armed = None
            /\ status = "idle"
            /\ mine = {}
            /\ dialog = FALSE

Editing == shown # None /\ ~dialog
NextCall == CHOOSE c \in Numbers : ~Sent(c) /\ \A b \in 1 .. (c - 1) : Sent(b)
CanSend == \E c \in Numbers : ~Sent(c)

\* onChange: the draft is replaced and the timer restarted.  Bound: an edit is
\* made only when a request is left to save it.
Edit(x) ==
    /\ Editing /\ CanSend
    /\ x # draft[shown]
    /\ draft' = [draft EXCEPT ![shown] = x]
    /\ armed' = x
    /\ status' = IF status = "saving" THEN "saving" ELSE "editing"
    /\ UNCHANGED <<builderVars, shown, mine, dialog>>

\* save: validated first; only valid content is sent.
Save(x) == IF x = Incomplete THEN UNCHANGED calls ELSE Send("upsert", shown, x)

\* The timer fires, or the editor loses focus (flush).
Flush ==
    /\ shown # None /\ armed # None
    /\ Save(armed)
    /\ mine' = IF armed = Incomplete THEN mine ELSE mine \union {NextCall}
    /\ status' = IF armed = Incomplete THEN "invalid" ELSE "saving"
    /\ armed' = None
    /\ UNCHANGED <<project, sections, shown, draft, dialog>>

Unmount == /\ shown' = None
           /\ armed' = None
           /\ status' = "idle"
           /\ mine' = {}

\* Mutated form: the timer is cleared, not flushed.
LeaveCancelling ==
    /\ Editing
    /\ Unmount
    /\ UNCHANGED <<builderVars, draft, dialog>>

\* Another section or another panel is chosen: the editor unmounts and flushes.
Leave ==
    /\ Editing
    /\ IF armed = None THEN UNCHANGED calls ELSE Save(armed)
    /\ Unmount
    /\ UNCHANGED <<project, sections, draft, dialog>>

\* The whole page closes: flushed like one editor, and without its drafts. What it
\* has sent goes on.
ClosePage ==
    /\ IF armed = None THEN UNCHANGED calls ELSE Save(armed)
    /\ Unmount
    /\ draft' = [t \in Types |-> None]
    /\ dialog' = FALSE
    /\ UNCHANGED <<project, sections>>

OpenSection(t) ==
    /\ shown = None
    /\ shown' = t
    /\ UNCHANGED <<builderVars, draft, armed, status, mine, dialog>>

\* The promise of a save settles; an unmounted editor shows nothing.
Settle(c) ==
    /\ Answered(c) /\ calls[c].asks.op = "upsert"
    /\ status' = IF c \notin mine THEN status
                 ELSE IF calls[c].at = "done" THEN "saved" ELSE "error"
    /\ calls' = [calls EXCEPT ![c].at = "over"]
    /\ UNCHANGED <<project, sections, shown, draft, armed, mine, dialog>>

\* The bin of a section that the page believes saved: its copy of the project may
\* be older than the table.  The click takes the focus off the editor.
AskRemoval ==
    /\ Editing /\ armed = None
    /\ dialog' = TRUE
    /\ UNCHANGED <<builderVars, shown, draft, armed, status, mine>>

\* Escape closes the dialog even while the deletion is pending.
CloseDialog ==
    /\ dialog
    /\ dialog' = FALSE
    /\ UNCHANGED <<builderVars, shown, draft, armed, status, mine>>

RemovalPending == \E c \in mine : /\ calls[c].asks.op = "delete"
                                  /\ calls[c].at # "over"

ConfirmRemoval ==
    /\ dialog /\ ~RemovalPending /\ CanSend
    /\ Send("delete", shown, None)
    /\ mine' = mine \union {NextCall}
    /\ UNCHANGED <<project, sections, shown, draft, armed, status, dialog>>

\* Success closes the dialog, an error leaves it as it is; the draft stays.
RemovalSettles(c) ==
    /\ Answered(c) /\ calls[c].asks.op = "delete"
    /\ dialog' = (dialog /\ (c \in mine => calls[c].at = "failed"))
    /\ calls' = [calls EXCEPT ![c].at = "over"]
    /\ UNCHANGED <<project, sections, shown, draft, armed, status, mine>>

PageNext == \/ \E x \in Drafts : Edit(x)
            \/ Flush \/ Leave
            \/ \E t \in Types : OpenSection(t)
            \/ AskRemoval \/ CloseDialog \/ ConfirmRemoval
            \/ \E c \in Numbers : Settle(c) \/ RemovalSettles(c)

-----------------------------------------------------------------------------
PageTypeOK ==
    /\ shown \in Types \union {None}
    /\ draft \in [Types -> Drafts \union {None}]
    /\ armed \in Drafts \union {None}
    /\ status \in Statuses
    /\ mine \subseteq Numbers
    /\ dialog \in BOOLEAN

Upserts(t) == {c \in Numbers : /\ Sent(c)
                               /\ calls[c].asks.op = "upsert" /\ calls[c].asks.type = t}

\* Every valid draft is on its way: its timer is armed, or the newest save of
\* its section carries exactly it, whatever was typed, flushed or left in
\* between (useDebouncedCallback.ts: "so the last edit is never lost").
NoEditDropped ==
    \A t \in Types : draft[t] \in Contents =>
       \/ shown = t /\ armed = draft[t]
       \/ \E c \in Upserts(t) : /\ calls[c].asks.content = draft[t]
                                /\ \A d \in Upserts(t) : d <= c
=============================================================================
