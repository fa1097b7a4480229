----------------------------- MODULE ResumeLifecycle -----------------------------
(***************************************************************************)
(* What the service promises of each uploaded resume, whatever handlers    *)
(* race and fail: an abstract specification, without requests.  A resume   *)
(* appears once, with its file; its extraction can only come to succeed;   *)
(* its file is taken only while a deletion of it is on its way; and once   *)
(* it has gone it never comes back.                                        *)
(***************************************************************************)
CONSTANT Resumes

VARIABLES
    stage,      \* Resumes -> what has become of it
    files,      \* resumes whose file is stored
    doomed      \* resumes that are being deleted

vars == <<stage, files, doomed>>

Statuses == {"EXTRACTED", "FAILED"}
Stages == {"new", "gone"} \union Statuses

Init == /\ stage = [r \in Resumes |-> "new"]
        /\ files = {}
        /\ doomed = {}

Become(r, s) == stage' = [stage EXCEPT ![r] = s]

\* The file of a resume that has not appeared yet is stored.
Store(r) ==
    /\ stage[r] = "new"
    /\ files' = files \union {r}
    /\ UNCHANGED <<stage, doomed>>

Appear(r, status) ==
    /\ stage[r] = "new"
    /\ r \in files
    /\ Become(r, status)
    /\ UNCHANGED <<files, doomed>>

\* An upload that failed leaves its file or not.
GiveUp(r) ==
    /\ stage[r] = "new"
    /\ Become(r, "gone")
    /\ files' \in {files, files \union {r}, files \ {r}}
    /\ UNCHANGED doomed

\* A repeated extraction succeeds.
Extract(r) ==
    /\ stage[r] = "FAILED"
    /\ Become(r, "EXTRACTED")
    /\ UNCHANGED <<files, doomed>>

Doom(r) ==
    /\ stage[r] \in Statuses
    /\ doomed' = doomed \union {r}
    /\ UNCHANGED <<stage, files>>

\* A deletion takes the file, the resume, or neither, and may end with that.
Delete(r) ==
    /\ r \in doomed
    /\ \/ files' = files \ {r} /\ UNCHANGED stage
       \/ Become(r, "gone") /\ UNCHANGED files
       \/ UNCHANGED <<stage, files>>
    /\ doomed' \in {doomed, doomed \ {r}}

Next == \E r \in Resumes :
            \/ Store(r) \/ GiveUp(r) \/ \E status \in Statuses : Appear(r, status)
            \/ Extract(r) \/ Doom(r) \/ Delete(r)

Spec == Init /\ [][Next]_vars
=================================================================================
