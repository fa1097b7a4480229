----------------------------- MODULE ResumeStorage -----------------------------
(***************************************************************************)
(* Uploaded resumes (services/resumes/service.py): rows in the database    *)
(* and files in an object store, without a common transaction.  A handler  *)
(* is cut at its external calls; it may end at any of them, and a call     *)
(* that fails may have had its effect.                                     *)
(*                                                                         *)
(* A resume is its id: uuid4 never repeats, and the file is stored under a *)
(* path made of it.  Left out: validation (a rejected file has no effect), *)
(* the contents of files and extractions, links and other reads.           *)
(***************************************************************************)
CONSTANTS
    Resumes,                \* bound: ids handed out to uploads
    Requests,               \* handlers that may be in flight at the same time
    LostAcknowledgements    \* whether a commit may be done and yet raise

ASSUME StorageAssumption == LostAcknowledgements \in BOOLEAN

VARIABLES
    rows,           \* Resumes -> extraction_status of the row, "none" without one
    extractions,    \* resumes that have a resume_extractions row
    objects,        \* resumes whose file is in the store
    issued,         \* ids handed out
    request         \* Requests -> the point a handler has reached

vars == <<rows, extractions, objects, issued, request>>

Idle == [at |-> "idle"]

Handler ==
    {Idle}
    \union [at : {"storing", "saving"}, resume : Resumes, text : BOOLEAN]
    \union [at : {"cleaning", "fetching", "extracting", "erasing", "forgetting"},
            resume : Resumes]

Exists(r) == rows[r] # "none"

Init == /\ rows = [r \in Resumes |-> "none"]
        /\ extractions = {}
        /\ objects = {}
        /\ issued = {}
        /\ request = [h \in Requests |-> Idle]

Goto(h, point) == request' = [request EXCEPT ![h] = point]

-----------------------------------------------------------------------------
(* upload_resume: extract in memory, store the file, commit the rows; when *)
(* the commit raises, delete the file again.                               *)

BeginUpload(h, r, text) ==
    /\ request[h] = Idle
    /\ r \notin issued
    /\ issued' = issued \union {r}
    /\ Goto(h, [at |-> "storing", resume |-> r, text |-> text])
    /\ UNCHANGED <<rows, extractions, objects>>

\* Mutated form: a failed upload does not raise.
StoreFailsSilently(h) ==
    /\ request[h].at = "storing"
    /\ Goto(h, [request[h] EXCEPT !.at = "saving"])
    /\ UNCHANGED <<rows, extractions, objects, issued>>

StoreObject(h) ==
    /\ request[h].at = "storing"
    /\ objects' = objects \union {request[h].resume}
    /\ Goto(h, [request[h] EXCEPT !.at = "saving"])
    /\ UNCHANGED <<rows, extractions, issued>>

\* An error or a timeout ends the request; the store may hold the file.
StoreFails(h) ==
    /\ request[h].at = "storing"
    /\ objects' \in {objects, objects \union {request[h].resume}}
    /\ Goto(h, Idle)
    /\ UNCHANGED <<rows, extractions, issued>>

InsertRows(h) ==
    LET r == request[h].resume IN
    /\ rows' = [rows EXCEPT ![r] = IF request[h].text THEN "EXTRACTED" ELSE "FAILED"]
    /\ extractions' = IF request[h].text THEN extractions \union {r} ELSE extractions

CommitUpload(h) ==
    /\ request[h].at = "saving"
    /\ InsertRows(h)
    /\ Goto(h, Idle)
    /\ UNCHANGED <<objects, issued>>

\* The commit raises: before it took effect or, when only its acknowledgement
\* is lost, after.
CommitUploadRaises(h) ==
    /\ request[h].at = "saving"
    /\ \/ UNCHANGED <<rows, extractions>>
       \/ LostAcknowledgements /\ InsertRows(h)
    /\ Goto(h, [at |-> "cleaning", resume |-> request[h].resume])
    /\ UNCHANGED <<objects, issued>>

\* Best-effort: a failure is logged only.
CleanUp(h) ==
    /\ request[h].at = "cleaning"
    /\ objects' \in {objects, objects \ {request[h].resume}}
    /\ Goto(h, Idle)
    /\ UNCHANGED <<rows, extractions, issued>>

-----------------------------------------------------------------------------
(* retry_extraction: not for an EXTRACTED resume; download, extract again, *)
(* commit.  The extraction pipeline may have changed since the upload.     *)

BeginRetry(h, r) ==
    /\ request[h] = Idle
    /\ rows[r] = "FAILED"
    /\ Goto(h, [at |-> "fetching", resume |-> r])
    /\ UNCHANGED <<rows, extractions, objects, issued>>

Fetch(h) ==
    /\ request[h].at = "fetching"
    /\ Goto(h, IF request[h].resume \in objects
               THEN [request[h] EXCEPT !.at = "extracting"] ELSE Idle)
    /\ UNCHANGED <<rows, extractions, objects, issued>>

\* Mutated forms: the update and the insert go through without the row; the
\* FAILED status is written although the loaded one was FAILED.
CommitRetryUnreferenced(h, text) ==
    /\ request[h].at = "extracting"
    /\ extractions' = IF text THEN extractions \union {request[h].resume} ELSE extractions
    /\ rows' = IF text /\ Exists(request[h].resume)
               THEN [rows EXCEPT ![request[h].resume] = "EXTRACTED"] ELSE rows
    /\ Goto(h, Idle)
    /\ UNCHANGED <<objects, issued>>

CommitRetryOverwriting(h, text) ==
    LET r == request[h].resume IN
    /\ request[h].at = "extracting"
    /\ rows' = IF ~Exists(r) THEN rows
               ELSE [rows EXCEPT ![r] = IF text THEN "EXTRACTED" ELSE "FAILED"]
    /\ extractions' = IF text /\ Exists(r) THEN extractions \union {r} ELSE extractions
    /\ Goto(h, Idle)
    /\ UNCHANGED <<objects, issued>>

\* Mutated form: what was loaded is written whether or not the row is there.
CommitRetryMerging(h, text) ==
    LET r == request[h].resume IN
    /\ request[h].at = "extracting"
    /\ IF text /\ r \notin extractions
       THEN /\ rows' = [rows EXCEPT ![r] = "EXTRACTED"]
            /\ extractions' = extractions \union {r}
       ELSE UNCHANGED <<rows, extractions>>
    /\ Goto(h, Idle)
    /\ UNCHANGED <<objects, issued>>

\* With text, the row is updated and an extraction inserted: refused when the
\* row is gone or the resume has an extraction (unique resume_id).  Without
\* text the attributes keep their loaded values and nothing is written.
CommitRetry(h, text) ==
    LET r == request[h].resume IN
    /\ request[h].at = "extracting"
    /\ IF text /\ Exists(r) /\ r \notin extractions
       THEN /\ rows' = [rows EXCEPT ![r] = "EXTRACTED"]
            /\ extractions' = extractions \union {r}
       ELSE UNCHANGED <<rows, extractions>>
    /\ Goto(h, Idle)
    /\ UNCHANGED <<objects, issued>>

-----------------------------------------------------------------------------
(* delete_resume: the file first, then the row, whose extraction cascades. *)

BeginDelete(h, r) ==
    /\ request[h] = Idle
    /\ Exists(r)
    /\ Goto(h, [at |-> "erasing", resume |-> r])
    /\ UNCHANGED <<rows, extractions, objects, issued>>

\* Mutated form: a missing file is an error.
EraseExistingObject(h) ==
    /\ request[h].at = "erasing"
    /\ Goto(h, IF request[h].resume \in objects
               THEN [request[h] EXCEPT !.at = "forgetting"] ELSE Idle)
    /\ objects' = objects \ {request[h].resume}
    /\ UNCHANGED <<rows, extractions, issued>>

\* A missing file (404) counts as erased.
EraseObject(h) ==
    /\ request[h].at = "erasing"
    /\ objects' = objects \ {request[h].resume}
    /\ Goto(h, [request[h] EXCEPT !.at = "forgetting"])
    /\ UNCHANGED <<rows, extractions, issued>>

EraseFails(h) ==
    /\ request[h].at = "erasing"
    /\ objects' \in {objects, objects \ {request[h].resume}}
    /\ Goto(h, Idle)
    /\ UNCHANGED <<rows, extractions, issued>>

DeleteRow(h) ==
    /\ request[h].at = "forgetting"
    /\ rows' = [rows EXCEPT ![request[h].resume] = "none"]
    /\ extractions' = extractions \ {request[h].resume}
    /\ Goto(h, Idle)
    /\ UNCHANGED <<objects, issued>>

-----------------------------------------------------------------------------
\* A disconnect, a crash, or an exception outside the handled ones.
Abort(h) ==
    /\ request[h] # Idle
    /\ Goto(h, Idle)
    /\ UNCHANGED <<rows, extractions, objects, issued>>

Accept(h) == \E r \in Resumes :
                \/ \E text \in BOOLEAN : BeginUpload(h, r, text)
                \/ BeginRetry(h, r)
                \/ BeginDelete(h, r)

Serve(h) == \/ StoreObject(h) \/ StoreFails(h)
            \/ CommitUpload(h) \/ CommitUploadRaises(h) \/ CleanUp(h)
            \/ Fetch(h) \/ \E text \in BOOLEAN : CommitRetry(h, text)
            \/ EraseObject(h) \/ EraseFails(h) \/ DeleteRow(h)

Next == \E h \in Requests : Accept(h) \/ Serve(h) \/ Abort(h)

Spec == Init /\ [][Next]_vars

\* Calls are bounded by timeouts; the user repeats a deletion until it
\* succeeds, and neither store fails every time.
PersistentSpec ==
    /\ Spec
    /\ \A h \in Requests :
          /\ WF_vars(Serve(h))
          /\ \A r \in Resumes : SF_vars(BeginDelete(h, r))
          /\ SF_vars(EraseObject(h))
          /\ SF_vars(DeleteRow(h))

-----------------------------------------------------------------------------
(* A resume as its user sees it: new until an upload has brought it or has  *)
(* ended, gone when it has no row and nobody is bringing one.              *)

Uploads(r) == \E h \in Requests : /\ request[h].at \in {"storing", "saving", "cleaning"}
                                 /\ request[h].resume = r

Deletes(r) == \E h \in Requests : /\ request[h].at \in {"erasing", "forgetting"}
                                 /\ request[h].resume = r

Doomed == {r \in Resumes : Deletes(r)}

Stage == [r \in Resumes |-> IF Exists(r) THEN rows[r]
                            ELSE IF r \notin issued \/ Uploads(r) THEN "new" ELSE "gone"]

Lifecycle == INSTANCE ResumeLifecycle WITH
    stage <- Stage, files <- objects, doomed <- Doomed

\* Every resume appears once and with its file, keeps it unless a deletion is
\* on its way, and once deleted never comes back, although a retry or another
\* deletion may still work from a row read before: a row that is gone is not
\* written, and no id is used twice.
ResumesLive == Lifecycle!Spec

\* Rows have the shapes of their tables; extractions reference resumes.
TypeOK == /\ rows \in [Resumes -> {"none", "EXTRACTED", "FAILED"}]
          /\ extractions \subseteq {r \in Resumes : Exists(r)}
          /\ objects \subseteq issued
          /\ issued \subseteq Resumes
          /\ request \in [Requests -> Handler]

\* A resume is EXTRACTED exactly when it has an extraction: interviews and
\* analyses check the status and then read the extraction, and racing retries
\* and deletions work from a status read long before.
ExtractionMatchesStatus ==
    \A r \in Resumes : rows[r] = "EXTRACTED" <=> r \in extractions

\* Until its rows are committed an upload is the only one to know its resume,
\* and while it commits them the file is in the store.  Ids come from `issued`.
Uploading == {"storing", "saving"} \union (IF LostAcknowledgements THEN {} ELSE {"cleaning"})

UploadsOwnResumes ==
    /\ \A r \in Resumes : Exists(r) => r \in issued
    /\ \A h \in Requests : request[h] # Idle => request[h].resume \in issued
    /\ \A h \in Requests : request[h].at \in Uploading =>
          /\ ~Exists(request[h].resume)
          /\ request[h].at = "saving" => request[h].resume \in objects
          /\ \A o \in Requests \ {h} :
                request[o] # Idle => request[o].resume # request[h].resume

\* A row is never created without its file, and the file of an existing row
\* disappears only through a request to delete that resume (service.py: "a DB
\* row pointing at a nonexistent object is user-visible breakage").
FilesLostOnlyToDeletes ==
    [][/\ \A r \in Resumes : ~Exists(r) /\ Exists(r)' => r \in objects'
       /\ \A r \in objects \ objects' :
             Exists(r)' => \E h \in Requests :
                              request[h] = [at |-> "erasing", resume |-> r]]_vars

\* A deletion that failed after the file was gone can be completed
\* (delete_resume: "so a half-deleted resume can always be fully removed").
HalfDeletedRemovable ==
    \A r \in Resumes : (Exists(r) /\ r \notin objects) ~> ~Exists(r)
=============================================================================
