-------------------------- MODULE ResumeStorageProofs --------------------------
(***************************************************************************)
(* Proofs about ResumeStorage, for any number of uploads and requests.     *)
(* The status of a resume and its extraction change together in every      *)
(* action; that a file is there when its rows are committed needs the      *)
(* ownership invariant: nobody else knows a resume before its rows exist.  *)
(* The last part shows that every resume lives as ResumeLifecycle says.    *)
(***************************************************************************)
EXTENDS ResumeStorage, TLAPS

\* The inductive invariant.
IInv == TypeOK /\ ExtractionMatchesStatus /\ UploadsOwnResumes

LEMMA InitInvariant == Init => IInv
  BY StorageAssumption DEF Init, IInv, TypeOK, ExtractionMatchesStatus,
     UploadsOwnResumes, Uploading, Exists, Handler, Idle

\* What a handler may do to its own resume while the others look on.
LEMMA StepInvariant == IInv /\ [Next]_vars => IInv'
<1> SUFFICES ASSUME IInv, [Next]_vars PROVE IInv'
  OBVIOUS
<1> USE StorageAssumption DEF IInv
<1>1. ASSUME NEW h \in Requests, NEW r \in Resumes, NEW text \in BOOLEAN,
             BeginUpload(h, r, text)
      PROVE IInv'
  <2>1. TypeOK'
    BY <1>1 DEF BeginUpload, TypeOK, Handler, Goto, Exists, Idle
  <2>2. ExtractionMatchesStatus'
    BY <1>1 DEF BeginUpload, ExtractionMatchesStatus
  <2>3. UploadsOwnResumes'
    BY <1>1 DEF BeginUpload, TypeOK, UploadsOwnResumes, Uploading, Handler, Goto, Exists, Idle
  <2> QED BY <2>1, <2>2, <2>3
<1>2. ASSUME NEW h \in Requests, StoreObject(h) PROVE IInv'
  <2>1. TypeOK'
    BY <1>2 DEF StoreObject, TypeOK, UploadsOwnResumes, Handler, Goto, Exists, Idle
  <2>2. ExtractionMatchesStatus'
    BY <1>2 DEF StoreObject, ExtractionMatchesStatus
  <2>3. UploadsOwnResumes'
    BY <1>2 DEF StoreObject, TypeOK, UploadsOwnResumes, Uploading, Handler, Goto, Exists, Idle
  <2> QED BY <2>1, <2>2, <2>3
<1>3. ASSUME NEW h \in Requests, StoreFails(h) PROVE IInv'
  <2>1. TypeOK'
    BY <1>3 DEF StoreFails, TypeOK, UploadsOwnResumes, Handler, Goto, Exists, Idle
  <2>2. ExtractionMatchesStatus'
    BY <1>3 DEF StoreFails, ExtractionMatchesStatus
  <2>3. UploadsOwnResumes'
    BY <1>3 DEF StoreFails, TypeOK, UploadsOwnResumes, Uploading, Handler, Goto, Exists, Idle
  <2> QED BY <2>1, <2>2, <2>3
<1>4. ASSUME NEW h \in Requests, CommitUpload(h) PROVE IInv'
  <2>1. TypeOK'
    BY <1>4 DEF CommitUpload, InsertRows, TypeOK, UploadsOwnResumes, Handler, Goto, Exists, Idle
  <2>2. ExtractionMatchesStatus'
    BY <1>4 DEF CommitUpload, InsertRows, TypeOK, ExtractionMatchesStatus,
                UploadsOwnResumes, Uploading, Exists, Handler, Idle
  <2>3. UploadsOwnResumes'
    BY <1>4 DEF CommitUpload, InsertRows, TypeOK, UploadsOwnResumes, Uploading, Handler, Goto, Exists, Idle
  <2> QED BY <2>1, <2>2, <2>3
<1>5. ASSUME NEW h \in Requests, CommitUploadRaises(h) PROVE IInv'
  <2>1. TypeOK'
    BY <1>5 DEF CommitUploadRaises, InsertRows, TypeOK, UploadsOwnResumes, Handler, Goto, Exists, Idle
  <2>2. ExtractionMatchesStatus'
    BY <1>5 DEF CommitUploadRaises, InsertRows, TypeOK, ExtractionMatchesStatus,
                UploadsOwnResumes, Uploading, Exists, Handler, Idle
  <2>3. UploadsOwnResumes'
    BY <1>5 DEF CommitUploadRaises, InsertRows, TypeOK, UploadsOwnResumes, Uploading, Handler, Goto, Exists, Idle
  <2> QED BY <2>1, <2>2, <2>3
<1>6. ASSUME NEW h \in Requests, CleanUp(h) PROVE IInv'
  <2>1. TypeOK'
    BY <1>6 DEF CleanUp, TypeOK, UploadsOwnResumes, Handler, Goto, Exists, Idle
  <2>2. ExtractionMatchesStatus'
    BY <1>6 DEF CleanUp, ExtractionMatchesStatus
  <2>3. UploadsOwnResumes'
    BY <1>6 DEF CleanUp, TypeOK, UploadsOwnResumes, Uploading, Handler, Goto, Exists, Idle
  <2> QED BY <2>1, <2>2, <2>3
<1>7. ASSUME NEW h \in Requests, NEW r \in Resumes, BeginRetry(h, r) \/ BeginDelete(h, r)
      PROVE IInv'
  <2>1. TypeOK'
    BY <1>7 DEF BeginRetry, BeginDelete, TypeOK, Handler, Goto, Exists, Idle
  <2>2. ExtractionMatchesStatus'
    BY <1>7 DEF BeginRetry, BeginDelete, ExtractionMatchesStatus
  <2>3. UploadsOwnResumes'
    BY <1>7 DEF BeginRetry, BeginDelete, TypeOK, UploadsOwnResumes, Uploading, Handler, Goto, Exists, Idle
  <2> QED BY <2>1, <2>2, <2>3
<1>8. ASSUME NEW h \in Requests, Fetch(h) PROVE IInv'
  <2>1. TypeOK'
    BY <1>8 DEF Fetch, TypeOK, Handler, Goto, Exists, Idle
  <2>2. ExtractionMatchesStatus'
    BY <1>8 DEF Fetch, ExtractionMatchesStatus
  <2>3. UploadsOwnResumes'
    BY <1>8 DEF Fetch, TypeOK, UploadsOwnResumes, Uploading, Handler, Goto, Exists, Idle
  <2> QED BY <2>1, <2>2, <2>3
<1>9. ASSUME NEW h \in Requests, NEW text \in BOOLEAN, CommitRetry(h, text) PROVE IInv'
  <2>1. TypeOK'
    BY <1>9 DEF CommitRetry, TypeOK, Handler, Goto, Exists, Idle
  <2>2. ExtractionMatchesStatus'
    BY <1>9 DEF CommitRetry, TypeOK, ExtractionMatchesStatus, Exists, Handler, Idle
  <2>3. UploadsOwnResumes'
    BY <1>9 DEF CommitRetry, TypeOK, UploadsOwnResumes, Uploading, Handler, Goto, Exists, Idle
  <2> QED BY <2>1, <2>2, <2>3
<1>10. ASSUME NEW h \in Requests, EraseObject(h) PROVE IInv'
  <2>1. TypeOK'
    BY <1>10 DEF EraseObject, TypeOK, Handler, Goto, Exists, Idle
  <2>2. ExtractionMatchesStatus'
    BY <1>10 DEF EraseObject, ExtractionMatchesStatus
  <2>3. UploadsOwnResumes'
    BY <1>10 DEF EraseObject, TypeOK, UploadsOwnResumes, Uploading, Handler, Goto, Exists, Idle
  <2> QED BY <2>1, <2>2, <2>3
<1>11. ASSUME NEW h \in Requests, EraseFails(h) PROVE IInv'
  <2>1. TypeOK'
    BY <1>11 DEF EraseFails, TypeOK, Handler, Goto, Exists, Idle
  <2>2. ExtractionMatchesStatus'
    BY <1>11 DEF EraseFails, ExtractionMatchesStatus
  <2>3. UploadsOwnResumes'
    BY <1>11 DEF EraseFails, TypeOK, UploadsOwnResumes, Uploading, Handler, Goto, Exists, Idle
  <2> QED BY <2>1, <2>2, <2>3
<1>12. ASSUME NEW h \in Requests, DeleteRow(h) PROVE IInv'
  <2>1. TypeOK'
    BY <1>12 DEF DeleteRow, TypeOK, Handler, Goto, Exists, Idle
  <2>2. ExtractionMatchesStatus'
    BY <1>12 DEF DeleteRow, TypeOK, ExtractionMatchesStatus, Exists, Handler, Idle
  <2>3. UploadsOwnResumes'
    BY <1>12 DEF DeleteRow, TypeOK, UploadsOwnResumes, Uploading, Handler, Goto, Exists, Idle
  <2> QED BY <2>1, <2>2, <2>3
<1>13. ASSUME NEW h \in Requests, Abort(h) PROVE IInv'
  <2>1. TypeOK'
    BY <1>13 DEF Abort, TypeOK, Handler, Goto, Exists, Idle
  <2>2. ExtractionMatchesStatus'
    BY <1>13 DEF Abort, ExtractionMatchesStatus
  <2>3. UploadsOwnResumes'
    BY <1>13 DEF Abort, TypeOK, UploadsOwnResumes, Uploading, Handler, Goto, Exists, Idle
  <2> QED BY <2>1, <2>2, <2>3
<1>14. CASE UNCHANGED vars
  BY <1>14 DEF vars, TypeOK, ExtractionMatchesStatus, UploadsOwnResumes, Exists
<1> QED
  BY <1>1, <1>2, <1>3, <1>4, <1>5, <1>6, <1>7, <1>8, <1>9, <1>10, <1>11, <1>12,
     <1>13, <1>14 DEF Next, Accept, Serve

\* Every reachable state satisfies the inductive invariant.
THEOREM Invariance == Spec => []IInv
  BY InitInvariant, StepInvariant, PTL DEF Spec

\* Rows and handlers keep their types and extractions reference resumes.
THEOREM TypeCorrect == Spec => []TypeOK
  BY Invariance, PTL DEF IInv

\* A resume is EXTRACTED exactly when its extraction is stored, for any number
\* of racing uploads, retries and deletions.
THEOREM StatusMatches == Spec => []ExtractionMatchesStatus
  BY Invariance, PTL DEF IInv

\* An upload owns its resume until its rows are committed.
THEOREM UploadsOwn == Spec => []UploadsOwnResumes
  BY Invariance, PTL DEF IInv

-----------------------------------------------------------------------------
\* The body of FilesLostOnlyToDeletes.
FilesStep ==
    /\ \A r \in Resumes : ~Exists(r) /\ Exists(r)' => r \in objects'
    /\ \A r \in objects \ objects' :
          Exists(r)' => \E h \in Requests :
                           request[h] = [at |-> "erasing", resume |-> r]

\* Only a commit creates rows, only a clean-up or a deletion removes a file; a
\* clean-up runs for a resume without a row, unless a commit was misreported.
LEMMA StepFiles ==
  ASSUME ~LostAcknowledgements, IInv, Next PROVE FilesStep
<1> USE DEF IInv, FilesStep
<1>1. ASSUME NEW h \in Requests,
             \/ \E r \in Resumes, text \in BOOLEAN : BeginUpload(h, r, text)
             \/ \E r \in Resumes : BeginRetry(h, r) \/ BeginDelete(h, r)
             \/ StoreObject(h) \/ StoreFails(h) \/ Fetch(h) \/ Abort(h)
      PROVE FilesStep
  BY <1>1 DEF BeginUpload, BeginRetry, BeginDelete, StoreObject, StoreFails,
              Fetch, Abort, Exists
<1>2. ASSUME NEW h \in Requests, CommitUpload(h) \/ CommitUploadRaises(h)
      PROVE FilesStep
  BY <1>2, ~LostAcknowledgements
     DEF CommitUpload, CommitUploadRaises, InsertRows, Exists, TypeOK, Handler,
         Idle, UploadsOwnResumes, Uploading
<1>3. ASSUME NEW h \in Requests, CleanUp(h) PROVE FilesStep
  BY <1>3, ~LostAcknowledgements DEF CleanUp, Exists, UploadsOwnResumes, Uploading
<1>4. ASSUME NEW h \in Requests, NEW text \in BOOLEAN, CommitRetry(h, text)
      PROVE FilesStep
  BY <1>4 DEF CommitRetry, Exists, TypeOK
<1>5. ASSUME NEW h \in Requests, EraseObject(h) \/ EraseFails(h) PROVE FilesStep
  <2>1. request[h].at = "erasing" /\ request[h] \in Handler
    BY <1>5 DEF EraseObject, EraseFails, TypeOK
  <2>2. request[h] = [at |-> "erasing", resume |-> request[h].resume]
    BY <2>1 DEF Handler, Idle
  <2>3. /\ \A r \in objects \ objects' : r = request[h].resume
        /\ rows' = rows
    BY <1>5 DEF EraseObject, EraseFails
  <2> QED BY <2>2, <2>3 DEF Exists
<1>6. ASSUME NEW h \in Requests, DeleteRow(h) PROVE FilesStep
  BY <1>6 DEF DeleteRow, Exists, TypeOK
<1> QED
  BY <1>1, <1>2, <1>3, <1>4, <1>5, <1>6 DEF Next, Accept, Serve

\* When no commit is misreported, no row is ever without its file unless the
\* resume is being deleted.
THEOREM FilesKept ==
  ASSUME ~LostAcknowledgements PROVE Spec => FilesLostOnlyToDeletes
<1>1. IInv /\ [Next]_vars => [FilesStep]_vars
  BY StepFiles
<1>2. Spec => [][FilesStep]_vars
  BY Invariance, <1>1, PTL DEF Spec
<1> QED BY <1>2 DEF FilesStep, FilesLostOnlyToDeletes
-----------------------------------------------------------------------------
(* Every resume lives as ResumeLifecycle says.                             *)

UploadingAt == {"storing", "saving", "cleaning"}
DeletingAt == {"erasing", "forgetting"}

\* A point of a handler is about a resume.
About(point, r) == point = Idle \/ point.resume = r

\* What a step of a handler about resume x leaves alone: the others.
LEMMA OthersStay ==
  ASSUME TypeOK, TypeOK', NEW h \in Requests, NEW x \in Resumes, NEW point,
         request' = [request EXCEPT ![h] = point], About(request[h], x), About(point, x),
         \A r \in Resumes \ {x} : rows'[r] = rows[r] /\ (r \in issued' <=> r \in issued)
  PROVE  /\ Stage \in [Resumes -> Lifecycle!Stages]
         /\ Stage' = [Stage EXCEPT ![x] = Stage'[x]]
         /\ Doomed' \ {x} = Doomed \ {x}
         /\ Doomed \subseteq Resumes /\ Doomed' \subseteq Resumes
<1>1. request[h] \in Handler /\ point \in Handler /\ request'[h] = point
  BY DEF TypeOK
<1>2. /\ point.at \in UploadingAt \union DeletingAt => point.resume = x
      /\ request[h].at \in UploadingAt \union DeletingAt => request[h].resume = x
  BY <1>1 DEF About, Idle, UploadingAt, DeletingAt
<1>3. \A o \in Requests \ {h} : request'[o] = request[o]
  BY DEF TypeOK
<1>4. \A r \in Resumes \ {x} : (Uploads(r)' <=> Uploads(r)) /\ (Deletes(r)' <=> Deletes(r))
  BY <1>1, <1>2, <1>3 DEF Uploads, Deletes, UploadingAt, DeletingAt
<1>5. \A r \in Resumes \ {x} : Stage'[r] = Stage[r]
  BY <1>4 DEF Stage, Exists
<1>6. Stage \in [Resumes -> Lifecycle!Stages]
  BY DEF Stage, Exists, TypeOK, Lifecycle!Stages, Lifecycle!Statuses
<1>7. Stage' = [r \in Resumes |-> Stage'[r]]
  BY DEF Stage
<1>8. Stage' = [Stage EXCEPT ![x] = Stage'[x]]
  <2> HIDE DEF Stage
  <2> QED
    BY <1>5, <1>6, <1>7
<1> QED
  BY <1>4, <1>6, <1>8 DEF Doomed

\* Whoever uploads a resume is alone with it, so it is new and not doomed; and
\* a resume that a handler reads or deletes is not being uploaded.
LEMMA UploaderAlone ==
  ASSUME ~LostAcknowledgements, IInv, NEW h \in Requests, request[h].at \in UploadingAt
  PROVE  \E x \in Resumes :
            /\ x = request[h].resume /\ x \in issued /\ ~Exists(x)
            /\ request[h].at = "saving" => x \in objects
            /\ Stage[x] = "new" /\ x \notin Doomed
            /\ \A o \in Requests \ {h} : request[o] # Idle => request[o].resume # x
<1>1. request[h] \in Handler /\ request[h] # Idle /\ request[h].resume \in Resumes
  BY DEF IInv, TypeOK, Handler, Idle, UploadingAt
<1>2. UploadingAt = Uploading
  BY ~LostAcknowledgements DEF UploadingAt, Uploading
<1>3. /\ request[h].resume \in issued /\ ~Exists(request[h].resume)
      /\ request[h].at = "saving" => request[h].resume \in objects
      /\ \A o \in Requests \ {h} : request[o] # Idle => request[o].resume # request[h].resume
  BY <1>1, <1>2 DEF IInv, UploadsOwnResumes
<1>4. Uploads(request[h].resume)
  BY DEF Uploads, UploadingAt
<1>5. ~Deletes(request[h].resume)
  BY <1>3 DEF Deletes, UploadingAt, Idle
<1> QED
  BY <1>1, <1>3, <1>4, <1>5 DEF Stage, Doomed

LEMMA NotUploading ==
  ASSUME ~LostAcknowledgements, IInv, NEW x \in Resumes,
         Exists(x) \/ \E h \in Requests : /\ request[h] # Idle
                                          /\ request[h].at \notin UploadingAt
                                          /\ request[h].resume = x
  PROVE  ~Uploads(x) /\ x \in issued
<1>1. UploadingAt = Uploading
  BY ~LostAcknowledgements DEF UploadingAt, Uploading
<1>2. ASSUME Uploads(x) PROVE FALSE
  <2>1. PICK o \in Requests : request[o].at \in Uploading /\ request[o].resume = x
    BY <1>1, <1>2 DEF Uploads, UploadingAt
  <2>2. ~Exists(x) /\ \A h \in Requests \ {o} : request[h] # Idle => request[h].resume # x
    BY <2>1 DEF IInv, UploadsOwnResumes
  <2> QED
    BY <1>1, <2>1, <2>2
<1> QED
  BY <1>2 DEF IInv, UploadsOwnResumes

\* A step of the lifecycle or a stutter.
Lives == Lifecycle!Next \/ UNCHANGED Lifecycle!vars

\* The next step of an upload changes the stage of its resume only.
LEMMA UploadStep ==
  ASSUME ~LostAcknowledgements, IInv, IInv', NEW h \in Requests, NEW x \in Resumes, NEW point,
         request[h].at \in UploadingAt, request[h].resume = x,
         request' = [request EXCEPT ![h] = point], About(point, x), point.at \notin DeletingAt,
         \A r \in Resumes \ {x} : rows'[r] = rows[r], issued' = issued
  PROVE  /\ Doomed' = Doomed
         /\ Stage \in [Resumes -> Lifecycle!Stages]
         /\ Stage' = [Stage EXCEPT ![x] = IF Exists(x)' THEN rows'[x]
                                         ELSE IF point.at \in UploadingAt THEN "new" ELSE "gone"]
<1>1. /\ x \in issued /\ x \notin Doomed
      /\ \A o \in Requests \ {h} : request[o] # Idle => request[o].resume # x
  BY UploaderAlone
<1>2. Stage' = [Stage EXCEPT ![x] = Stage'[x]] /\ Doomed' \ {x} = Doomed \ {x}
      /\ Stage \in [Resumes -> Lifecycle!Stages]
  BY OthersStay DEF IInv, About
<1>3. request'[h] = point /\ \A o \in Requests \ {h} : request'[o] = request[o]
  BY DEF IInv, TypeOK
<1>4. ~Deletes(x)'
  BY <1>1, <1>3 DEF Deletes, DeletingAt, Idle
<1>5. Uploads(x)' <=> point.at \in UploadingAt
  <2>1. point.at \in UploadingAt => point.resume = x
    BY DEF About, Idle, UploadingAt
  <2> QED
    BY <1>1, <1>3, <2>1 DEF Uploads, UploadingAt, Idle
<1>6. Doomed' = Doomed
  <2>1. x \notin Doomed'
    BY <1>4 DEF Doomed
  <2>2. Doomed' \ {x} = Doomed \ {x} /\ x \notin Doomed
    BY <1>1, <1>2
  <2> HIDE DEF Doomed
  <2> QED
    BY <2>1, <2>2
<1>7. Stage'[x] = IF Exists(x)' THEN rows'[x]
                  ELSE IF point.at \in UploadingAt THEN "new" ELSE "gone"
  BY <1>1, <1>5 DEF Stage
<1> QED
  BY <1>2, <1>6, <1>7

\* Steps of an upload, those that end it early included.
LEMMA UploadLives ==
  ASSUME ~LostAcknowledgements, IInv, IInv', NEW h \in Requests,
         \/ \E r \in Resumes, text \in BOOLEAN : BeginUpload(h, r, text)
         \/ StoreObject(h) \/ StoreFails(h) \/ CommitUpload(h) \/ CommitUploadRaises(h)
         \/ CleanUp(h)
         \/ request[h].at \in UploadingAt /\ Abort(h)
  PROVE  Lives
<1>1. ASSUME NEW x \in Resumes, NEW text \in BOOLEAN, BeginUpload(h, x, text)
      PROVE  Lives
  <2> DEFINE point == [at |-> "storing", resume |-> x, text |-> text]
  <2>1. /\ request[h] = Idle /\ x \notin issued /\ issued' = issued \union {x}
        /\ request' = [request EXCEPT ![h] = point]
        /\ UNCHANGED <<rows, objects>>
    BY <1>1 DEF BeginUpload, Goto
  <2>2. request'[h] = point /\ About(request[h], x) /\ About(point, x)
    BY <2>1 DEF IInv, TypeOK, About
  <2>3. ~Exists(x) /\ ~Exists(x)'
    BY <2>1 DEF IInv, UploadsOwnResumes, Exists
  <2>4. Uploads(x)'
    BY <2>2 DEF Uploads
  <2>5. Stage[x] = "new" /\ Stage'[x] = "new"
    BY <2>1, <2>3, <2>4 DEF Stage
  <2>6. x \notin Doomed /\ x \notin Doomed'
    <3>1. ~Deletes(x)
      BY <2>1 DEF Deletes, IInv, UploadsOwnResumes, Idle
    <3>2. \A o \in Requests \ {h} : request'[o] = request[o]
      BY <2>1 DEF IInv, TypeOK
    <3>3. ~Deletes(x)'
      BY <2>2, <3>1, <3>2 DEF Deletes
    <3> QED
      BY <3>1, <3>3 DEF Doomed
  <2>7. Stage' = [Stage EXCEPT ![x] = Stage'[x]] /\ Doomed' \ {x} = Doomed \ {x}
        /\ Stage \in [Resumes -> Lifecycle!Stages]
    <3> HIDE DEF point
    <3> QED
      BY <2>1, <2>2, OthersStay DEF IInv
  <2>8. Stage' = Stage /\ Doomed' = Doomed
    <3> HIDE DEF Stage, Doomed
    <3> QED
      BY <2>5, <2>6, <2>7
  <2> QED
    BY <2>1, <2>8 DEF Lives, Lifecycle!vars
<1>2. CASE request[h].at \in UploadingAt
  <2>1. PICK x \in Resumes :
           /\ x = request[h].resume /\ ~Exists(x) /\ Stage[x] = "new"
           /\ request[h].at = "saving" => x \in objects
    BY <1>2, UploaderAlone
  <2>2. CASE StoreObject(h)
    <3> DEFINE point == [request[h] EXCEPT !.at = "saving"]
    <3>1. request[h] \in [at : {"storing", "saving"}, resume : Resumes, text : BOOLEAN]
      BY <2>2 DEF StoreObject, IInv, TypeOK, Handler, Idle
    <3>2. point.at = "saving" /\ point.resume = x
      BY <2>1, <3>1
    <3>3. /\ request' = [request EXCEPT ![h] = point] /\ objects' = objects \union {x}
          /\ rows' = rows /\ issued' = issued
      BY <2>1, <2>2 DEF StoreObject, Goto
    <3>4. Doomed' = Doomed /\ Stage \in [Resumes -> Lifecycle!Stages]
          /\ Stage' = [Stage EXCEPT ![x] = "new"]
      <4>1. About(point, x) /\ point.at \notin DeletingAt /\ point.at \in UploadingAt
            /\ ~Exists(x)'
        BY <2>1, <3>2, <3>3 DEF About, DeletingAt, UploadingAt, Exists
      <4> HIDE DEF point
      <4> QED
        BY <1>2, <2>1, <3>3, <4>1, UploadStep
    <3>5. Lifecycle!Store(x)
      BY <2>1, <3>3, <3>4 DEF Lifecycle!Store
    <3> QED
      BY <3>5 DEF Lives, Lifecycle!Next
  <2>3. ASSUME request' = [request EXCEPT ![h] = Idle], rows' = rows, issued' = issued,
               objects' \in {objects, objects \union {x}, objects \ {x}}
        PROVE  Lives
    <3>1. About(Idle, x) /\ Idle.at \notin DeletingAt /\ Idle.at \notin UploadingAt
          /\ ~Exists(x)'
      BY <2>1, <2>3 DEF About, DeletingAt, UploadingAt, Exists, Idle
    <3>2. Doomed' = Doomed /\ Stage' = [Stage EXCEPT ![x] = "gone"]
      BY <1>2, <2>1, <2>3, <3>1, UploadStep
    <3>3. Lifecycle!GiveUp(x)
      BY <2>1, <2>3, <3>2 DEF Lifecycle!GiveUp, Lifecycle!Become
    <3> QED
      BY <3>3 DEF Lives, Lifecycle!Next
  <2>4. CASE StoreFails(h) \/ CleanUp(h) \/ Abort(h)
    BY <2>1, <2>3, <2>4 DEF StoreFails, CleanUp, Abort, Goto
  <2>5. CASE CommitUpload(h)
    <3> DEFINE status == IF request[h].text THEN "EXTRACTED" ELSE "FAILED"
    <3>1. /\ request[h].at = "saving" /\ request' = [request EXCEPT ![h] = Idle]
          /\ rows' = [rows EXCEPT ![x] = status] /\ issued' = issued /\ objects' = objects
      BY <2>1, <2>5 DEF CommitUpload, InsertRows, Goto
    <3>2. status \in Lifecycle!Statuses /\ status # "none"
      BY DEF Lifecycle!Statuses
    <3> HIDE DEF status
    <3>3. PICK s : s = status
      OBVIOUS
    <3>4. About(Idle, x) /\ Idle.at \notin DeletingAt /\ Exists(x)' /\ rows'[x] = s
      BY <3>1, <3>2, <3>3 DEF About, DeletingAt, Exists, Idle, IInv, TypeOK
    <3>5. \A r \in Resumes \ {x} : rows'[r] = rows[r]
      BY <3>1 DEF IInv, TypeOK
    <3>6. Doomed' = Doomed /\ Stage' = [Stage EXCEPT ![x] = s]
      BY <1>2, <2>1, <3>1, <3>4, <3>5, UploadStep
    <3>7. Lifecycle!Appear(x, s)
      BY <2>1, <3>1, <3>6 DEF Lifecycle!Appear, Lifecycle!Become
    <3> QED
      BY <3>2, <3>3, <3>7 DEF Lives, Lifecycle!Next
  <2>6. CASE CommitUploadRaises(h)
    <3> DEFINE point == [at |-> "cleaning", resume |-> x]
    <3>1. /\ request' = [request EXCEPT ![h] = point]
          /\ rows' = rows /\ issued' = issued /\ objects' = objects
      BY <2>1, <2>6, ~LostAcknowledgements DEF CommitUploadRaises, Goto
    <3>2. About(point, x) /\ point.at \notin DeletingAt /\ point.at \in UploadingAt
          /\ ~Exists(x)'
      BY <2>1, <3>1 DEF About, DeletingAt, UploadingAt, Exists
    <3> HIDE DEF point
    <3>3. Doomed' = Doomed /\ Stage \in [Resumes -> Lifecycle!Stages]
          /\ Stage' = [Stage EXCEPT ![x] = "new"]
      BY <1>2, <2>1, <3>1, <3>2, UploadStep
    <3>4. Stage' = Stage
      <4> HIDE DEF Stage
      <4> QED
        BY <2>1, <3>3
    <3> QED
      BY <3>1, <3>3, <3>4 DEF Lives, Lifecycle!vars
  <2> QED
    BY <1>1, <2>2, <2>4, <2>5, <2>6
<1>3. CASE request[h].at \notin UploadingAt
  BY <1>1, <1>3 DEF StoreObject, StoreFails, CommitUpload, CommitUploadRaises, CleanUp,
                    UploadingAt
<1> QED
  BY <1>2, <1>3

\* The next step of a deletion ends it or not, and may remove the resume.
LEMMA DeletionStep ==
  ASSUME ~LostAcknowledgements, IInv, IInv', NEW h \in Requests, NEW x \in Resumes, NEW point,
         request[h].at \in DeletingAt, request[h].resume = x,
         request' = [request EXCEPT ![h] = point], About(point, x), point.at \notin UploadingAt,
         \/ rows' = rows
         \/ rows' = [rows EXCEPT ![x] = "none"],
         issued' = issued
  PROVE  /\ x \in Doomed
         /\ Doomed' \in {Doomed, Doomed \ {x}}
         /\ rows' = rows => Stage' = Stage
         /\ rows' # rows => Stage' = [Stage EXCEPT ![x] = "gone"]
<1>1. request[h] # Idle /\ request[h].at \notin UploadingAt
  BY DEF DeletingAt, UploadingAt, Idle
<1>2. ~Uploads(x) /\ x \in issued
  BY <1>1, NotUploading
<1>3. request'[h] = point /\ \A o \in Requests \ {h} : request'[o] = request[o]
  BY DEF IInv, TypeOK
<1>4. ~Uploads(x)'
  BY <1>2, <1>3 DEF Uploads, UploadingAt
<1>5. Stage[x] = (IF Exists(x) THEN rows[x] ELSE "gone")
      /\ Stage'[x] = (IF Exists(x)' THEN rows'[x] ELSE "gone")
  BY <1>2, <1>4 DEF Stage
<1>6. \A r \in Resumes \ {x} : rows'[r] = rows[r]
  BY DEF IInv, TypeOK
<1>7. /\ Stage \in [Resumes -> Lifecycle!Stages]
      /\ Stage' = [Stage EXCEPT ![x] = Stage'[x]]
      /\ Doomed' \ {x} = Doomed \ {x}
  BY <1>6, OthersStay DEF IInv, About
<1>8. x \in Doomed
  BY DEF Doomed, Deletes, DeletingAt
<1>9. Doomed' \in {Doomed, Doomed \ {x}}
  <2>1. Doomed' \ {x} = Doomed \ {x}
    BY <1>7
  <2> HIDE DEF Doomed
  <2>2. CASE x \in Doomed'
    BY <1>8, <2>1, <2>2
  <2>3. CASE x \notin Doomed'
    BY <2>1, <2>3
  <2> QED
    BY <2>2, <2>3
<1>10. ASSUME rows' = rows PROVE Stage' = Stage
  <2>1. Stage'[x] = Stage[x]
    BY <1>5, <1>10 DEF Exists
  <2>2. Stage' = [Stage EXCEPT ![x] = Stage'[x]] /\ Stage \in [Resumes -> Lifecycle!Stages]
    BY <1>7
  <2> HIDE DEF Stage
  <2> QED
    BY <2>1, <2>2
<1>11. ASSUME rows' # rows PROVE Stage' = [Stage EXCEPT ![x] = "gone"]
  <2>1. rows'[x] = "none"
    BY <1>11 DEF IInv, TypeOK
  <2>2. Stage'[x] = "gone"
    BY <1>5, <2>1 DEF Exists
  <2> QED
    BY <1>7, <2>2
<1> QED
  BY <1>8, <1>9, <1>10, <1>11

\* Steps of a deletion, those that end it early included.
LEMMA DeletionLives ==
  ASSUME ~LostAcknowledgements, IInv, IInv', NEW h \in Requests, request[h].at \in DeletingAt,
         EraseObject(h) \/ EraseFails(h) \/ DeleteRow(h) \/ Abort(h)
  PROVE  Lives
<1>1. request[h] \in [at : {"cleaning", "fetching", "extracting", "erasing", "forgetting"},
                     resume : Resumes]
  BY DEF IInv, TypeOK, Handler, Idle, DeletingAt
<1>2. PICK x \in Resumes : x = request[h].resume
  BY <1>1
<1>3. About(Idle, x) /\ Idle.at \notin UploadingAt
  BY DEF About, UploadingAt, Idle
<1>4. ASSUME NEW point, request' = [request EXCEPT ![h] = point], About(point, x),
             point.at \notin UploadingAt, rows' = rows, issued' = issued,
             objects' \in {objects, objects \ {x}}
      PROVE  Lives
  <2>1. x \in Doomed /\ Doomed' \in {Doomed, Doomed \ {x}} /\ Stage' = Stage
    BY <1>2, <1>4, DeletionStep
  <2>2. Lifecycle!Delete(x)
    BY <1>4, <2>1 DEF Lifecycle!Delete
  <2> QED
    BY <2>2 DEF Lives, Lifecycle!Next
<1>5. CASE EraseObject(h)
  <2> DEFINE point == [request[h] EXCEPT !.at = "forgetting"]
  <2>1. point.at \notin UploadingAt /\ About(point, x)
    BY <1>1, <1>2 DEF About, UploadingAt
  <2>2. /\ request' = [request EXCEPT ![h] = point] /\ objects' = objects \ {x}
        /\ rows' = rows /\ issued' = issued
    BY <1>2, <1>5 DEF EraseObject, Goto
  <2> HIDE DEF point
  <2> QED
    BY <1>4, <2>1, <2>2
<1>6. CASE EraseFails(h) \/ Abort(h)
  <2>1. /\ request' = [request EXCEPT ![h] = Idle] /\ objects' \in {objects, objects \ {x}}
        /\ rows' = rows /\ issued' = issued
    BY <1>2, <1>6 DEF EraseFails, Abort, Goto
  <2> QED
    BY <1>3, <1>4, <2>1
<1>7. CASE DeleteRow(h)
  <2>1. /\ request' = [request EXCEPT ![h] = Idle] /\ rows' = [rows EXCEPT ![x] = "none"]
        /\ objects' = objects /\ issued' = issued
    BY <1>2, <1>7 DEF DeleteRow, Goto
  <2>2. CASE rows' = rows
    BY <1>3, <1>4, <2>1, <2>2
  <2>3. CASE rows' # rows
    <3>1. /\ x \in Doomed /\ Doomed' \in {Doomed, Doomed \ {x}}
          /\ Stage' = [Stage EXCEPT ![x] = "gone"]
      BY <1>2, <1>3, <2>1, <2>3, DeletionStep
    <3>2. Lifecycle!Delete(x)
      BY <2>1, <3>1 DEF Lifecycle!Delete, Lifecycle!Become
    <3> QED
      BY <3>2 DEF Lives, Lifecycle!Next
  <2> QED
    BY <2>2, <2>3
<1> QED
  BY <1>5, <1>6, <1>7

\* Steps of a retry, and the beginning of a deletion: what was read may be out
\* of date, but only a row that is there and FAILED is written.
LEMMA RetryLives ==
  ASSUME ~LostAcknowledgements, IInv, IInv', NEW h \in Requests,
         \/ \E r \in Resumes : BeginRetry(h, r) \/ BeginDelete(h, r)
         \/ Fetch(h) \/ \E text \in BOOLEAN : CommitRetry(h, text)
         \/ request[h].at \in {"fetching", "extracting"} /\ Abort(h)
  PROVE  Lives
<1>1. ASSUME NEW x \in Resumes, NEW point, request' = [request EXCEPT ![h] = point],
             About(request[h], x), About(point, x),
             request[h].at \notin UploadingAt \union DeletingAt, point.at \notin UploadingAt,
             Exists(x) \/ request[h] # Idle,
             \/ rows' = rows
             \/ /\ rows[x] = "FAILED" /\ rows' = [rows EXCEPT ![x] = "EXTRACTED"]
                /\ point.at \notin DeletingAt,
             point.at \in DeletingAt => Exists(x),
             issued' = issued, objects' = objects
      PROVE  Lives
  <2>1. ~Uploads(x) /\ x \in issued
    BY <1>1, NotUploading DEF About
  <2>2. request'[h] = point /\ \A o \in Requests \ {h} : request'[o] = request[o]
    BY <1>1 DEF IInv, TypeOK
  <2>3. ~Uploads(x)'
    BY <1>1, <2>1, <2>2 DEF Uploads, UploadingAt
  <2>4. Stage[x] = (IF Exists(x) THEN rows[x] ELSE "gone")
        /\ Stage'[x] = (IF Exists(x)' THEN rows'[x] ELSE "gone")
    BY <1>1, <2>1, <2>3 DEF Stage
  <2>5. \A r \in Resumes \ {x} : rows'[r] = rows[r]
    BY <1>1 DEF IInv, TypeOK
  <2>6. /\ Stage \in [Resumes -> Lifecycle!Stages]
        /\ Stage' = [Stage EXCEPT ![x] = Stage'[x]]
        /\ Doomed' \ {x} = Doomed \ {x}
    BY <1>1, <2>5, OthersStay DEF IInv
  <2>7. x \in Doomed => x \in Doomed'
    BY <1>1, <2>2 DEF Doomed, Deletes, DeletingAt
  <2>8. point.at \notin DeletingAt => (x \in Doomed' => x \in Doomed)
    BY <1>1, <2>2 DEF Doomed, Deletes, DeletingAt
  <2>9. Doomed' \in {Doomed, Doomed \union {x}} /\ (point.at \notin DeletingAt => Doomed' = Doomed)
    <3>1. Doomed' \ {x} = Doomed \ {x}
      BY <2>6
    <3> HIDE DEF Doomed
    <3>2. CASE x \in Doomed
      BY <2>7, <3>1, <3>2
    <3>3. CASE x \notin Doomed
      BY <2>8, <3>1, <3>3
    <3> QED
      BY <3>2, <3>3
  <2>10. CASE rows' = rows
    <3>1. Stage'[x] = Stage[x]
      BY <2>4, <2>10 DEF Exists
    <3>2. Stage' = Stage
      <4> HIDE DEF Stage
      <4> QED
        BY <2>6, <3>1
    <3>3. CASE Doomed' = Doomed
      BY <1>1, <3>2, <3>3 DEF Lives, Lifecycle!vars
    <3>4. CASE Doomed' # Doomed
      <4>1. Exists(x) /\ Doomed' = Doomed \union {x}
        BY <1>1, <2>9, <3>4
      <4>2. Stage[x] \in Lifecycle!Statuses
        BY <2>4, <4>1 DEF Exists, IInv, TypeOK, Lifecycle!Statuses
      <4>3. Lifecycle!Doom(x)
        BY <1>1, <3>2, <4>1, <4>2 DEF Lifecycle!Doom
      <4> QED
        BY <4>3 DEF Lives, Lifecycle!Next
    <3> QED
      BY <3>3, <3>4
  <2>11. CASE rows' # rows
    <3>1. /\ rows[x] = "FAILED" /\ rows'[x] = "EXTRACTED" /\ Doomed' = Doomed
      BY <1>1, <2>9, <2>11 DEF IInv, TypeOK
    <3>2. Stage[x] = "FAILED" /\ Stage'[x] = "EXTRACTED"
      BY <2>4, <3>1 DEF Exists
    <3>3. Stage' = [Stage EXCEPT ![x] = "EXTRACTED"]
      BY <2>6, <3>2
    <3>4. Lifecycle!Extract(x)
      BY <1>1, <3>1, <3>2, <3>3 DEF Lifecycle!Extract, Lifecycle!Become
    <3> QED
      BY <3>4 DEF Lives, Lifecycle!Next
  <2> QED
    BY <2>10, <2>11
<1>2. About(Idle, Idle) /\ Idle.at \notin UploadingAt \union DeletingAt
      /\ \A r : About(Idle, r)
  BY DEF About, UploadingAt, DeletingAt, Idle
<1>3. ASSUME NEW x \in Resumes, BeginRetry(h, x) \/ BeginDelete(h, x)
      PROVE  Lives
  <2>1. PICK point \in {[at |-> "fetching", resume |-> x], [at |-> "erasing", resume |-> x]} :
           request' = [request EXCEPT ![h] = point]
    BY <1>3 DEF BeginRetry, BeginDelete, Goto
  <2>2. /\ request[h] = Idle /\ Exists(x)
        /\ UNCHANGED <<rows, objects, issued>>
    BY <1>3 DEF BeginRetry, BeginDelete, Exists
  <2>3. About(point, x) /\ point.at \notin UploadingAt
    BY <2>1 DEF About, UploadingAt
  <2> QED
    BY <1>1, <1>2, <2>1, <2>2, <2>3
<1>4. ASSUME request[h].at \in {"fetching", "extracting"}
      PROVE  \E x \in Resumes :
                /\ x = request[h].resume /\ About(request[h], x) /\ request[h] # Idle
                /\ request[h].at \notin UploadingAt \union DeletingAt
                /\ request[h] \in [at : {"cleaning", "fetching", "extracting", "erasing",
                                        "forgetting"}, resume : Resumes]
  <2>1. request[h] \in [at : {"cleaning", "fetching", "extracting", "erasing", "forgetting"},
                         resume : Resumes]
    BY <1>4 DEF IInv, TypeOK, Handler, Idle
  <2> QED
    BY <1>4, <2>1 DEF About, UploadingAt, DeletingAt, Idle
<1>5. CASE Fetch(h)
  <2>1. PICK x \in Resumes :
           /\ x = request[h].resume /\ About(request[h], x) /\ request[h] # Idle
           /\ request[h].at \notin UploadingAt \union DeletingAt
           /\ request[h] \in [at : {"cleaning", "fetching", "extracting", "erasing",
                                   "forgetting"}, resume : Resumes]
    BY <1>4, <1>5 DEF Fetch
  <2>2. PICK point \in {Idle, [request[h] EXCEPT !.at = "extracting"]} :
           request' = [request EXCEPT ![h] = point]
    BY <1>5 DEF Fetch, Goto
  <2>3. About(point, x) /\ point.at \notin UploadingAt \union DeletingAt
    BY <1>2, <2>1, <2>2 DEF About, UploadingAt, DeletingAt
  <2>4. UNCHANGED <<rows, objects, issued>>
    BY <1>5 DEF Fetch
  <2> QED
    BY <1>1, <2>1, <2>2, <2>3, <2>4
<1>6. CASE Abort(h) /\ request[h].at \in {"fetching", "extracting"}
  <2>1. PICK x \in Resumes :
           /\ x = request[h].resume /\ About(request[h], x) /\ request[h] # Idle
           /\ request[h].at \notin UploadingAt \union DeletingAt
    BY <1>4, <1>6
  <2>2. request' = [request EXCEPT ![h] = Idle] /\ UNCHANGED <<rows, objects, issued>>
    BY <1>6 DEF Abort, Goto
  <2> QED
    BY <1>1, <1>2, <2>1, <2>2
<1>7. ASSUME NEW text \in BOOLEAN, CommitRetry(h, text)
      PROVE  Lives
  <2>1. PICK x \in Resumes :
           /\ x = request[h].resume /\ About(request[h], x) /\ request[h] # Idle
           /\ request[h].at \notin UploadingAt \union DeletingAt
    BY <1>4, <1>7 DEF CommitRetry
  <2>2. /\ request' = [request EXCEPT ![h] = Idle] /\ UNCHANGED <<objects, issued>>
        /\ \/ rows' = rows
           \/ Exists(x) /\ x \notin extractions /\ rows' = [rows EXCEPT ![x] = "EXTRACTED"]
    BY <1>7, <2>1 DEF CommitRetry, Goto
  <2>3. Exists(x) /\ x \notin extractions => rows[x] = "FAILED"
    BY DEF IInv, ExtractionMatchesStatus, TypeOK, Exists
  <2> QED
    BY <1>1, <1>2, <2>1, <2>2, <2>3
<1> QED
  BY <1>3, <1>5, <1>6, <1>7

LEMMA LifecycleBegins == Init => Lifecycle!Init
<1> SUFFICES ASSUME Init
             PROVE  Lifecycle!Init
  OBVIOUS
<1>1. \A r \in Resumes : ~Exists(r) /\ r \notin issued /\ ~Deletes(r)
  BY DEF Init, Exists, Deletes, Idle
<1>2. objects = {}
  BY DEF Init
<1> QED
  BY <1>1, <1>2 DEF Lifecycle!Init, Stage, Doomed

LEMMA StepLives ==
  ASSUME ~LostAcknowledgements, IInv, IInv', [Next]_vars
  PROVE  [Lifecycle!Next]_(Lifecycle!vars)
<1>1. CASE UNCHANGED vars
  BY <1>1 DEF vars, Lifecycle!vars, Stage, Doomed, Uploads, Deletes, Exists
<1>2. ASSUME NEW h \in Requests, Accept(h) \/ Serve(h) \/ Abort(h)
      PROVE  Lives
  <2>1. CASE Accept(h)
    BY <2>1, UploadLives, RetryLives DEF Accept
  <2>2. CASE Serve(h)
    <3>1. EraseObject(h) \/ EraseFails(h) \/ DeleteRow(h) => request[h].at \in DeletingAt
      BY DEF EraseObject, EraseFails, DeleteRow, DeletingAt
    <3> QED
      BY <2>2, <3>1, UploadLives, RetryLives, DeletionLives DEF Serve
  <2>3. CASE Abort(h)
    <3>1. request[h].at \in UploadingAt \union {"fetching", "extracting"} \union DeletingAt
      BY <2>3 DEF Abort, IInv, TypeOK, Handler, UploadingAt, DeletingAt
    <3> QED
      BY <2>3, <3>1, UploadLives, RetryLives, DeletionLives
  <2> QED
    BY <1>2, <2>1, <2>2, <2>3
<1> QED
  BY <1>1, <1>2 DEF Next, Lives

\* When no commit is misreported every resume lives as it should, whatever
\* handlers race and fail, and for any number of both: it appears with its
\* file, loses it only to a deletion, and never comes back.
THEOREM ResumesLiveOn ==
  ASSUME ~LostAcknowledgements PROVE Spec => ResumesLive
<1>1. IInv /\ IInv' /\ [Next]_vars => [Lifecycle!Next]_(Lifecycle!vars)
  BY StepLives
<1> QED
  BY <1>1, LifecycleBegins, Invariance, PTL DEF Spec, ResumesLive, Lifecycle!Spec
=============================================================================
