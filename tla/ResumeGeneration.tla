--------------------------- MODULE ResumeGeneration ---------------------------
(***************************************************************************)
(* PDF generations of a builder project (services/resume_generation): the  *)
(* sections are read once, then every phase is committed before its work   *)
(* begins, and the finished PDF is put in a bucket before COMPLETED is     *)
(* committed.  Requests run side by side and beside the section requests.  *)
(*                                                                         *)
(* Left out: what the PDF says, LaTeX, the row's other columns (warnings,  *)
(* durations, page counts), the rate limit (RateLimiter), and the          *)
(* templates but for whether the chosen one is approved.                   *)
(***************************************************************************)
EXTENDS ResumeBuilder

CONSTANTS PersonalInfo,     \* the section no resume goes without
          Generations       \* bound: generation requests

ASSUME GenerationAssumption == PersonalInfo \in Types

Phases == {"PENDING", "RENDERING", "COMPILING", "VALIDATING", "UPLOADING"}
Categories == {"RENDERING", "INPUT_NORMALIZATION", "COMPILER", "VALIDATION", "STORAGE"}

VARIABLES rows,         \* Generations -> status and failure_category, None without a row
          work,         \* Generations -> the point its handler has reached
          bucket        \* generations whose PDF is stored

generationVars == <<rows, work, bucket>>

Row(s, why) == [status |-> s, category |-> why]

GenerationInit == /\ rows = [g \in Generations |-> None]
                  /\ work = [g \in Generations |-> "unused"]
                  /\ bucket = {}

Goto(g, point) == work' = [work EXCEPT ![g] = point]

\* Refused before any row exists: no project (404), no approved template (404),
\* no personal information or nothing else (409).
RefuseGeneration(g, approved) ==
    /\ work[g] = "unused"
    /\ \/ project = "DELETED"
       \/ ~approved
       \/ PersonalInfo \notin StoredTypes
       \/ Cardinality(StoredTypes) < 2
    /\ Goto(g, "over")
    /\ UNCHANGED <<rows, bucket>>

LoadSections(g) ==
    /\ work[g] = "unused"
    /\ project # "DELETED"
    /\ PersonalInfo \in StoredTypes
    /\ Cardinality(StoredTypes) >= 2
    /\ Goto(g, "loaded")
    /\ UNCHANGED <<rows, bucket>>

InsertGeneration(g) ==
    /\ work[g] = "loaded"
    /\ project # "DELETED"
    /\ rows' = [rows EXCEPT ![g] = Row("PENDING", None)]
    /\ Goto(g, "PENDING")
    /\ UNCHANGED bucket

\* A commit needs the row, which goes with the project.
SetStatus(g, s, why) ==
    /\ rows[g] # None
    /\ rows' = [rows EXCEPT ![g] = Row(s, why)]
    /\ UNCHANGED bucket

Advance(g, from, phase) ==
    /\ work[g] = from
    /\ SetStatus(g, phase, None)
    /\ Goto(g, phase)

StartRendering(g) == Advance(g, "PENDING", "RENDERING")

\* Mutated form: the PDF is stored before it is validated.
CompileAndStore(g) ==
    /\ work[g] = "COMPILING" /\ rows[g] # None
    /\ rows' = [rows EXCEPT ![g] = Row("VALIDATING", None)]
    /\ bucket' = bucket \union {g}
    /\ Goto(g, "VALIDATING")

\* Work that succeeds is followed by the commit of the next phase.
Render(g) == Advance(g, "RENDERING", "COMPILING")
Compile(g) == Advance(g, "COMPILING", "VALIDATING")
Validate(g) == Advance(g, "VALIDATING", "UPLOADING")

FailWith(g, phase, categories) ==
    /\ work[g] = phase
    /\ \E category \in categories : SetStatus(g, "FAILED", category)
    /\ Goto(g, "over")

RenderingFails(g) == FailWith(g, "RENDERING", {"RENDERING", "INPUT_NORMALIZATION"})
\* Binary missing, time limit, exit code, no output, or too large an output.
CompilingFails(g) == FailWith(g, "COMPILING", {"COMPILER"})
\* Empty, no PDF header, too large, unreadable, or without pages.
ValidatingFails(g) == FailWith(g, "VALIDATING", {"VALIDATION"})

\* Mutated form: an upload that failed late is recorded, but the handler goes on.
RecordAndGoOn(g) ==
    /\ work[g] = "unstored" /\ g \in bucket
    /\ SetStatus(g, "FAILED", "STORAGE")
    /\ Goto(g, "stored")

Upload(g) ==
    /\ work[g] = "UPLOADING"
    /\ bucket' = bucket \union {g}
    /\ Goto(g, "stored")
    /\ UNCHANGED rows

\* Any exception; the bucket may hold the PDF all the same.
UploadFails(g) ==
    /\ work[g] = "UPLOADING"
    /\ bucket' \in {bucket, bucket \union {g}}
    /\ Goto(g, "unstored")
    /\ UNCHANGED rows

RecordUploadFailure(g) == FailWith(g, "unstored", {"STORAGE"})

Complete(g) ==
    /\ work[g] = "stored"
    /\ SetStatus(g, "COMPLETED", None)
    /\ Goto(g, "over")

\* A disconnect or a crash, a commit refused or done without acknowledgement, or
\* an exception the phase does not catch: the row stays as it is.
AbortGeneration(g) ==
    /\ work[g] \notin {"unused", "over"}
    /\ Goto(g, "over")
    /\ UNCHANGED <<rows, bucket>>

\* The generations cascade with the project; their PDFs stay.
CascadeGenerations ==
    /\ rows' = [g \in Generations |-> None]
    /\ UNCHANGED <<work, bucket>>

Generate(g) ==
    \/ \E approved \in BOOLEAN : RefuseGeneration(g, approved)
    \/ LoadSections(g) \/ InsertGeneration(g) \/ StartRendering(g)
    \/ Render(g) \/ RenderingFails(g) \/ Compile(g) \/ CompilingFails(g)
    \/ Validate(g) \/ ValidatingFails(g)
    \/ Upload(g) \/ UploadFails(g) \/ RecordUploadFailure(g) \/ Complete(g)
    \/ AbortGeneration(g)

-----------------------------------------------------------------------------
GenerationTypeOK ==
    /\ rows \in [Generations -> {None} \union
                   [status : Phases \union {"COMPLETED", "FAILED"},
                    category : Categories \union {None}]]
    /\ work \in [Generations -> Phases \union
                   {"unused", "loaded", "stored", "unstored", "over"}]
    /\ bucket \subseteq Generations

\* create_generation_download_url: what the user may download.  The path of the
\* PDF is committed together with COMPLETED.
Downloadable(g) == rows[g] # None /\ rows[g].status = "COMPLETED"

\* "an interrupted process leaves an honest record of where it stopped"
\* (resume_generation/service.py): a row tells whether its PDF is stored.  What
\* may be downloaded is; with UPLOADING or a STORAGE failure it may be, and with
\* any other status it is not.
RecordIsHonest ==
    \A g \in Generations : rows[g] # None =>
       /\ Downloadable(g) => g \in bucket
       /\ g \in bucket =>
             rows[g] \in {Row("COMPLETED", None), Row("UPLOADING", None),
                          Row("FAILED", "STORAGE")}

\* "A failed generation row is immutable history": what is finished changes only
\* by going away with the project, though its handler may still be running.
FinishedIsHistory ==
    [][\A g \in Generations :
          /\ rows[g] # None
          /\ rows[g].status \in {"COMPLETED", "FAILED"}
          /\ rows'[g] # None
          => rows'[g] = rows[g]]_rows
=============================================================================
