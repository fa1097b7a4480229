--------------------------- MODULE BrowserTabProofs ---------------------------
(***************************************************************************)
(* For the whole tab, with any number of section types, contents, requests,*)
(* generations, questions and answers: what the builder page and the       *)
(* backend promise of a project (one section of each type, generation rows *)
(* that tell the truth about their PDFs and are never rewritten), that the *)
(* interview room's recorder knows what its microphone does, and that the  *)
(* answers of the room fit its questions.                                  *)
(***************************************************************************)
EXTENDS BrowserTab, FiniteSetTheorems, TLAPS

-----------------------------------------------------------------------------
(* Sections.  What a request has loaded does not matter: an update changes *)
(* neither id nor type of a row, and an insertion needs the type unused.   *)

SectionsInv ==
    /\ \A r \in sections : r = [id |-> r.id, type |-> r.type, content |-> r.content]
    /\ \A r, s \in sections : r.type = s.type => r = s

LEMMA SectionsInit == BuilderInit => SectionsInv
  BY DEF BuilderInit, SectionsInv

LEMMA SectionsGrow ==
    ASSUME SectionsInv, NEW c \in Numbers, CommitInsert(c)
    PROVE  SectionsInv'
<1>1. CASE Insertable(calls[c].asks.type)
  <2> DEFINE row == [id |-> c, type |-> calls[c].asks.type,
                     content |-> calls[c].asks.content]
  <2>1. sections' = sections \union {row}
    BY <1>1 DEF CommitInsert
  <2>2. \A r \in sections : r.type # row.type
    BY <1>1 DEF Insertable, RowsOf
  <2> QED
    BY <2>1, <2>2 DEF SectionsInv
<1>2. CASE ~Insertable(calls[c].asks.type)
  BY <1>2 DEF CommitInsert, SectionsInv
<1> QED
  BY <1>1, <1>2

LEMMA SectionsRewritten ==
    ASSUME SectionsInv, NEW c \in Numbers, CommitUpdate(c)
    PROVE  SectionsInv'
<1> DEFINE new == calls[c].asks.content
           found == calls[c].found
           same == {r \in sections : r.id = found.id /\ r.type = found.type}
           edited == {[r EXCEPT !.content = new] : r \in same}
<1>1. CASE sections' = sections
  BY <1>1 DEF SectionsInv
<1>2. CASE sections' = (sections \ same) \union edited
  <2>1. ASSUME NEW e \in edited
        PROVE  \E r \in same : e = [id |-> r.id, type |-> r.type, content |-> new]
    <3>1. PICK r \in same : e = [r EXCEPT !.content = new]
      OBVIOUS
    <3>2. r = [id |-> r.id, type |-> r.type, content |-> r.content]
      BY DEF SectionsInv
    <3> QED
      BY <3>1, <3>2
  <2>2. ASSUME NEW r \in sections'
        PROVE  r = [id |-> r.id, type |-> r.type, content |-> r.content]
    BY <1>2, <2>1 DEF SectionsInv
  <2>3. ASSUME NEW r \in sections', NEW s \in sections', r.type = s.type
        PROVE  r = s
    <3>1. CASE r \in sections \ same /\ s \in sections \ same
      BY <3>1, <2>3 DEF SectionsInv
    <3>2. CASE r \in edited /\ s \in edited
      BY <2>1, <2>3, <3>2 DEF SectionsInv
    <3>3. CASE (r \in edited /\ s \in sections \ same) \/ (s \in edited /\ r \in sections \ same)
      BY <2>1, <2>3, <3>3 DEF SectionsInv
    <3> QED
      BY <1>2, <3>1, <3>2, <3>3
  <2> QED
    BY <2>2, <2>3 DEF SectionsInv
<1> QED
  BY <1>1, <1>2 DEF CommitUpdate

\* Every step of the project's requests and of its page.
LEMMA SectionsKept ==
    ASSUME SectionsInv,
           \/ \E c \in Numbers : ServeSection(c)
           \/ DeleteProject
           \/ UNCHANGED sections
    PROVE  SectionsInv'
<1>1. CASE UNCHANGED sections
  BY <1>1 DEF SectionsInv
<1>2. CASE DeleteProject
  BY <1>2 DEF DeleteProject, SectionsInv
<1>3. ASSUME NEW c \in Numbers, ServeSection(c)
      PROVE  SectionsInv'
  <2>1. CASE CommitInsert(c)
    BY <2>1, SectionsGrow
  <2>2. CASE CommitUpdate(c)
    BY <2>2, SectionsRewritten
  <2>3. CASE CommitDelete(c)
    BY <2>3 DEF CommitDelete, SectionsInv
  <2>4. CASE Load(c) \/ CallFails(c)
    BY <2>4 DEF Load, CallFails, SectionsInv
  <2> QED
    BY <1>3, <2>1, <2>2, <2>3, <2>4 DEF ServeSection
<1> QED
  BY <1>1, <1>2, <1>3

LEMMA SectionsUnique == SectionsInv => OneSectionPerType
<1> SUFFICES ASSUME SectionsInv, NEW t \in Types
             PROVE  Cardinality(RowsOf(t)) <= 1
  BY DEF OneSectionPerType
<1>1. CASE RowsOf(t) = {}
  BY <1>1, FS_EmptySet
<1>2. CASE RowsOf(t) # {}
  <2>1. PICK r \in sections : r.type = t
    BY <1>2 DEF RowsOf
  <2>2. RowsOf(t) = {r}
    BY <2>1 DEF RowsOf, SectionsInv
  <2> QED
    BY <2>2, FS_Singleton
<1> QED
  BY <1>1, <1>2

-----------------------------------------------------------------------------
(* Generations.  A row alone does not tell whether its handler is still    *)
(* running; the strengthening ties row and bucket to the point the handler *)
(* has reached, until it is over.                                          *)

Matches(g) ==
    /\ work[g] \in {"unused", "loaded"} => rows[g] = None /\ g \notin bucket
    /\ work[g] \in Phases => g \notin bucket /\ rows[g] \in {None, Row(work[g], None)}
    /\ work[g] = "stored" => g \in bucket
    /\ work[g] \in {"stored", "unstored"} => rows[g] \in {None, Row("UPLOADING", None)}

GenerationsInv ==
    /\ GenerationTypeOK
    /\ \A g \in Generations : Matches(g)
    /\ RecordIsHonest

LEMMA GenerationsInit == GenerationInit => GenerationsInv
  BY DEF GenerationInit, GenerationsInv, GenerationTypeOK, Matches, RecordIsHonest, Downloadable, Phases

\* A handler's step changes what is said of its own generation only.
LEMMA StepKeeps ==
    ASSUME GenerationsInv, NEW g \in Generations, NEW row, NEW point,
           rows' = [rows EXCEPT ![g] = row], work' = [work EXCEPT ![g] = point],
           bucket' \in {bucket, bucket \union {g}},
           row \in {None} \union [status : Phases \union {"COMPLETED", "FAILED"},
                                 category : Categories \union {None}],
           point \in Phases \union {"unused", "loaded", "stored", "unstored", "over"},
           Matches(g)',
           row # None => /\ row.status = "COMPLETED" => g \in bucket'
                         /\ g \in bucket' =>
                               row \in {Row("COMPLETED", None), Row("UPLOADING", None),
                                       Row("FAILED", "STORAGE")}
    PROVE  GenerationsInv'
<1>1. GenerationTypeOK'
  BY DEF GenerationsInv, GenerationTypeOK
<1>2. rows'[g] = row
  BY DEF GenerationsInv, GenerationTypeOK
<1>3. ASSUME NEW h \in Generations, h # g
      PROVE  rows'[h] = rows[h] /\ work'[h] = work[h] /\ (h \in bucket' <=> h \in bucket)
  BY <1>3 DEF GenerationsInv, GenerationTypeOK
<1>4. ASSUME NEW h \in Generations
      PROVE  Matches(h)'
  <2>1. CASE h # g
    BY <1>3, <2>1 DEF GenerationsInv, Matches
  <2> QED
    BY <2>1
<1>5. RecordIsHonest'
  BY <1>2, <1>3 DEF GenerationsInv, RecordIsHonest, Downloadable
<1> QED
  BY <1>1, <1>4, <1>5 DEF GenerationsInv

\* Handlers that leave the row alone.
LEMMA RowKept ==
    ASSUME GenerationsInv, NEW g \in Generations, UNCHANGED rows,
           \/ \E approved \in BOOLEAN : RefuseGeneration(g, approved)
           \/ LoadSections(g) \/ Upload(g) \/ UploadFails(g) \/ AbortGeneration(g)
    PROVE  GenerationsInv'
<1>1. /\ rows' = [rows EXCEPT ![g] = rows[g]]
      /\ rows[g] \in {None} \union [status : Phases \union {"COMPLETED", "FAILED"},
                                   category : Categories \union {None}]
      /\ Matches(g)
      /\ rows[g] # None =>
            /\ rows[g].status = "COMPLETED" => g \in bucket
            /\ g \in bucket => rows[g] \in {Row("COMPLETED", None), Row("UPLOADING", None),
                                            Row("FAILED", "STORAGE")}
  BY DEF GenerationsInv, GenerationTypeOK, RecordIsHonest, Downloadable
<1>2. work \in [Generations -> Phases \union {"unused", "loaded", "stored", "unstored", "over"}]
  BY DEF GenerationsInv, GenerationTypeOK
<1>3. ASSUME NEW point \in {"over", "loaded"}, Goto(g, point), UNCHANGED bucket,
             point = "loaded" => work[g] = "unused"
      PROVE  GenerationsInv'
  <2>1. Matches(g)'
    BY <1>1, <1>2, <1>3 DEF Matches, Goto, Phases
  <2> QED
    BY <1>1, <1>3, <2>1, StepKeeps DEF Goto
<1>4. CASE Upload(g) \/ UploadFails(g)
  <2>1. /\ work[g] = "UPLOADING" /\ g \notin bucket
        /\ rows[g] \in {None, Row("UPLOADING", None)}
    BY <1>1, <1>4 DEF Upload, UploadFails, Matches, Phases
  <2>2. PICK point \in {"stored", "unstored"} :
            /\ Goto(g, point)
            /\ bucket' \in {bucket, bucket \union {g}}
            /\ point = "stored" => g \in bucket'
    BY <1>4 DEF Upload, UploadFails
  <2>3. Matches(g)'
    BY <1>2, <2>1, <2>2 DEF Matches, Goto, Phases
  <2> QED
    BY <1>1, <2>1, <2>2, <2>3, StepKeeps DEF Goto, Row
<1>5. CASE \E approved \in BOOLEAN : RefuseGeneration(g, approved)
  BY <1>3, <1>5 DEF RefuseGeneration
<1>6. CASE LoadSections(g)
  BY <1>3, <1>6 DEF LoadSections
<1>7. CASE AbortGeneration(g)
  BY <1>3, <1>7 DEF AbortGeneration
<1> QED
  BY <1>4, <1>5, <1>6, <1>7

\* Handlers that write the row and go on.
LEMMA RowAdvanced ==
    ASSUME GenerationsInv, NEW g \in Generations,
           \/ InsertGeneration(g) \/ StartRendering(g) \/ Render(g) \/ Compile(g) \/ Validate(g)
    PROVE  GenerationsInv'
<1>1. PICK reached \in Phases :
          /\ rows' = [rows EXCEPT ![g] = Row(reached, None)]
          /\ Goto(g, reached)
          /\ UNCHANGED bucket
  BY DEF InsertGeneration, StartRendering, Render, Compile, Validate, Advance, SetStatus, Phases
<1>2. g \notin bucket
  BY DEF InsertGeneration, StartRendering, Render, Compile, Validate, Advance,
         GenerationsInv, Matches, Phases
<1>3. Row(reached, None) \in [status : Phases \union {"COMPLETED", "FAILED"},
                            category : Categories \union {None}]
  BY DEF Row
<1>4. rows'[g] = Row(reached, None) /\ work'[g] = reached
  BY <1>1 DEF Goto, GenerationsInv, GenerationTypeOK
<1>5. Matches(g)'
  BY <1>1, <1>2, <1>4 DEF Matches, Phases
<1>6. Row(reached, None).status # "COMPLETED"
  BY DEF Row, Phases
<1> QED
  BY <1>1, <1>2, <1>3, <1>5, <1>6, StepKeeps DEF Goto

\* Handlers that write the row and are over.
LEMMA RowFinished ==
    ASSUME GenerationsInv, NEW g \in Generations,
           \/ RenderingFails(g) \/ CompilingFails(g) \/ ValidatingFails(g)
           \/ RecordUploadFailure(g) \/ Complete(g)
    PROVE  GenerationsInv'
<1>1. PICK outcome \in {"COMPLETED", "FAILED"}, category \in Categories \union {None} :
          /\ rows' = [rows EXCEPT ![g] = Row(outcome, category)]
          /\ Goto(g, "over")
          /\ UNCHANGED bucket
          /\ outcome = "COMPLETED" => g \in bucket /\ category = None
          /\ outcome = "FAILED" => g \notin bucket \/ category = "STORAGE"
  <2>1. CASE Complete(g)
    BY <2>1 DEF Complete, SetStatus, GenerationsInv, Matches
  <2>2. CASE RecordUploadFailure(g)
    BY <2>2 DEF RecordUploadFailure, FailWith, SetStatus, Categories
  <2>3. CASE RenderingFails(g) \/ CompilingFails(g) \/ ValidatingFails(g)
    <3>1. g \notin bucket
      BY <2>3 DEF RenderingFails, CompilingFails, ValidatingFails, FailWith,
                  GenerationsInv, Matches, Phases
    <3> QED
      BY <2>3, <3>1 DEF RenderingFails, CompilingFails, ValidatingFails, FailWith,
                        SetStatus, Categories
  <2> QED
    BY <2>1, <2>2, <2>3
<1>2. Row(outcome, category) \in [status : Phases \union {"COMPLETED", "FAILED"},
                                  category : Categories \union {None}]
  BY DEF Row
<1>3. work'[g] = "over"
  BY <1>1 DEF Goto, GenerationsInv, GenerationTypeOK
<1>4. Matches(g)'
  BY <1>3 DEF Matches, Phases
<1>5. Row(outcome, category).status = outcome
  BY DEF Row
<1> QED
  BY <1>1, <1>2, <1>4, <1>5, StepKeeps DEF Goto, Row

LEMMA GenerationsKept ==
    ASSUME GenerationsInv,
           \/ \E g \in Generations : Generate(g)
           \/ CascadeGenerations
           \/ UNCHANGED generationVars
    PROVE  GenerationsInv'
<1>1. CASE UNCHANGED generationVars
  BY <1>1 DEF generationVars, GenerationsInv, GenerationTypeOK, Matches, RecordIsHonest, Downloadable
<1>2. CASE CascadeGenerations
  BY <1>2 DEF CascadeGenerations, GenerationsInv, GenerationTypeOK, Matches, RecordIsHonest, Downloadable
<1>3. ASSUME NEW g \in Generations, Generate(g)
      PROVE  GenerationsInv'
  <2>1. CASE \/ InsertGeneration(g) \/ StartRendering(g) \/ Render(g) \/ Compile(g)
             \/ Validate(g)
    BY <2>1, RowAdvanced
  <2>2. CASE \/ RenderingFails(g) \/ CompilingFails(g) \/ ValidatingFails(g)
             \/ RecordUploadFailure(g) \/ Complete(g)
    BY <2>2, RowFinished
  <2>3. CASE \/ \E approved \in BOOLEAN : RefuseGeneration(g, approved)
             \/ LoadSections(g) \/ Upload(g) \/ UploadFails(g) \/ AbortGeneration(g)
    <3>1. UNCHANGED rows
      BY <2>3 DEF RefuseGeneration, LoadSections, Upload, UploadFails, AbortGeneration
    <3> QED
      BY <2>3, <3>1, RowKept
  <2> QED
    BY <1>3, <2>1, <2>2, <2>3 DEF Generate
<1> QED
  BY <1>1, <1>2, <1>3

\* A handler that can still write its row has not finished it.
LEMMA FinishedKept ==
    ASSUME GenerationsInv,
           \/ \E g \in Generations : Generate(g)
           \/ CascadeGenerations
           \/ UNCHANGED generationVars,
           NEW h \in Generations, rows[h] # None,
           rows[h].status \in {"COMPLETED", "FAILED"}, rows'[h] # None
    PROVE  rows'[h] = rows[h]
<1>1. CASE UNCHANGED generationVars
  BY <1>1 DEF generationVars
<1>2. CASE CascadeGenerations
  BY <1>2 DEF CascadeGenerations
<1>3. ASSUME NEW g \in Generations, Generate(g), rows'[h] # rows[h]
      PROVE  FALSE
  <2>1. g = h /\ work[h] # "over" /\ work[h] # "unused"
    BY <1>3 DEF Generate, RefuseGeneration, LoadSections, InsertGeneration, StartRendering,
                Render, RenderingFails, Compile, CompilingFails, Validate, ValidatingFails,
                Upload, UploadFails, RecordUploadFailure, Complete, AbortGeneration,
                Advance, FailWith, SetStatus, GenerationsInv, GenerationTypeOK, Phases
  <2>2. work[h] \in Phases \/ work[h] \in {"loaded", "stored", "unstored"}
    BY <2>1 DEF GenerationsInv, GenerationTypeOK
  <2>3. rows[h] \in {None, Row(work[h], None), Row("UPLOADING", None)}
    BY <2>2 DEF GenerationsInv, Matches
  <2>4. work[h] \in {"loaded", "stored", "unstored"} => rows[h] \in {None, Row("UPLOADING", None)}
    BY DEF GenerationsInv, Matches
  <2> QED
    BY <2>2, <2>3, <2>4 DEF Row, Phases
<1> QED
  BY <1>1, <1>2, <1>3




-----------------------------------------------------------------------------
(* Edits.  A draft survives because what is armed is the open section's    *)
(* draft, and because requests are numbered in the order they are sent, so *)
(* that the newest save of a section carries what was typed last.          *)

UpsertsCarryContent ==
    \A c \in Numbers :
        Sent(c) /\ calls[c].asks.op = "upsert" => calls[c].asks.content \in Contents

SentInOrder == \A c \in Numbers : Sent(c) => \A b \in 1 .. (c - 1) : Sent(b)

CallsInv == BuilderTypeOK /\ UpsertsCarryContent /\ SentInOrder

EditorShown == /\ armed # None => shown # None /\ armed = draft[shown]
               /\ dialog => shown # None

EditsInv == CallsInv /\ PageTypeOK /\ EditorShown /\ NoEditDropped

LEMMA EditsInit == BuilderInit /\ PageInit => EditsInv
<1> SUFFICES ASSUME BuilderInit, PageInit
             PROVE  EditsInv
  OBVIOUS
<1>1. CallsInv
  <2>1. sections \subseteq Rows
    BY BuilderAssumption DEF BuilderInit, Rows, Numbers
  <2> QED
    BY <2>1 DEF BuilderInit, CallsInv, BuilderTypeOK, UpsertsCarryContent, SentInOrder,
                Sent, Calls
<1>2. PageTypeOK /\ EditorShown /\ NoEditDropped
  BY BuilderAssumption DEF PageInit, PageTypeOK, EditorShown, NoEditDropped, Statuses
<1> QED
  BY <1>1, <1>2 DEF EditsInv

\* A request that goes on still asks for the same.
LEMMA AsksKept ==
    ASSUME CallsInv, NEW c \in Numbers, Sent(c), NEW e \in Calls \ {Unsent},
           e.asks = calls[c].asks, calls' = [calls EXCEPT ![c] = e],
           project' \in {"DRAFT", "FINALIZED", "DELETED"}, sections' \subseteq Rows
    PROVE  CallsInv' /\ \A t \in Types : Upserts(t)' = Upserts(t)
                                         /\ \A d \in Upserts(t) : calls'[d].asks = calls[d].asks
<1>1. calls \in [Numbers -> Calls]
  BY DEF CallsInv, BuilderTypeOK
<1>2. calls'[c] = e /\ \A d \in Numbers : d # c => calls'[d] = calls[d]
  BY <1>1
<1>3. BuilderTypeOK'
  BY <1>1 DEF BuilderTypeOK
<1>4. \A d \in Numbers : /\ Sent(d)' <=> Sent(d)
                         /\ calls'[d].asks = calls[d].asks
  BY <1>2 DEF Sent
<1>5. UpsertsCarryContent'
  BY <1>4 DEF CallsInv, UpsertsCarryContent
<1>6. SentInOrder'
  <2>1. \A d \in Numbers : 1 .. (d - 1) \subseteq Numbers
    BY BuilderAssumption DEF Numbers
  <2> QED
    BY <1>4, <2>1 DEF CallsInv, SentInOrder
<1> QED
  BY <1>3, <1>4, <1>5, <1>6 DEF CallsInv, Upserts

\* A new request comes after every other.
LEMMA SentLast ==
    ASSUME CallsInv, NEW op \in {"upsert", "delete"}, NEW t \in Types,
           NEW x \in Contents \union {None}, op = "upsert" => x \in Contents,
           Send(op, t, x), UNCHANGED <<project, sections>>
    PROVE  /\ CallsInv'
           /\ NextCall \in Numbers
           /\ \A s \in Types :
                 /\ \A d \in Upserts(s) : d \in Upserts(s)' /\ calls'[d].asks = calls[d].asks
                 /\ s # t \/ op = "delete" => Upserts(s)' = Upserts(s)
           /\ op = "upsert" => \E c \in Upserts(t)' :
                 calls'[c].asks.content = x /\ \A d \in Upserts(t)' : d <= c
<1>1. calls \in [Numbers -> Calls]
  BY DEF CallsInv, BuilderTypeOK
<1>2. PICK c \in Numbers :
        /\ ~Sent(c) /\ \A b \in 1 .. (c - 1) : Sent(b)
        /\ calls' = [calls EXCEPT ![c] = [at |-> "sent",
                       asks |-> [op |-> op, type |-> t, content |-> x]]]
  BY DEF Send
<1> DEFINE asked == [op |-> op, type |-> t, content |-> x]
<1>3. /\ calls'[c] = [at |-> "sent", asks |-> asked]
      /\ \A d \in Numbers : d # c => calls'[d] = calls[d]
  BY <1>1, <1>2
<1>4. Sent(c)' /\ \A d \in Numbers : d # c => (Sent(d)' <=> Sent(d))
  <2>1. [at |-> "sent", asks |-> asked] # Unsent
    <3>1. [at |-> "sent", asks |-> asked].at # Unsent.at
      BY DEF Unsent
    <3> QED
      BY <3>1
  <2> QED
    BY <1>3, <2>1 DEF Sent
<1>5. \A d \in Numbers : Sent(d) => d < c
  <2> SUFFICES ASSUME NEW d \in Numbers, Sent(d), ~(d < c)
               PROVE  FALSE
    OBVIOUS
  <2>1. d # c
    BY <1>2
  <2>2. c \in 1 .. (d - 1)
    BY <2>1, BuilderAssumption DEF Numbers
  <2> QED
    BY <1>2, <2>2 DEF CallsInv, SentInOrder
<1>6. BuilderTypeOK'
  <2>1. [at |-> "sent", asks |-> asked] \in Calls
    BY DEF Calls, Payload
  <2> QED
    BY <1>1, <1>2, <2>1 DEF CallsInv, BuilderTypeOK
<1>7. UpsertsCarryContent'
  BY <1>3, <1>4 DEF CallsInv, UpsertsCarryContent
<1>8. SentInOrder'
  <2>1. \A d \in Numbers : 1 .. (d - 1) \subseteq Numbers
    BY BuilderAssumption DEF Numbers
  <2>2. ASSUME NEW d \in Numbers, Sent(d)', NEW b \in 1 .. (d - 1)
        PROVE  Sent(b)'
    <3>1. CASE d = c
      BY <1>2, <1>4, <2>1, <2>2, <3>1
    <3>2. CASE d # c
      BY <1>4, <2>1, <2>2, <3>2 DEF CallsInv, SentInOrder
    <3> QED
      BY <3>1, <3>2
  <2> QED
    BY <2>2 DEF SentInOrder
<1>9. NextCall \in Numbers
  BY <1>2 DEF NextCall
<1>10. \A s \in Types :
          /\ \A d \in Upserts(s) : d \in Upserts(s)' /\ calls'[d].asks = calls[d].asks
          /\ s # t \/ op = "delete" => Upserts(s)' = Upserts(s)
  BY <1>2, <1>3, <1>4 DEF Upserts
<1>11. ASSUME op = "upsert"
       PROVE  /\ c \in Upserts(t)' /\ calls'[c].asks.content = x
              /\ \A d \in Upserts(t)' : d <= c
  <2>1. c \in Upserts(t)' /\ calls'[c].asks.content = x
    BY <1>3, <1>4, <1>11 DEF Upserts
  <2>2. ASSUME NEW d \in Upserts(t)', d # c
        PROVE  d < c
    BY <1>4, <1>5, <2>2 DEF Upserts
  <2> QED
    BY <2>1, <2>2, BuilderAssumption DEF Numbers, Upserts
<1> QED
  BY <1>6, <1>7, <1>8, <1>9, <1>10, <1>11 DEF CallsInv

\* Requests that are served leave the page alone.
LEMMA ServedKeepEdits ==
    ASSUME EditsInv, NEW c \in Numbers, Sent(c), NEW e \in Calls \ {Unsent},
           e.asks = calls[c].asks, calls' = [calls EXCEPT ![c] = e],
           project' \in {"DRAFT", "FINALIZED", "DELETED"}, sections' \subseteq Rows,
           UNCHANGED <<shown, draft, armed, mine>>,
           status' \in Statuses, dialog' \in BOOLEAN, dialog' => dialog
    PROVE  EditsInv'
<1>1. CallsInv' /\ \A t \in Types : Upserts(t)' = Upserts(t)
                                   /\ \A d \in Upserts(t) : calls'[d].asks = calls[d].asks
  BY AsksKept DEF EditsInv
<1>2. PageTypeOK' /\ EditorShown'
  BY DEF EditsInv, PageTypeOK, EditorShown
<1>3. NoEditDropped'
  BY <1>1 DEF EditsInv, NoEditDropped
<1> QED
  BY <1>1, <1>2, <1>3 DEF EditsInv

\* What a handler leaves of its request.
LEMMA OutcomeTyped ==
    ASSUME CallsInv, NEW c \in Numbers, Sent(c), NEW ok \in BOOLEAN, Outcome(c, ok)
    PROVE  \E e \in Calls \ {Unsent} : /\ e.asks = calls[c].asks
                                       /\ calls' = [calls EXCEPT ![c] = e]
<1> DEFINE e == [at |-> IF ok THEN "done" ELSE "failed", asks |-> calls[c].asks]
<1>1. calls[c].asks \in Payload
  BY DEF CallsInv, BuilderTypeOK, Calls, Sent
<1>2. e \in Calls
  BY <1>1 DEF Calls
<1>3. e.at # Unsent.at
  BY DEF Unsent
<1> QED
  BY <1>2, <1>3 DEF Outcome

LEMMA InFlightSent ==
    ASSUME NEW c \in Numbers, calls[c].at \in {"sent", "loaded", "done", "failed"}
    PROVE  Sent(c)
<1>1. Unsent.at = "unsent"
  BY DEF Unsent
<1> QED
  BY <1>1 DEF Sent

LEMMA SectionRequestsKeepEdits ==
    ASSUME EditsInv, NEW c \in Numbers, ServeSection(c), UNCHANGED pageVars
    PROVE  EditsInv'
<1>1. /\ calls \in [Numbers -> Calls] /\ sections \subseteq Rows
      /\ project \in {"DRAFT", "FINALIZED", "DELETED"}
      /\ status \in Statuses /\ dialog \in BOOLEAN
      /\ CallsInv
  BY DEF EditsInv, CallsInv, BuilderTypeOK, PageTypeOK
<1>2. Sent(c)
  BY InFlightSent DEF ServeSection, Load, CommitInsert, CommitUpdate, CommitDelete, CallFails
<1>3. calls[c].asks \in Payload
  BY <1>1, <1>2 DEF Sent, Calls
<1>4. sections' \subseteq Rows /\ UNCHANGED project
  <2>1. CASE CommitInsert(c)
    <3>1. calls[c].asks.content \in Contents
      BY <1>2, <2>1 DEF EditsInv, CallsInv, UpsertsCarryContent, CommitInsert
    <3>2. [id |-> c, type |-> calls[c].asks.type, content |-> calls[c].asks.content] \in Rows
      BY <1>3, <3>1 DEF Rows, Payload
    <3> QED
      BY <1>1, <2>1, <3>2 DEF CommitInsert
  <2>2. CASE CommitUpdate(c)
    <3>1. calls[c].asks.content \in Contents
      BY <1>2, <2>2 DEF EditsInv, CallsInv, UpsertsCarryContent, CommitUpdate
    <3>2. \A r \in sections : [r EXCEPT !.content = calls[c].asks.content] \in Rows
      BY <1>1, <3>1 DEF Rows
    <3> QED
      BY <1>1, <2>2, <3>2 DEF CommitUpdate
  <2>3. CASE CommitDelete(c) \/ Load(c) \/ CallFails(c)
    BY <1>1, <2>3 DEF CommitDelete, Load, CallFails
  <2> QED
    BY <2>1, <2>2, <2>3 DEF ServeSection
<1>5. \E e \in Calls \ {Unsent} : /\ e.asks = calls[c].asks
                                  /\ calls' = [calls EXCEPT ![c] = e]
  <2>1. CASE CommitInsert(c) \/ CommitUpdate(c) \/ CommitDelete(c) \/ CallFails(c)
    <3>1. PICK ok \in BOOLEAN : Outcome(c, ok)
      BY <2>1 DEF CommitInsert, CommitUpdate, CommitDelete, CallFails, Insertable
    <3> QED
      BY <1>1, <1>2, <3>1, OutcomeTyped
  <2>2. CASE Load(c)
    <3> DEFINE gone == [at |-> "failed", asks |-> calls[c].asks]
               loaded(found) == [at |-> "loaded", asks |-> calls[c].asks, found |-> found]
    <3>1. gone \in Calls \ {Unsent}
      <4>1. gone.at # Unsent.at
        BY DEF Unsent
      <4> QED
        BY <1>3, <4>1 DEF Calls
    <3>2. ASSUME NEW found \in Rows \union {None}
          PROVE  loaded(found) \in Calls \ {Unsent}
      <4>1. loaded(found).at # Unsent.at
        BY DEF Unsent
      <4> QED
        BY <1>3, <4>1 DEF Calls
    <3>3. \/ calls' = [calls EXCEPT ![c] = gone]
          \/ \E found \in Rows \union {None} : calls' = [calls EXCEPT ![c] = loaded(found)]
      BY <1>1, <2>2 DEF Load, RowsOf
    <3> QED
      BY <3>1, <3>2, <3>3
  <2> QED
    BY <2>1, <2>2 DEF ServeSection
<1> QED
  BY <1>1, <1>2, <1>4, <1>5, ServedKeepEdits DEF pageVars

\* Finalizing, reopening and deleting the project touch no request.
LEMMA ProjectKeepsEdits ==
    ASSUME EditsInv, UNCHANGED <<pageVars, calls>>,
           project' \in {"DRAFT", "FINALIZED", "DELETED"}, sections' \subseteq Rows
    PROVE  EditsInv'
  BY DEF EditsInv, CallsInv, BuilderTypeOK, UpsertsCarryContent, SentInOrder, Sent, pageVars,
         PageTypeOK, EditorShown, NoEditDropped, Upserts

\* The editor's save, from the timer, on leaving, or on closing the page.
LEMMA SaveKeeps ==
    ASSUME EditsInv, armed # None, Save(armed), UNCHANGED <<project, sections>>
    PROVE  /\ CallsInv'
           /\ armed # Incomplete => NextCall \in Numbers
           /\ shown \in Types
           /\ \A t \in Types : draft[t] \in Contents =>
                 \E c \in Upserts(t)' : /\ calls'[c].asks.content = draft[t]
                                       /\ \A d \in Upserts(t)' : d <= c
<1>1. /\ shown \in Types /\ armed = draft[shown] /\ armed \in Drafts
      /\ CallsInv
  BY DEF EditsInv, EditorShown, PageTypeOK
<1>2. CASE armed = Incomplete
  <2>1. UNCHANGED <<project, sections, calls>>
    BY <1>2 DEF Save
  <2>2. CallsInv'
    BY <1>1, <2>1 DEF CallsInv, BuilderTypeOK, UpsertsCarryContent, SentInOrder, Sent
  <2>3. \A t \in Types : Upserts(t)' = Upserts(t)
    BY <2>1 DEF Upserts, Sent
  <2>4. Incomplete \notin Contents
    BY AutosaveAssumption
  <2> QED
    BY <1>1, <1>2, <2>1, <2>2, <2>3, <2>4 DEF EditsInv, NoEditDropped
<1>3. CASE armed # Incomplete
  <2>1. armed \in Contents /\ Send("upsert", shown, armed)
    BY <1>1, <1>3 DEF Save, Drafts
  <2>2. PICK section \in Types, x \in Contents : section = shown /\ x = armed
    BY <1>1, <2>1
  <2>3. Send("upsert", section, x)
    BY <2>1, <2>2
  <2>4. /\ CallsInv' /\ NextCall \in Numbers
        /\ \A s \in Types :
              /\ \A d \in Upserts(s) : d \in Upserts(s)' /\ calls'[d].asks = calls[d].asks
              /\ s # section => Upserts(s)' = Upserts(s)
        /\ \E c \in Upserts(section)' :
              calls'[c].asks.content = x /\ \A d \in Upserts(section)' : d <= c
    BY <1>1, <2>3, SentLast
  <2>5. ASSUME NEW t \in Types, draft[t] \in Contents
        PROVE  \E c \in Upserts(t)' : /\ calls'[c].asks.content = draft[t]
                                     /\ \A d \in Upserts(t)' : d <= c
    <3>1. CASE t = section
      BY <1>1, <2>2, <2>4, <3>1
    <3>2. CASE t # section
      BY <2>2, <2>4, <2>5, <3>2 DEF EditsInv, NoEditDropped
    <3> QED
      BY <3>1, <3>2
  <2> QED
    BY <1>1, <2>4, <2>5
<1> QED
  BY <1>2, <1>3

\* An editor that goes away, with or without the drafts of the page.
LEMMA UnmountKeepsEdits ==
    ASSUME EditsInv, IF armed = None THEN UNCHANGED calls ELSE Save(armed),
           UNCHANGED <<project, sections>>, Unmount,
           draft' \in {draft, [t \in Types |-> None]}, dialog' = FALSE
    PROVE  EditsInv'
<1>1. /\ CallsInv'
      /\ \A t \in Types : draft[t] \in Contents =>
            \E c \in Upserts(t)' : /\ calls'[c].asks.content = draft[t]
                                  /\ \A d \in Upserts(t)' : d <= c
  <2>1. CASE armed # None
    BY <2>1, SaveKeeps
  <2>2. CASE armed = None
    <3>1. UNCHANGED <<project, sections, calls>>
      BY <2>2
    <3>2. CallsInv'
      BY <3>1 DEF EditsInv, CallsInv, BuilderTypeOK, UpsertsCarryContent, SentInOrder, Sent
    <3>3. \A t \in Types : Upserts(t)' = Upserts(t)
      BY <3>1 DEF Upserts, Sent
    <3> QED
      BY <2>2, <3>1, <3>2, <3>3, BuilderAssumption DEF EditsInv, NoEditDropped
  <2> QED
    BY <2>1, <2>2
<1>2. PageTypeOK' /\ EditorShown'
  BY DEF EditsInv, PageTypeOK, EditorShown, Unmount, Statuses
<1>3. NoEditDropped'
  BY <1>1, BuilderAssumption DEF NoEditDropped
<1> QED
  BY <1>1, <1>2, <1>3 DEF EditsInv

\* The steps of the page.
LEMMA EditorKeepsEdits ==
    ASSUME EditsInv,
           \/ \E x \in Drafts : Edit(x)
           \/ Flush \/ Leave \/ ClosePage
           \/ \E t \in Types : OpenSection(t)
    PROVE  EditsInv'
<1>1. ASSUME NEW x \in Drafts, Edit(x)
      PROVE  EditsInv'
  <2>1. /\ UNCHANGED <<project, sections, calls>>
        /\ shown \in Types /\ draft \in [Types -> Drafts \union {None}]
    BY <1>1 DEF Edit, Editing, builderVars, EditsInv, PageTypeOK
  <2>2. CallsInv' /\ \A t \in Types : Upserts(t)' = Upserts(t)
    BY <2>1 DEF EditsInv, CallsInv, BuilderTypeOK, UpsertsCarryContent, SentInOrder, Sent,
                Upserts
  <2>3. PageTypeOK' /\ EditorShown'
    BY <1>1, <2>1 DEF Edit, Editing, EditsInv, PageTypeOK, EditorShown, Statuses
  <2>4. NoEditDropped'
    BY <1>1, <2>1, <2>2 DEF Edit, Editing, EditsInv, NoEditDropped
  <2> QED
    BY <2>2, <2>3, <2>4 DEF EditsInv
<1>2. CASE Flush
  <2>1. /\ CallsInv'
        /\ armed # Incomplete => NextCall \in Numbers
        /\ \A t \in Types : draft[t] \in Contents =>
              \E c \in Upserts(t)' : /\ calls'[c].asks.content = draft[t]
                                    /\ \A d \in Upserts(t)' : d <= c
    BY <1>2, SaveKeeps DEF Flush
  <2>2. PageTypeOK' /\ EditorShown'
    BY <1>2, <2>1 DEF Flush, EditsInv, PageTypeOK, EditorShown, Statuses
  <2>3. NoEditDropped'
    BY <1>2, <2>1 DEF Flush, NoEditDropped
  <2> QED
    BY <2>1, <2>2, <2>3 DEF EditsInv
<1>3. CASE Leave
  <2>1. dialog = FALSE
    BY <1>3 DEF Leave, Editing, EditsInv, PageTypeOK
  <2> QED
    BY <1>3, <2>1, UnmountKeepsEdits DEF Leave, Editing
<1>4. CASE ClosePage
  BY <1>4, UnmountKeepsEdits DEF ClosePage
<1>5. ASSUME NEW t \in Types, OpenSection(t)
      PROVE  EditsInv'
  <2>1. CallsInv' /\ \A s \in Types : Upserts(s)' = Upserts(s)
    BY <1>5 DEF OpenSection, builderVars, EditsInv, CallsInv, BuilderTypeOK,
                UpsertsCarryContent, SentInOrder, Sent, Upserts
  <2>2. PageTypeOK' /\ EditorShown'
    BY <1>5 DEF OpenSection, EditsInv, PageTypeOK, EditorShown
  <2>3. NoEditDropped'
    BY <1>5, <2>1, BuilderAssumption DEF OpenSection, builderVars, EditsInv, EditorShown,
                                           NoEditDropped
  <2> QED
    BY <2>1, <2>2, <2>3 DEF EditsInv
<1> QED
  BY <1>1, <1>2, <1>3, <1>4, <1>5

LEMMA SettlingKeepsEdits ==
    ASSUME EditsInv, NEW c \in Numbers, Settle(c) \/ RemovalSettles(c)
    PROVE  EditsInv'
<1>1. /\ calls \in [Numbers -> Calls] /\ sections \subseteq Rows
      /\ project \in {"DRAFT", "FINALIZED", "DELETED"}
      /\ status \in Statuses /\ dialog \in BOOLEAN
  BY DEF EditsInv, CallsInv, BuilderTypeOK, PageTypeOK
<1>2. Sent(c)
  BY InFlightSent DEF Settle, RemovalSettles, Answered
<1>3. /\ calls[c] = [at |-> calls[c].at, asks |-> calls[c].asks]
      /\ calls[c].asks \in Payload
  BY <1>1, <1>2 DEF Calls, Sent, Settle, RemovalSettles, Answered
<1> DEFINE e == [at |-> "over", asks |-> calls[c].asks]
<1>4. calls' = [calls EXCEPT ![c] = e]
  <2>1. calls' = [calls EXCEPT ![c].at = "over"]
    BY DEF Settle, RemovalSettles
  <2>2. [calls[c] EXCEPT !.at = "over"] = e
    BY <1>3
  <2> QED
    BY <1>1, <2>1, <2>2
<1>5. \E f \in Calls \ {Unsent} : /\ f.asks = calls[c].asks
                                  /\ calls' = [calls EXCEPT ![c] = f]
  <2>1. e.at # Unsent.at
    BY DEF Unsent
  <2>2. e \in Calls \ {Unsent}
    BY <1>3, <2>1 DEF Calls
  <2> QED
    BY <1>4, <2>2
<1>6. UNCHANGED <<project, sections, shown, draft, armed, mine>> /\ status' \in Statuses
  BY <1>1 DEF Settle, RemovalSettles, Statuses
<1>7. dialog' \in BOOLEAN /\ (dialog' => dialog)
  <2>1. CASE Settle(c)
    BY <1>1, <2>1 DEF Settle
  <2>2. CASE RemovalSettles(c)
    <3>1. dialog' = (dialog /\ (c \in mine => calls[c].at = "failed"))
      BY <2>2 DEF RemovalSettles
    <3> QED
      BY <3>1
  <2> QED
    BY <2>1, <2>2
<1> HIDE DEF e
<1> QED
  BY <1>1, <1>2, <1>5, <1>6, <1>7, ServedKeepEdits

LEMMA DialogKeepsEdits ==
    ASSUME EditsInv, AskRemoval \/ CloseDialog \/ ConfirmRemoval
    PROVE  EditsInv'
<1>1. CASE AskRemoval \/ CloseDialog
  <2>1. /\ UNCHANGED <<builderVars, shown, draft, armed, status, mine>>
        /\ dialog' \in BOOLEAN
        /\ dialog' => dialog \/ shown # None
    BY <1>1 DEF AskRemoval, CloseDialog, Editing
  <2>2. CallsInv' /\ \A t \in Types : Upserts(t)' = Upserts(t)
    BY <2>1 DEF builderVars, EditsInv, CallsInv, BuilderTypeOK, UpsertsCarryContent,
                SentInOrder, Sent, Upserts
  <2>3. PageTypeOK'
    BY <2>1 DEF EditsInv, PageTypeOK
  <2>4. EditorShown'
    BY <2>1 DEF EditsInv, EditorShown
  <2>5. NoEditDropped'
    BY <2>1, <2>2 DEF builderVars, EditsInv, NoEditDropped
  <2> QED
    BY <2>2, <2>3, <2>4, <2>5 DEF EditsInv
<1>2. CASE ConfirmRemoval
  <2>1. CASE shown \in Types
    <3>1. PICK section \in Types : section = shown
      BY <2>1
    <3>2. Send("delete", section, None) /\ UNCHANGED <<project, sections>>
      BY <1>2, <3>1 DEF ConfirmRemoval
    <3>3. /\ CallsInv' /\ NextCall \in Numbers
          /\ \A s \in Types :
                /\ \A d \in Upserts(s) : d \in Upserts(s)' /\ calls'[d].asks = calls[d].asks
                /\ Upserts(s)' = Upserts(s)
      BY <3>2, SentLast DEF EditsInv
    <3>4. PageTypeOK' /\ EditorShown'
      BY <1>2, <3>3 DEF ConfirmRemoval, EditsInv, PageTypeOK, EditorShown
    <3>5. NoEditDropped'
      BY <1>2, <3>3 DEF ConfirmRemoval, EditsInv, NoEditDropped
    <3> QED
      BY <3>3, <3>4, <3>5 DEF EditsInv
  <2> QED
    BY <1>2, <2>1 DEF ConfirmRemoval, EditsInv, PageTypeOK, EditorShown
<1> QED
  BY <1>1, <1>2

-----------------------------------------------------------------------------
(* The workspace.                                                          *)

IInv == SectionsInv /\ EditsInv /\ GenerationsInv

LEMMA WorkspaceInit == Init => IInv
  BY SectionsInit, EditsInit, GenerationsInit DEF Init, IInv

\* What goes on without the page.
LEMMA ServedInductive ==
    ASSUME IInv, BuilderServed
    PROVE  IInv'
<1>1. ASSUME NEW c \in Numbers, ServeSection(c), UNCHANGED <<pageVars, generationVars>>
      PROVE  IInv'
  BY <1>1, SectionsKept, SectionRequestsKeepEdits, GenerationsKept DEF IInv
<1>2. ASSUME NEW s \in {"DRAFT", "FINALIZED"}, UpdateProject(s),
             UNCHANGED <<pageVars, generationVars>>
      PROVE  IInv'
  <2>1. UNCHANGED <<sections, calls>> /\ project' \in {"DRAFT", "FINALIZED", "DELETED"}
    BY <1>2 DEF UpdateProject
  <2>2. sections' \subseteq Rows
    BY <2>1 DEF IInv, EditsInv, CallsInv, BuilderTypeOK
  <2> QED
    BY <1>2, <2>1, <2>2, SectionsKept, ProjectKeepsEdits, GenerationsKept DEF IInv
<1>3. CASE DeleteProject /\ CascadeGenerations /\ UNCHANGED pageVars
  BY <1>3, SectionsKept, ProjectKeepsEdits, GenerationsKept DEF IInv, DeleteProject
<1>4. ASSUME NEW g \in Generations, Generate(g), UNCHANGED <<builderVars, pageVars>>
      PROVE  IInv'
  <2>1. UNCHANGED <<project, sections, calls>>
    BY <1>4 DEF builderVars
  <2>2. sections' \subseteq Rows /\ project' \in {"DRAFT", "FINALIZED", "DELETED"}
    BY <2>1 DEF IInv, EditsInv, CallsInv, BuilderTypeOK
  <2> QED
    BY <1>4, <2>1, <2>2, SectionsKept, ProjectKeepsEdits, GenerationsKept DEF IInv
<1> QED
  BY <1>1, <1>2, <1>3, <1>4 DEF BuilderServed

LEMMA PageInductive ==
    ASSUME IInv, PageNext \/ ClosePage, UNCHANGED generationVars
    PROVE  IInv'
<1>1. UNCHANGED sections
  BY DEF PageNext, ClosePage, Edit, Flush, Leave, OpenSection, AskRemoval, CloseDialog,
         ConfirmRemoval, Settle, RemovalSettles, builderVars
<1>2. EditsInv'
  BY EditorKeepsEdits, SettlingKeepsEdits, DialogKeepsEdits DEF PageNext, IInv
<1> QED
  BY <1>1, <1>2, SectionsKept, GenerationsKept DEF IInv

LEMMA StutterKeeps == ASSUME IInv, UNCHANGED vars PROVE IInv'
<1>1. UNCHANGED <<project, sections, calls, pageVars, generationVars>>
  BY DEF vars, builderVars
<1>2. sections' \subseteq Rows /\ project' \in {"DRAFT", "FINALIZED", "DELETED"}
  BY <1>1 DEF IInv, EditsInv, CallsInv, BuilderTypeOK
<1> QED
  BY <1>1, <1>2, SectionsKept, ProjectKeepsEdits, GenerationsKept DEF IInv

\* Which steps write a generation's row.
LEMMA GenerationSteps ==
    ASSUME BuilderServed \/ UNCHANGED generationVars
    PROVE  \/ \E g \in Generations : Generate(g)
           \/ CascadeGenerations
           \/ UNCHANGED generationVars
  BY DEF BuilderServed

-----------------------------------------------------------------------------
(* The recorder.  A stop event is awaited only by an inactive recorder, a  *)
(* running one is in the phase shown, and only a mounted composer asks.    *)

RecorderInv ==
    /\ RecorderTypeOK
    /\ RecorderHonest
    /\ stopping => machine = "inactive" /\ phase \in {"recording", "paused"}
    /\ machine \in {"recording", "paused"} => phase = machine
    /\ "ours" \in asking => mounted

\* Every step of the hook, whoever takes it.
RecorderStep == \/ RecorderNext
                \/ Mount \/ UnmountComposer
                \/ Start \/ Reset

LEMMA RecorderStarts == RecorderInit => RecorderInv
  BY DEF RecorderInit, RecorderInv, RecorderTypeOK, RecorderPhases, RecorderHonest

LEMMA RecorderInductive == RecorderInv /\ [RecorderStep]_recorderVars => RecorderInv'
<1> SUFFICES ASSUME RecorderInv, [RecorderStep]_recorderVars
             PROVE  RecorderInv'
  OBVIOUS
<1> USE DEF RecorderInv, RecorderTypeOK, RecorderPhases, Owners, RecorderHonest
<1>1. CASE UNCHANGED recorderVars
  BY <1>1 DEF recorderVars
<1>2. CASE Mount
  BY <1>2 DEF Mount
<1>3. CASE UnmountComposer
  BY <1>3 DEF UnmountComposer, Cleanup
<1>4. CASE Start
  BY <1>4 DEF Start, Voice
<1>5. CASE Reset
  BY <1>5 DEF Reset, Voice, Cleanup
<1>6. ASSUME NEW m \in {"voice", "text"}, ChooseMode(m)
      PROVE  RecorderInv'
  BY <1>6 DEF ChooseMode
<1>7. ASSUME NEW o \in Owners, Granted(o)
      PROVE  RecorderInv'
  <2>1. CASE o = "ours"
    BY <1>7, <2>1 DEF Granted
  <2>2. CASE o = "gone"
    BY <1>7, <2>2 DEF Granted
  <2> QED
    BY <2>1, <2>2
<1>8. ASSUME NEW o \in Owners, Denied(o)
      PROVE  RecorderInv'
  <2>1. CASE o = "ours"
    BY <1>8, <2>1 DEF Denied, Cleanup
  <2>2. CASE o = "gone"
    BY <1>8, <2>2 DEF Denied
  <2> QED
    BY <2>1, <2>2
<1>9. CASE PauseRecording \/ ResumeRecording
  <2>1. CASE PauseRecording
    BY <2>1 DEF PauseRecording, Voice
  <2>2. CASE ResumeRecording
    BY <2>2 DEF ResumeRecording, Voice
  <2> QED
    BY <1>9, <2>1, <2>2
<1>10. CASE Stop
  BY <1>10 DEF Stop, Voice
<1>11. CASE Stopped
  BY <1>11 DEF Stopped, Cleanup
<1>12. CASE DeviceFails
  BY <1>12 DEF DeviceFails, Cleanup
<1> QED
  BY <1>1, <1>2, <1>3, <1>4, <1>5, <1>6, <1>7, <1>8, <1>9, <1>10, <1>11, <1>12
     DEF RecorderStep, RecorderNext

\* The room uses the recorder only through its steps.
LEMMA RoomStepsRecorder == ASSUME RoomNext PROVE [RecorderStep]_recorderVars
<1>1. ASSUME NEW s, SetSession(s)
      PROVE  [RecorderStep]_recorderVars
  BY <1>1 DEF SetSession, RecorderStep
<1>2. ASSUME CloseRoom
      PROVE  [RecorderStep]_recorderVars
  BY <1>2 DEF CloseRoom, RecorderStep
<1>3. CASE RecorderNext \/ Start \/ Reset \/ SubmitAudio
  BY <1>3 DEF SubmitAudio, RecorderStep
<1>4. CASE SubmitText \/ Retry \/ GiveUp \/ MoveFails
  BY <1>4 DEF SubmitText, Retry, GiveUp, MoveFails
<1>5. ASSUME NEW p \in Posts,
             Receive(p) \/ Unauthorized(p) \/ HandleAnswer(p) \/ CommitAnswer(p) \/ AnswerFails(p)
      PROVE  [RecorderStep]_recorderVars
  BY <1>2, <1>5 DEF Receive, Unauthorized, HandleAnswer, CommitAnswer, AnswerFails
<1>6. ASSUME NEW target, BeginMove(target)
      PROVE  [RecorderStep]_recorderVars
  BY <1>6 DEF BeginMove
<1>7. CASE MoveSucceeds \/ Refetch \/ RefetchFails
  BY <1>1, <1>7 DEF MoveSucceeds, Refetch, RefetchFails
<1> QED
  BY <1>2, <1>3, <1>4, <1>5, <1>6, <1>7 DEF RoomNext

-----------------------------------------------------------------------------
(* The room.  As long as no post was seen to fail, the k-th post answers   *)
(* the k-th question, all but the last have been served and received, and  *)
(* the page's last cycle is at most one step behind the backend.           *)

Lossless == \A p \in Posted : ~posts[p].lost

After(k) == IF k = 0 THEN NoCycle
            ELSE [next |-> IF k = LastQuestion THEN 0 ELSE k + 1,
                  completed |-> k = LastQuestion]

Faithful(k) ==
    /\ ~failed
    /\ \A p \in 1 .. k : /\ ~posts[p].retry
                         /\ posts[p].shown = p /\ posts[p].question \in {0, p}
                         /\ posts[p].at \in {"handling", "served"} => posts[p].question = p
                         /\ p < k => posts[p].at = "served"
    /\ server.current = IF k = 0 THEN 1
                        ELSE IF posts[k].at = "served" /\ k < LastQuestion THEN k + 1 ELSE k
    /\ k = 0 => session.current = 1
    /\ \/ awaited = 0 /\ cycle = After(k) /\ (k # 0 => posts[k].at = "served")
       \/ k # 0 /\ awaited = k /\ cycle = After(k - 1)

PagesTyped ==
    /\ server \in [status : RoomStatuses, current : 1 .. LastQuestion]
    /\ session \in [status : RoomStatuses \union {"UNKNOWN"}, current : 1 .. LastQuestion]
    /\ cycle \in [next : 0 .. LastQuestion, completed : BOOLEAN]
    /\ failed \in BOOLEAN
    /\ moving \in {"none", "PAUSED", "RUNNING", "CANCELLED"}
    /\ open \in BOOLEAN

ComposerOpen == /\ mounted => open
                /\ cycle.completed => ~open

PostsInv(k) ==
    /\ posts \in [Posts -> Post \union {Unposted}]
    /\ Posted = 1 .. k
    /\ awaited \in {0} \union Posted
    /\ awaited # 0 => ~posts[awaited].lost
    /\ Lossless => Faithful(k)

RoomInv == /\ PagesTyped /\ ComposerOpen
           /\ \E k \in 0 .. MaxPosts : PostsInv(k)

LEMMA PostIsPosted == Unposted \notin Post
<1>1. \A p \in Post : p.at # Unposted.at
  BY DEF Post, Unposted
<1> QED
  BY <1>1

LEMMA RoomStarts == RecorderInit /\ RoomInit => RoomInv
<1> SUFFICES ASSUME RecorderInit, RoomInit
             PROVE  RoomInv
  OBVIOUS
<1>1. 1 \in 1 .. LastQuestion /\ 0 \in 0 .. LastQuestion
  BY RoomAssumption
<1>2. PagesTyped
  BY <1>1 DEF RoomInit, PagesTyped, RoomStatuses, NoCycle
<1>3. ComposerOpen
  BY DEF RoomInit, ComposerOpen, NoCycle
<1>4. PostsInv(0)
  <2>1. Posted = {} /\ posts \in [Posts -> Post \union {Unposted}]
    BY DEF RoomInit, Posted
  <2>2. Faithful(0)
    BY DEF RoomInit, Faithful, After
  <2> QED
    BY <2>1, <2>2 DEF PostsInv, RoomInit
<1> QED
  BY <1>2, <1>3, <1>4, RoomAssumption DEF RoomInv

\* Steps that leave the posts and what the page believes of them alone.
LEMMA QuietStep ==
    ASSUME RoomInv, PagesTyped', ComposerOpen',
           UNCHANGED <<cycle, posts, awaited, failed>>,
           server'.current = server.current,
           session'.current \in {session.current, server.current}
    PROVE  RoomInv'
<1>1. PICK k \in 0 .. MaxPosts : PostsInv(k)
  BY DEF RoomInv
<1>2. Lossless' => Lossless
  BY DEF Lossless, Posted
<1>3. Faithful(k) => Faithful(k)'
  BY DEF Faithful
<1> QED
  BY <1>1, <1>2, <1>3 DEF RoomInv, PostsInv, Posted, Lossless

\* A post that moves on, still neither lost nor for another question.
LEMMA PostStep ==
    ASSUME RoomInv, PagesTyped', ComposerOpen', NEW p \in Posted, NEW e \in Post,
           posts' = [posts EXCEPT ![p] = e],
           e.shown = posts[p].shown, e.retry = posts[p].retry, e.lost = posts[p].lost,
           UNCHANGED <<session, cycle, awaited, failed>>,
           posts[p].at # "served",
           \/ /\ e.at # "served" /\ UNCHANGED server
              /\ e.question \in {posts[p].question, server.current}
              /\ e.at = "handling" => e.question = server.current
           \/ /\ e.at = "served" /\ e.question = posts[p].question
              /\ posts[p].question = server.current
              /\ server'.current = IF server.current = LastQuestion THEN server.current
                                   ELSE server.current + 1
    PROVE  RoomInv'
<1>1. PICK k \in 0 .. MaxPosts : PostsInv(k)
  BY DEF RoomInv
<1>2. posts'[p] = e /\ \A q \in Posts : q # p => posts'[q] = posts[q]
  BY <1>1 DEF PostsInv, Posted
<1>3. Posted' = Posted /\ Posted \subseteq Posts
  BY <1>2, PostIsPosted DEF Posted
<1>4. posts' \in [Posts -> Post \union {Unposted}]
  BY <1>1 DEF PostsInv
<1>5. ASSUME Lossless'
      PROVE  Faithful(k)'
  <2>1. Lossless
    BY <1>2, <1>3, <1>5 DEF Lossless
  <2>2. Faithful(k) /\ p \in 1 .. k
    BY <1>1, <2>1 DEF PostsInv
  <2>3. p = k /\ k \in 1 .. MaxPosts
    BY <1>1, <2>2, RoomAssumption DEF Faithful
  <2>4. server.current = k /\ posts[k].shown = k /\ k <= LastQuestion
    <3>1. posts[k].shown \in 1 .. LastQuestion
      BY <1>1, <1>3, <2>3 DEF PostsInv, Posted, Post
    <3> QED
      BY <2>2, <2>3, <3>1 DEF Faithful
  <2>5. awaited' = k /\ cycle' = After(k - 1)
    BY <2>2, <2>3 DEF Faithful
  <2>6. e.at \in {"handling", "served"} => e.question = k
    BY <2>4
  <2>7. e.question \in {0, k}
    BY <2>2, <2>3, <2>4 DEF Faithful
  <2>8. server'.current = IF e.at = "served" /\ k < LastQuestion THEN k + 1 ELSE k
    BY <2>3, <2>4, RoomAssumption
  <2>9. ASSUME NEW q \in 1 .. k
        PROVE  /\ ~posts'[q].retry
               /\ posts'[q].shown = q /\ posts'[q].question \in {0, q}
               /\ posts'[q].at \in {"handling", "served"} => posts'[q].question = q
               /\ q < k => posts'[q].at = "served"
    <3>1. CASE q = k
      BY <1>2, <2>2, <2>3, <2>6, <2>7, <3>1 DEF Faithful
    <3>2. CASE q # k
      <4>1. q \in Posts
        BY <1>1, <1>3 DEF PostsInv
      <4> QED
        BY <1>2, <2>2, <2>3, <3>2, <4>1 DEF Faithful
    <3> QED
      BY <3>1, <3>2
  <2> QED
    BY <1>2, <2>2, <2>3, <2>5, <2>8, <2>9 DEF Faithful
<1> QED
  BY <1>1, <1>3, <1>4, <1>5 DEF RoomInv, PostsInv

\* A new post, by the user or by the Retry button.
LEMMA NewPost ==
    ASSUME RoomInv, PagesTyped', ComposerOpen', NEW n \in 1 .. LastQuestion,
           NEW retry \in BOOLEAN, Mutate(n, retry), UNCHANGED <<server, session, cycle>>,
           Lossless => ~retry /\ awaited = 0 /\ n = Shown /\ ~cycle.completed
    PROVE  RoomInv'
<1>1. PICK k \in 0 .. MaxPosts : PostsInv(k)
  BY DEF RoomInv
<1> DEFINE e == [at |-> "sent", shown |-> n, question |-> 0, retry |-> retry, lost |-> FALSE]
<1>2. Cardinality(Posted) = k
  BY <1>1, FS_Interval, RoomAssumption DEF PostsInv
<1>3. k < MaxPosts
  BY <1>1, RoomAssumption DEF Mutate, CanPost, PostsInv, Posts
<1>4. /\ posts' = [posts EXCEPT ![k + 1] = e]
      /\ awaited' = k + 1 /\ ~failed'
  BY <1>2 DEF Mutate, NextPost
<1>5. e \in Post /\ k + 1 \in Posts
  BY <1>3, RoomAssumption DEF Post, Posts
<1>6. posts' \in [Posts -> Post \union {Unposted}]
  BY <1>1, <1>4, <1>5 DEF PostsInv
<1>7. posts'[k + 1] = e /\ \A q \in Posts : q # k + 1 => posts'[q] = posts[q]
  BY <1>1, <1>4, <1>5 DEF PostsInv
<1>8. Posted' = 1 .. (k + 1)
  <2>1. Posted' = Posted \union {k + 1}
    BY <1>5, <1>7, PostIsPosted DEF Posted
  <2> QED
    BY <1>1, <2>1 DEF PostsInv
<1>9. ASSUME Lossless'
      PROVE  Faithful(k + 1)'
  <2>1. Lossless
    BY <1>1, <1>7, <1>8, <1>9, <1>3 DEF Lossless, Posted, PostsInv
  <2>2. Faithful(k)
    BY <1>1, <2>1 DEF PostsInv
  <2>3. awaited = 0 /\ cycle = After(k) /\ (k # 0 => posts[k].at = "served") /\ ~retry
    BY <2>1, <2>2 DEF Faithful
  <2>4. k # LastQuestion /\ n = k + 1
    <3>1. CASE k = 0
      BY <2>1, <2>2, <2>3, <3>1, RoomAssumption DEF Faithful, After, NoCycle, Shown
    <3>2. CASE k # 0
      <4>1. cycle = [next |-> IF k = LastQuestion THEN 0 ELSE k + 1,
                     completed |-> k = LastQuestion]
        BY <2>3, <3>2 DEF After
      <4>2. k # LastQuestion
        BY <2>1, <4>1
      <4>3. cycle.next = k + 1
        BY <4>1, <4>2
      <4> QED
        BY <2>1, <4>2, <4>3, RoomAssumption DEF Shown
    <3> QED
      BY <3>1, <3>2
  <2>5. server.current = k + 1
    <3>1. k < LastQuestion
      BY <2>4, RoomAssumption
    <3> QED
      BY <2>2, <2>3, <3>1 DEF Faithful
  <2>6. ASSUME NEW q \in 1 .. (k + 1)
        PROVE  /\ ~posts'[q].retry
               /\ posts'[q].shown = q /\ posts'[q].question \in {0, q}
               /\ posts'[q].at \in {"handling", "served"} => posts'[q].question = q
               /\ q < k + 1 => posts'[q].at = "served"
    <3>1. CASE q = k + 1
      BY <1>7, <2>3, <2>4, <3>1
    <3>2. CASE q # k + 1
      <4>1. q \in 1 .. k /\ q \in Posts
        BY <1>3, <3>2, RoomAssumption DEF Posts
      <4>2. posts'[q] = posts[q]
        BY <1>7, <3>2, <4>1
      <4>3. q < k => posts[q].at = "served"
        BY <2>2, <4>1 DEF Faithful
      <4>4. posts[q].at = "served"
        BY <2>3, <4>1, <4>3, RoomAssumption
      <4> QED
        BY <2>2, <4>1, <4>2, <4>4 DEF Faithful
    <3> QED
      BY <3>1, <3>2
  <2>7. posts'[k + 1].at = "sent"
    BY <1>7
  <2> QED
    BY <1>4, <2>3, <2>5, <2>6, <2>7 DEF Faithful
<1>10. awaited' \in Posted' /\ ~posts'[awaited'].lost
  BY <1>4, <1>7, <1>8
<1>11. PostsInv(k + 1)'
  BY <1>10, <1>6, <1>8, <1>9 DEF PostsInv
<1> QED
  BY <1>3, <1>11, RoomAssumption DEF RoomInv

\* A post that is seen to fail: nothing is promised from then on.
LEMMA LostPost ==
    ASSUME RoomInv, PagesTyped', ComposerOpen', NEW p \in Posted,
           posts' = [posts EXCEPT ![p].lost = TRUE], awaited' = 0
    PROVE  RoomInv'
<1>1. PICK k \in 0 .. MaxPosts : PostsInv(k)
  BY DEF RoomInv
<1>2. p \in Posts /\ posts[p] \in Post
  BY <1>1 DEF PostsInv, Posted
<1>3. /\ posts'[p] = [posts[p] EXCEPT !.lost = TRUE]
      /\ posts'[p] \in Post /\ posts'[p].lost
      /\ \A q \in Posts : q # p => posts'[q] = posts[q]
      /\ posts' \in [Posts -> Post \union {Unposted}]
  BY <1>1, <1>2 DEF PostsInv, Post
<1>4. Posted' = Posted
  BY <1>2, <1>3, PostIsPosted DEF Posted
<1>5. ~Lossless'
  BY <1>3, <1>4 DEF Lossless
<1> QED
  BY <1>1, <1>3, <1>4, <1>5 DEF RoomInv, PostsInv

\* The answer of the post that was awaited.
LEMMA Received ==
    ASSUME RoomInv, PagesTyped', ComposerOpen', NEW p \in Posted, p = awaited,
           posts[p].at = "served", awaited' = 0, ~failed',
           posts' = [posts EXCEPT ![p].lost = FALSE], UNCHANGED <<server, session>>,
           ~posts[p].retry /\ posts[p].question # 0 => cycle' = After(posts[p].question)
    PROVE  RoomInv'
<1>1. PICK k \in 0 .. MaxPosts : PostsInv(k)
  BY DEF RoomInv
<1>2. p \in Posts /\ posts[p] \in Post
  BY <1>1 DEF PostsInv, Posted
<1>3. /\ posts'[p] \in Post
      /\ posts'[p].at = posts[p].at /\ posts'[p].shown = posts[p].shown
      /\ posts'[p].question = posts[p].question /\ posts'[p].retry = posts[p].retry
      /\ \A q \in Posts : q # p => posts'[q] = posts[q]
      /\ posts' \in [Posts -> Post \union {Unposted}]
  BY <1>1, <1>2 DEF PostsInv, Post
<1>4. Posted' = Posted
  BY <1>2, <1>3, PostIsPosted DEF Posted
<1>5. CASE posts[p].lost = FALSE
  <2>1. posts' = posts
    BY <1>1, <1>2, <1>5 DEF PostsInv, Post
  <2>2. ASSUME Lossless
        PROVE  Faithful(k)'
    <3>1. Faithful(k)
      BY <1>1, <2>2 DEF PostsInv
    <3>2. p \in 1 .. k
      BY <1>1 DEF PostsInv
    <3>3. p = k
      BY <3>1, <3>2 DEF Faithful
    <3>4. ~posts[p].retry /\ posts[p].question = k /\ k # 0
      BY <3>1, <3>2, <3>3 DEF Faithful
    <3>5. cycle' = After(k)
      BY <3>4
    <3> QED
      BY <2>1, <3>1, <3>3, <3>5 DEF Faithful
  <2>3. Lossless' => Lossless
    BY <2>1 DEF Lossless, Posted
  <2> QED
    BY <1>1, <1>3, <1>4, <2>2, <2>3 DEF RoomInv, PostsInv
<1>6. posts[p].lost = FALSE
  <2>1. p # 0
    BY <1>2, RoomAssumption DEF Posts
  <2> QED
    BY <1>1, <1>2, <2>1 DEF PostsInv, Post
<1> QED
  BY <1>5, <1>6

-----------------------------------------------------------------------------
(* Every step of the room.                                                 *)

\* Only the room opens a composer, and it closes it when it goes.
LEMMA ComposerStep ==
    ASSUME RoomInv, RoomNext
    PROVE  ComposerOpen'
<1>1. ASSUME NEW s, SetSession(s), open, UNCHANGED <<cycle, open>>
      PROVE  ComposerOpen'
  BY <1>1 DEF RoomInv, ComposerOpen
<1>2. ASSUME CloseRoom
      PROVE  ComposerOpen'
  BY <1>2 DEF CloseRoom, UnmountComposer, ComposerOpen, recorderVars
<1>3. ASSUME UNCHANGED mounted, UNCHANGED cycle, UNCHANGED open
      PROVE  ComposerOpen'
  BY <1>3 DEF RoomInv, ComposerOpen
<1>4. CASE RecorderNext /\ UNCHANGED roomPageVars
  BY <1>3, <1>4 DEF RecorderNext, ChooseMode, Granted, Denied, PauseRecording,
                    ResumeRecording, Stop, Stopped, DeviceFails, roomPageVars
<1>5. CASE (Start \/ Reset) /\ UNCHANGED roomPageVars
  BY <1>3, <1>5 DEF Start, Reset, roomPageVars
<1>6. CASE SubmitAudio \/ SubmitText \/ Retry \/ GiveUp \/ MoveFails
  BY <1>3, <1>6 DEF SubmitAudio, Reset, SubmitText, Retry, GiveUp, MoveFails, recorderVars
<1>7. ASSUME NEW p \in Posts, Receive(p)
      PROVE  ComposerOpen'
  <2>1. CASE CloseRoom
    BY <1>2, <2>1
  <2>2. CASE UNCHANGED <<recorderVars, open>> /\ ~cycle'.completed
    BY <2>2 DEF RoomInv, ComposerOpen, recorderVars
  <2>3. CASE UNCHANGED <<recorderVars, open, cycle>>
    BY <1>3, <2>3 DEF recorderVars
  <2>4. \/ UNCHANGED <<recorderVars, cycle, open>>
        \/ posts[p].question = LastQuestion /\ CloseRoom
        \/ /\ posts[p].question # LastQuestion /\ UNCHANGED <<recorderVars, open>>
           /\ cycle' = [next |-> posts[p].question + 1, completed |-> FALSE]
    BY <1>7 DEF Receive
  <2> QED
    BY <2>1, <2>2, <2>3, <2>4
<1>8. ASSUME NEW p \in Posts, Unauthorized(p) \/ HandleAnswer(p) \/ CommitAnswer(p) \/ AnswerFails(p)
      PROVE  ComposerOpen'
  BY <1>2, <1>3, <1>8 DEF Unauthorized, HandleAnswer, CommitAnswer, AnswerFails, recorderVars
<1>9. ASSUME NEW target, BeginMove(target)
      PROVE  ComposerOpen'
  BY <1>3, <1>9 DEF BeginMove, recorderVars
<1>10. CASE MoveSucceeds \/ Refetch \/ RefetchFails
  BY <1>1, <1>10 DEF MoveSucceeds, Refetch, RefetchFails
<1>11. CASE CloseRoom
  BY <1>2, <1>11
<1> QED
  BY <1>4, <1>5, <1>6, <1>7, <1>8, <1>9, <1>10, <1>11 DEF RoomNext

\* What the typing of a step of the page takes from the posts.
LEMMA PostsTyped ==
    ASSUME RoomInv
    PROVE  /\ posts \in [Posts -> Post \union {Unposted}] /\ Posted \subseteq Posts
           /\ \A p \in Posted : posts[p] \in Post
           /\ awaited # 0 => awaited \in Posted
           /\ failed => Posted # {} /\ posts[Cardinality(Posted)].shown \in 1 .. LastQuestion
<1>1. PICK k \in 0 .. MaxPosts : PostsInv(k)
  BY DEF RoomInv
<1>2. posts \in [Posts -> Post \union {Unposted}] /\ Posted \subseteq Posts
  BY <1>1 DEF PostsInv, Posted
<1>3. \A p \in Posted : posts[p] \in Post
  BY <1>2 DEF Posted
<1>4. ASSUME failed
      PROVE  Posted # {} /\ posts[Cardinality(Posted)].shown \in 1 .. LastQuestion
  <2>1. ~Lossless
    BY <1>1, <1>4 DEF PostsInv, Faithful
  <2>2. Posted # {}
    BY <2>1 DEF Lossless
  <2>3. Cardinality(Posted) = k /\ k \in Posted
    BY <1>1, <2>2, FS_Interval, RoomAssumption DEF PostsInv
  <2> QED
    BY <1>3, <2>2, <2>3 DEF Post
<1> QED
  BY <1>1, <1>2, <1>3, <1>4 DEF PostsInv

LEMMA PostingKeepsRoom ==
    ASSUME RoomInv, SubmitAudio \/ SubmitText \/ Retry
    PROVE  RoomInv'
<1>1. ComposerOpen'
  BY ComposerStep DEF RoomNext
<1>2. PagesTyped'
  BY DEF SubmitAudio, SubmitText, Retry, Mutate, RoomInv, PagesTyped
<1>3. CASE SubmitAudio \/ SubmitText
  <2>1. Shown \in 1 .. LastQuestion /\ ~cycle.completed /\ awaited = 0
    <3>1. PagesTyped /\ ComposerOpen
      BY DEF RoomInv
    <3>2. mounted /\ awaited = 0
      BY <1>3 DEF SubmitAudio, SubmitText, Reset, Voice, Pending
    <3>3. ~cycle.completed
      BY <3>1, <3>2 DEF ComposerOpen
    <3>4. session.current \in 1 .. LastQuestion /\ cycle.next \in 0 .. LastQuestion
      BY <3>1 DEF PagesTyped
    <3> QED
      BY <3>2, <3>3, <3>4, RoomAssumption DEF Shown
  <2>2. PICK n \in 1 .. LastQuestion : n = Shown
    BY <2>1
  <2>3. Mutate(n, FALSE) /\ UNCHANGED <<server, session, cycle>>
    BY <1>3, <2>2 DEF SubmitAudio, SubmitText
  <2> QED
    BY <1>1, <1>2, <2>1, <2>2, <2>3, NewPost
<1>4. CASE Retry
  <2>1. PICK n \in 1 .. LastQuestion : n = posts[Cardinality(Posted)].shown
    BY <1>4, PostsTyped DEF Retry
  <2>2. ~Lossless
    BY <1>4 DEF Retry, RoomInv, PostsInv, Faithful
  <2>3. Mutate(n, TRUE) /\ UNCHANGED <<server, session, cycle>>
    BY <1>4, <2>1 DEF Retry
  <2> QED
    BY <1>1, <1>2, <2>2, <2>3, NewPost
<1> QED
  BY <1>3, <1>4

LEMMA ServingKeepsRoom ==
    ASSUME RoomInv, NEW p \in Posts,
           Unauthorized(p) \/ HandleAnswer(p) \/ CommitAnswer(p) \/ AnswerFails(p)
    PROVE  RoomInv'
<1>1. ComposerOpen'
  BY ComposerStep DEF RoomNext
<1>2. p \in Posted /\ posts[p] \in Post /\ posts[p].at \in {"sent", "replayed", "handling"}
  BY PostsTyped DEF Unauthorized, HandleAnswer, CommitAnswer, AnswerFails, At
<1>3. /\ UNCHANGED <<session, cycle, awaited, failed, moving>>
      /\ open' \in BOOLEAN
  BY DEF Unauthorized, HandleAnswer, CommitAnswer, AnswerFails, CloseRoom, RoomInv, PagesTyped
<1>4. ASSUME NEW point \in {"replayed", "refused"}, Becomes(p, point), UNCHANGED server
      PROVE  RoomInv'
  <2> DEFINE e == [posts[p] EXCEPT !.at = point]
  <2>1. /\ e \in Post /\ e.at = point /\ e.shown = posts[p].shown /\ e.retry = posts[p].retry
        /\ e.lost = posts[p].lost /\ e.question = posts[p].question
    BY <1>2 DEF Post
  <2>2. posts' = [posts EXCEPT ![p] = e]
    BY <1>4, PostsTyped DEF Becomes
  <2>3. PagesTyped'
    BY <1>3, <1>4 DEF RoomInv, PagesTyped
  <2> HIDE DEF e
  <2> QED
    BY <1>1, <1>2, <1>3, <1>4, <2>1, <2>2, <2>3, PostStep
<1>5. ASSUME HandleAnswer(p), server.status = "RUNNING"
      PROVE  RoomInv'
  <2> DEFINE e == [posts[p] EXCEPT !.at = "handling", !.question = server.current]
  <2>1. /\ e.at = "handling" /\ e.shown = posts[p].shown /\ e.retry = posts[p].retry
        /\ e.lost = posts[p].lost /\ e.question = server.current
    BY <1>2 DEF Post
  <2>2. e \in Post
    <3>1. server.current \in 1 .. LastQuestion
      BY DEF RoomInv, PagesTyped
    <3>2. server.current \in 0 .. LastQuestion
      BY <3>1, RoomAssumption
    <3> DEFINE d == [posts[p] EXCEPT !.at = "handling"]
    <3>3. d \in Post
      BY <1>2 DEF Post
    <3>4. e = [d EXCEPT !.question = server.current]
      BY <1>2 DEF Post
    <3> HIDE DEF d, e
    <3>5. [d EXCEPT !.question = server.current] \in Post
      BY <3>2, <3>3 DEF Post
    <3> QED
      BY <3>4, <3>5
  <2>3. posts' = [posts EXCEPT ![p] = e]
    BY <1>5, PostsTyped DEF HandleAnswer
  <2>4. PagesTyped' /\ UNCHANGED server
    BY <1>3, <1>5 DEF HandleAnswer, RoomInv, PagesTyped
  <2> HIDE DEF e
  <2> QED
    BY <1>1, <1>2, <1>3, <2>1, <2>2, <2>3, <2>4, PostStep
<1>6. CASE CommitAnswer(p)
  <2> DEFINE e == [posts[p] EXCEPT !.at = "served"]
  <2>1. /\ e \in Post /\ e.at = "served" /\ e.shown = posts[p].shown /\ e.retry = posts[p].retry
        /\ e.lost = posts[p].lost /\ e.question = posts[p].question
    BY <1>2 DEF Post
  <2>2. posts' = [posts EXCEPT ![p] = e]
    BY <1>6, PostsTyped DEF CommitAnswer, Becomes
  <2>3. /\ posts[p].question = server.current
        /\ server'.current = IF server.current = LastQuestion THEN server.current
                             ELSE server.current + 1
        /\ server' \in [status : RoomStatuses, current : 1 .. LastQuestion]
    <3>1. server \in [status : RoomStatuses, current : 1 .. LastQuestion]
      BY DEF RoomInv, PagesTyped
    <3>2. CASE server.current = LastQuestion
      BY <1>6, <3>1, <3>2 DEF CommitAnswer, RoomStatuses
    <3>3. CASE server.current # LastQuestion
      BY <1>6, <3>1, <3>3, RoomAssumption DEF CommitAnswer
    <3> QED
      BY <3>2, <3>3
  <2>4. PagesTyped'
    BY <1>3, <2>3 DEF RoomInv, PagesTyped
  <2> HIDE DEF e
  <2> QED
    BY <1>1, <1>2, <1>3, <2>1, <2>2, <2>3, <2>4, PostStep
<1> QED
  BY <1>4, <1>5, <1>6 DEF Unauthorized, HandleAnswer, AnswerFails, Becomes

LEMMA AnsweringKeepsRoom ==
    ASSUME RoomInv, NEW p \in Posts, Receive(p) \/ GiveUp
    PROVE  RoomInv'
<1>1. ComposerOpen'
  BY ComposerStep DEF RoomNext
<1>2. CASE GiveUp
  <2>1. PICK q \in Posted : q = awaited
    BY <1>2, PostsTyped DEF GiveUp, Pending
  <2>2. PagesTyped'
    BY <1>2 DEF GiveUp, RoomInv, PagesTyped
  <2> QED
    BY <1>1, <1>2, <2>1, <2>2, LostPost DEF GiveUp
<1>3. CASE Receive(p)
  <2>1. /\ p \in Posted /\ posts[p] \in Post /\ p = awaited /\ awaited' = 0
        /\ posts[p].at \in {"served", "refused"}
        /\ failed' = (posts[p].at = "refused")
        /\ posts' = [posts EXCEPT ![p].lost = failed']
        /\ UNCHANGED <<server, session, moving>>
    BY <1>3, PostsTyped DEF Receive, At
  <2>2. \/ UNCHANGED <<cycle, open>> /\ (failed' \/ posts[p].retry)
        \/ /\ posts[p].question = LastQuestion /\ open' = FALSE
           /\ cycle' = [next |-> 0, completed |-> TRUE]
        \/ /\ posts[p].question # LastQuestion /\ open' = open
           /\ cycle' = [next |-> posts[p].question + 1, completed |-> FALSE]
    BY <1>3 DEF Receive, CloseRoom
  <2>3. cycle' \in [next : 0 .. LastQuestion, completed : BOOLEAN] /\ open' \in BOOLEAN
    <3>1. posts[p].question \in 0 .. LastQuestion
      BY <2>1 DEF Post
    <3>2. /\ cycle \in [next : 0 .. LastQuestion, completed : BOOLEAN]
          /\ open \in BOOLEAN
      BY DEF RoomInv, PagesTyped
    <3>3. CASE UNCHANGED <<cycle, open>>
      BY <3>2, <3>3
    <3>4. CASE cycle' = [next |-> 0, completed |-> TRUE] /\ open' = FALSE
      <4>1. 0 \in 0 .. LastQuestion
        BY RoomAssumption
      <4>2. cycle' \in [next : 0 .. LastQuestion, completed : BOOLEAN]
        BY <3>4, <4>1
      <4>3. open' \in BOOLEAN
        BY <3>4
      <4> QED
        BY <4>2, <4>3
    <3>5. CASE /\ posts[p].question # LastQuestion /\ open' = open
               /\ cycle' = [next |-> posts[p].question + 1, completed |-> FALSE]
      <4>1. posts[p].question + 1 \in 0 .. LastQuestion
        BY <3>1, <3>5, RoomAssumption
      <4> QED
        BY <3>2, <3>5, <4>1
    <3> QED
      BY <2>2, <3>3, <3>4, <3>5
  <2>4. PagesTyped'
    BY <2>1, <2>3 DEF RoomInv, PagesTyped
  <2>5. CASE posts[p].at = "refused"
    <3>1. posts' = [posts EXCEPT ![p].lost = TRUE]
      BY <2>1, <2>5
    <3> QED
      BY <1>1, <2>1, <2>4, <3>1, LostPost
  <2>6. CASE posts[p].at = "served"
    <3>1. failed' = FALSE /\ posts' = [posts EXCEPT ![p].lost = FALSE]
      BY <2>1, <2>6
    <3>2. ASSUME ~posts[p].retry, posts[p].question # 0
          PROVE  cycle' = After(posts[p].question)
      <4>1. ~(failed' \/ posts[p].retry)
        BY <3>1, <3>2
      <4>2. cycle' = [next |-> IF posts[p].question = LastQuestion THEN 0
                               ELSE posts[p].question + 1,
                      completed |-> posts[p].question = LastQuestion]
        BY <2>2, <4>1
      <4> QED
        BY <3>2, <4>2 DEF After
    <3> QED
      BY <1>1, <2>1, <2>4, <2>6, <3>1, <3>2, Received
  <2> QED
    BY <2>1, <2>5, <2>6
<1> QED
  BY <1>2, <1>3

LEMMA SessionKeepsRoom ==
    ASSUME RoomInv, MoveSucceeds \/ MoveFails \/ Refetch \/ RefetchFails
    PROVE  RoomInv'
<1>1. ComposerOpen'
  BY ComposerStep DEF RoomNext
<1>2. UNCHANGED <<cycle, posts, awaited, failed, open>>
  BY DEF MoveSucceeds, MoveFails, Refetch, RefetchFails
<1>3. PagesTyped
  BY DEF RoomInv
<1>4. CASE MoveSucceeds
  <2>1. moving \in {"PAUSED", "RUNNING", "CANCELLED"}
    BY <1>3, <1>4 DEF MoveSucceeds, PagesTyped
  <2>2. /\ server' = [server EXCEPT !.status = moving]
        /\ session' = [status |-> moving,
                       current |-> IF moving = "RUNNING" THEN server.current
                                   ELSE session.current]
        /\ moving' = "none"
    BY <1>4 DEF MoveSucceeds, SetSession
  <2>3. PagesTyped'
    BY <1>2, <1>3, <2>1, <2>2 DEF PagesTyped, RoomStatuses
  <2>4. /\ server'.current = server.current
        /\ session'.current \in {session.current, server.current}
    BY <1>3, <2>2 DEF PagesTyped
  <2> QED
    BY <1>1, <1>2, <2>3, <2>4, QuietStep
<1>5. CASE MoveFails
  <2>1. /\ \/ server' = server
           \/ server' = [server EXCEPT !.status = moving] /\ moving \in RoomStatuses
        /\ moving' = "none" /\ session' = session
    BY <1>3, <1>5 DEF MoveFails, PagesTyped, RoomStatuses
  <2>2. PagesTyped' /\ server'.current = server.current
    BY <1>2, <1>3, <2>1 DEF PagesTyped
  <2> QED
    BY <1>1, <1>2, <2>1, <2>2, QuietStep
<1>6. CASE Refetch
  <2>1. session' = server /\ UNCHANGED <<server, moving>>
    BY <1>6 DEF Refetch, SetSession
  <2>2. PagesTyped'
    BY <1>2, <1>3, <2>1 DEF PagesTyped
  <2> QED
    BY <1>1, <1>2, <2>1, <2>2, QuietStep
<1>7. CASE RefetchFails
  <2>1. session' = [session EXCEPT !.status = "UNKNOWN"] /\ UNCHANGED <<server, moving>>
    BY <1>7 DEF RefetchFails, SetSession
  <2>2. PagesTyped' /\ session'.current = session.current
    BY <1>2, <1>3, <2>1 DEF PagesTyped
  <2> QED
    BY <1>1, <1>2, <2>1, <2>2, QuietStep
<1> QED
  BY <1>4, <1>5, <1>6, <1>7

LEMMA RoomInductive == RoomInv /\ [RoomNext]_roomVars => RoomInv'
<1> SUFFICES ASSUME RoomInv, [RoomNext]_roomVars
             PROVE  RoomInv'
  OBVIOUS
<1>1. ASSUME ComposerOpen', UNCHANGED <<server, session, cycle, posts, awaited, failed>>,
             moving' \in {"none", "PAUSED", "RUNNING", "CANCELLED"}, open' \in BOOLEAN
      PROVE  RoomInv'
  <2>1. PagesTyped'
    BY <1>1 DEF RoomInv, PagesTyped
  <2> QED
    BY <1>1, <2>1, QuietStep
<1>2. moving \in {"none", "PAUSED", "RUNNING", "CANCELLED"} /\ open \in BOOLEAN
  BY DEF RoomInv, PagesTyped
<1>3. CASE UNCHANGED roomVars
  <2>1. ComposerOpen'
    BY <1>3 DEF roomVars, recorderVars, roomPageVars, RoomInv, ComposerOpen
  <2> QED
    BY <1>1, <1>2, <1>3, <2>1 DEF roomVars, roomPageVars
<1>4. CASE RoomNext
  <2>1. ComposerOpen'
    BY <1>4, ComposerStep
  <2>2. CASE UNCHANGED roomPageVars
    BY <1>1, <1>2, <2>1, <2>2 DEF roomPageVars
  <2>3. CASE SubmitAudio \/ SubmitText \/ Retry
    BY <2>3, PostingKeepsRoom
  <2>4. ASSUME NEW p \in Posts,
               Unauthorized(p) \/ HandleAnswer(p) \/ CommitAnswer(p) \/ AnswerFails(p)
        PROVE  RoomInv'
    BY <2>4, ServingKeepsRoom
  <2>5. ASSUME NEW p \in Posts, Receive(p)
        PROVE  RoomInv'
    BY <2>5, AnsweringKeepsRoom
  <2>6. CASE GiveUp
    <3>1. PICK p \in Posts : p = awaited
      BY <2>6, PostsTyped DEF GiveUp, Pending
    <3> QED
      BY <2>6, <3>1, AnsweringKeepsRoom
  <2>7. ASSUME NEW target \in {"PAUSED", "RUNNING", "CANCELLED"}, BeginMove(target)
        PROVE  RoomInv'
    BY <1>1, <1>2, <2>1, <2>7 DEF BeginMove
  <2>8. CASE MoveSucceeds \/ MoveFails \/ Refetch \/ RefetchFails
    BY <2>8, SessionKeepsRoom
  <2>9. CASE CloseRoom /\ UNCHANGED <<server, session, cycle, posts, awaited, failed, moving>>
    BY <1>1, <1>2, <2>1, <2>9 DEF CloseRoom
  <2> QED
    BY <1>4, <2>2, <2>3, <2>4, <2>5, <2>6, <2>7, <2>8, <2>9 DEF RoomNext
<1> QED
  BY <1>3, <1>4

LEMMA RoomFaithful == RoomInv => AnswersFitQuestions
<1> SUFFICES ASSUME RoomInv, Lossless, NEW p \in Posted, posts[p].question # 0
             PROVE  posts[p].question = posts[p].shown
  BY DEF AnswersFitQuestions, Lossless
<1>1. PICK k \in 0 .. MaxPosts : PostsInv(k)
  BY DEF RoomInv
<1> QED
  BY <1>1 DEF PostsInv, Faithful

-----------------------------------------------------------------------------
(* The tab.                                                                *)

TabInv == IInv /\ RecorderInv /\ RoomInv

LEMMA TabStarts == TabInit => TabInv
  BY WorkspaceInit, RecorderStarts, RoomStarts DEF TabInit, TabInv

LEMMA TabInductive == TabInv /\ [TabNext]_tabVars => TabInv'
<1> SUFFICES ASSUME TabInv, [TabNext]_tabVars
             PROVE  TabInv'
  OBVIOUS
<1>1. IInv'
  <2>1. CASE UNCHANGED vars
    BY <2>1, StutterKeeps DEF TabInv
  <2>2. CASE BuilderServed
    BY <2>2, ServedInductive DEF TabInv
  <2>3. CASE (PageNext \/ ClosePage) /\ UNCHANGED generationVars
    BY <2>3, PageInductive DEF TabInv
  <2> QED
    BY <2>1, <2>2, <2>3 DEF TabNext, CloseBuilder, Next, PageNext, tabVars
<1>2. RecorderInv'
  <2>1. [RecorderStep]_recorderVars
    BY RoomStepsRecorder DEF TabNext, CloseBuilder, tabVars, roomVars
  <2> QED
    BY <2>1, RecorderInductive DEF TabInv
<1>3. RoomInv'
  <2>1. [RoomNext]_roomVars
    BY DEF TabNext, CloseBuilder, tabVars
  <2> QED
    BY <2>1, RoomInductive DEF TabInv
<1> QED
  BY <1>1, <1>2, <1>3 DEF TabInv

LEMMA TabInvariant == TabSpec => []TabInv
  BY TabStarts, TabInductive, PTL DEF TabSpec

\* Section requests race without a lock; the unique constraint keeps one row
\* of each type (services/resume_builder/service.py).
THEOREM SectionsStayUnique == TabSpec => []OneSectionPerType
<1>1. TabInv => OneSectionPerType
  BY SectionsUnique DEF TabInv, IInv
<1> QED
  BY <1>1, TabInvariant, PTL

\* No valid edit of the builder page is lost before it is sent
\* (useDebouncedCallback.ts).
THEOREM EditsAreSent == TabSpec => []NoEditDropped
<1>1. TabInv => NoEditDropped
  BY DEF TabInv, IInv, EditsInv
<1> QED
  BY <1>1, TabInvariant, PTL

\* The status of a generation tells whether its PDF is stored, wherever its
\* handler stopped (services/resume_generation/service.py).
THEOREM RecordsAreHonest == TabSpec => []RecordIsHonest
<1>1. TabInv => RecordIsHonest
  BY DEF TabInv, IInv, GenerationsInv
<1> QED
  BY <1>1, TabInvariant, PTL

\* A finished generation is never rewritten.
THEOREM FinishedStays == TabSpec => FinishedIsHistory
<1>1. ASSUME TabInv, [TabNext]_tabVars, NEW g \in Generations, rows[g] # None,
             rows[g].status \in {"COMPLETED", "FAILED"}, rows'[g] # None
      PROVE  rows'[g] = rows[g]
  <2>1. BuilderServed \/ UNCHANGED generationVars
    BY <1>1 DEF TabNext, CloseBuilder, Next, tabVars, vars
  <2> QED
    BY <1>1, <2>1, GenerationSteps, FinishedKept DEF TabInv, IInv
<1>2. TabInv /\ [TabNext]_tabVars =>
        [\A g \in Generations :
           /\ rows[g] # None
           /\ rows[g].status \in {"COMPLETED", "FAILED"}
           /\ rows'[g] # None
           => rows'[g] = rows[g]]_rows
  BY <1>1
<1> QED
  BY <1>2, TabInvariant, PTL DEF TabSpec, FinishedIsHistory

\* The recorder of a mounted composer never takes a microphone that is off for one
\* that is on, nor loses hold of one of its own that is on; whether the composer
\* shows it depends on its mode (features/interviews/recorder.ts).
THEOREM RecorderIsHonest == TabSpec => []RecorderHonest
<1>1. TabInv => RecorderHonest
  BY DEF TabInv, RecorderInv
<1> QED
  BY <1>1, TabInvariant, PTL

\* Until the page has seen a post fail, every answer goes to the question it was
\* given to, though it names none (InterviewRoomPage.tsx, services/api/client.ts).
THEOREM AnswersFit == TabSpec => []AnswersFitQuestions
<1>1. TabInv => AnswersFitQuestions
  BY RoomFaithful DEF TabInv
<1> QED
  BY <1>1, TabInvariant, PTL
=============================================================================
