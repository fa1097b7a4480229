----------------------------- MODULE ResumeBuilder -----------------------------
(***************************************************************************)
(* The sections of one resume builder project and the requests that save   *)
(* and remove them (services/resume_builder/service.py).  A handler reads  *)
(* the section in one statement and writes it in a later transaction; the  *)
(* requests of a page travel and run concurrently.                         *)
(*                                                                         *)
(* Requests are numbered in the order the page sends them.  Contents are   *)
(* opaque and valid (the page validates against the same schemas before it *)
(* sends).  The client's replay after a refreshed token only delays a      *)
(* request.  Left out: titles, lists and reads.                            *)
(***************************************************************************)
EXTENDS Naturals, FiniteSets

CONSTANTS Types,            \* section types in use
          Contents,         \* valid contents of a section
          None,             \* no content, no row
          MaxCalls          \* bound: requests a page sends

ASSUME BuilderAssumption ==
    /\ None \notin Contents
    /\ MaxCalls \in Nat \ {0}

VARIABLES project,          \* status of the row, "DELETED" without one
          sections,         \* rows: the request that inserted it, type, content
          calls             \* requests in the order they were sent

builderVars == <<project, sections, calls>>

Numbers == 1 .. MaxCalls
Unsent == [at |-> "unsent"]
Payload == [op : {"upsert", "delete"}, type : Types, content : Contents \union {None}]
Rows == [id : Numbers, type : Types, content : Contents]
Calls == {Unsent}
         \union [at : {"sent", "done", "failed", "over"}, asks : Payload]
         \union [at : {"loaded"}, asks : Payload, found : Rows \union {None}]

Sent(c) == calls[c] # Unsent
InFlight(c) == calls[c].at \in {"sent", "loaded"}
Answered(c) == calls[c].at \in {"done", "failed"}
RowsOf(t) == {r \in sections : r.type = t}
StoredTypes == {r.type : r \in sections}

BuilderInit == /\ project = "DRAFT"
               /\ sections \in SUBSET {[id |-> 1, type |-> t, content |-> x] :
                                          t \in Types, x \in Contents}
               /\ \A r, s \in sections : r.type = s.type => r = s
               /\ calls = [c \in Numbers |-> Unsent]

-----------------------------------------------------------------------------
\* The page sends its next request.
Send(op, t, x) ==
    \E c \in Numbers :
       /\ ~Sent(c)
       /\ \A b \in 1 .. (c - 1) : Sent(b)
       /\ calls' = [calls EXCEPT ![c] = [at |-> "sent",
                       asks |-> [op |-> op, type |-> t, content |-> x]]]

\* get_project and _get_section: 404 without the project, and for a deletion
\* without the section.
Load(c) ==
    /\ calls[c].at = "sent"
    /\ LET asks == calls[c].asks
           rows == RowsOf(asks.type)
       IN  \/ /\ \/ project = "DELETED"
                 \/ asks.op = "delete" /\ rows = {}
              /\ calls' = [calls EXCEPT ![c] = [at |-> "failed", asks |-> asks]]
           \/ /\ project # "DELETED"
              /\ asks.op = "delete" => rows # {}
              /\ \E found \in (IF rows = {} THEN {None} ELSE rows) :
                    calls' = [calls EXCEPT ![c] =
                                [at |-> "loaded", asks |-> asks, found |-> found]]
    /\ UNCHANGED <<project, sections>>

Outcome(c, ok) ==
    calls' = [calls EXCEPT ![c] = [at |-> IF ok THEN "done" ELSE "failed",
                                   asks |-> calls[c].asks]]

\* Mutated form: without the unique constraint on (project_id, section_type).
InsertableTwice(t) == project # "DELETED"

\* What an INSERT needs: the project, and no other section of the type.
Insertable(t) == project # "DELETED" /\ RowsOf(t) = {}

\* No row was found: INSERT, refused (500) when another request was faster.
CommitInsert(c) ==
    LET asks == calls[c].asks IN
    /\ calls[c].at = "loaded" /\ asks.op = "upsert" /\ calls[c].found = None
    /\ Outcome(c, Insertable(asks.type))
    /\ sections' = IF Insertable(asks.type)
                   THEN sections \union {[id |-> c, type |-> asks.type,
                                          content |-> asks.content]}
                   ELSE sections
    /\ UNCHANGED project

\* A row was found: UPDATE it by its id, and 500 when it has gone meanwhile.  No
\* statement is issued when the new content equals the loaded one.
CommitUpdate(c) ==
    LET asks == calls[c].asks
        found == calls[c].found
        same == {r \in sections : r.id = found.id /\ r.type = found.type}
    IN  /\ calls[c].at = "loaded" /\ asks.op = "upsert" /\ found # None
        /\ Outcome(c, same # {})
        /\ sections' = IF asks.content = found.content THEN sections
                       ELSE (sections \ same)
                            \union {[r EXCEPT !.content = asks.content] : r \in same}
        /\ UNCHANGED project

\* DELETE by id; removing a row that has gone is no error.
CommitDelete(c) ==
    LET found == calls[c].found IN
    /\ calls[c].at = "loaded" /\ calls[c].asks.op = "delete"
    /\ Outcome(c, TRUE)
    /\ sections' = {r \in sections : ~(r.id = found.id /\ r.type = found.type)}
    /\ UNCHANGED project

\* A lost request, a failing handler, or a lost answer (the handler's write may
\* have happened: then it is "done" and becomes "failed").
CallFails(c) ==
    /\ calls[c].at \in {"sent", "loaded", "done"}
    /\ Outcome(c, FALSE)
    /\ UNCHANGED <<project, sections>>

-----------------------------------------------------------------------------
\* update_project: either status from either.
UpdateProject(s) ==
    /\ project # "DELETED"
    /\ project' = s
    /\ UNCHANGED <<sections, calls>>

\* delete_project, whose sections cascade.
DeleteProject ==
    /\ project # "DELETED"
    /\ project' = "DELETED"
    /\ sections' = {}
    /\ UNCHANGED calls

ServeSection(c) == \/ Load(c) \/ CommitInsert(c) \/ CommitUpdate(c)
                   \/ CommitDelete(c) \/ CallFails(c)

-----------------------------------------------------------------------------
BuilderTypeOK ==
    /\ project \in {"DRAFT", "FINALIZED", "DELETED"}
    /\ sections \subseteq Rows
    /\ calls \in [Numbers -> Calls]

\* A project has one row of each section type, however many requests for a new
\* section race: _get_section's scalar_one_or_none would raise on two, in every
\* later request for that section.
OneSectionPerType == \A t \in Types : Cardinality(RowsOf(t)) <= 1
=============================================================================
