--------------------------- MODULE BuilderWorkspace ---------------------------
(***************************************************************************)
(* A builder project as a whole: the page that edits its sections, the     *)
(* requests that save them, and the generations that print them.  The      *)
(* project may be finalized, reopened or deleted at any time, from the     *)
(* page or from elsewhere.                                                 *)
(***************************************************************************)
EXTENDS SectionAutosave, ResumeGeneration

vars == <<builderVars, pageVars, generationVars>>

Init == BuilderInit /\ PageInit /\ GenerationInit

\* What goes on without the page.
BuilderServed ==
    \/ /\ \/ \E c \in Numbers : ServeSection(c)
          \/ \E s \in {"DRAFT", "FINALIZED"} : UpdateProject(s)
       /\ UNCHANGED <<pageVars, generationVars>>
    \/ DeleteProject /\ CascadeGenerations /\ UNCHANGED pageVars
    \/ \E g \in Generations : Generate(g) /\ UNCHANGED <<builderVars, pageVars>>

Next == \/ BuilderServed
        \/ PageNext /\ UNCHANGED generationVars

Spec == Init /\ [][Next]_vars

TypeOK == BuilderTypeOK /\ PageTypeOK /\ GenerationTypeOK
=============================================================================
