------------------------------ MODULE ContentAssist ------------------------------
(***************************************************************************)
(* AI assistance for the text of a resume (services/resume_builder/        *)
(* service.py) and the deterministic guard that flags the numbers the      *)
(* user's content does not state (fabrication_guard.py).  Advice changes   *)
(* nothing by itself: the user applies a text, which is then content like  *)
(* any other.                                                              *)
(*                                                                         *)
(* A text is the sequence of the numbers written in it, each with its      *)
(* spelling and whether it stands in a bracketed placeholder.  A spelling  *)
(* is its digits before and after the point; grouping commas are dropped   *)
(* on reading and leave no trace.  The content of a section is a sequence  *)
(* of entries: the text of its other fields, and its bullets; a summary    *)
(* and a list of skills are one entry without bullets.  The AI may answer  *)
(* anything; its failures (AIRunner) change nothing here.                  *)
(***************************************************************************)
EXTENDS Integers, SequencesExt

CONSTANTS
    Written,        \* bound: what the user may save, <<section type, content>>
    Improvements,   \* bound: texts the AI may answer
    MaxAnswered,    \* bound: bullets in one answer
    NoAdvice        \* no advice is shown

Spellings == [whole : Seq(0..9), fraction : Seq(0..9)]
Texts == Seq([number : Spellings, bracketed : BOOLEAN])
Contents == Seq([context : Texts, bullets : Seq(Texts)])

ASSUME AssistAssumption ==
    /\ \A section \in Written : section[2] \in Contents
    /\ Improvements \subseteq Texts
    /\ MaxAnswered \in Nat

VARIABLES
    resume,         \* saved sections: section type -> content
    advice,         \* NoAdvice, or the response on display
    typed,          \* history: spellings the user wrote
    noticed         \* history: spellings flagged, or in a placeholder, in applied texts

assistVars == <<resume, advice, typed, noticed>>

BulletSectionTypes == {"EXPERIENCE", "INTERNSHIPS", "PROJECTS"}

\* The leading digits of s up to the last one that is not zero, and the digits
\* of s from the first one that is not zero.
WithoutTrailingZeros(s) == SubSeq(s, 1, Max({0} \union {i \in DOMAIN s : s[i] # 0}))
WithoutLeadingZeros(s) ==
    SubSeq(s, Min({Len(s) + 1} \union {i \in DOMAIN s : s[i] # 0}), Len(s))

\* Mutated form: zeros after the point are kept.
NormalizeWholeOnly(number) ==
    [whole |-> WithoutLeadingZeros(number.whole), fraction |-> number.fraction]

\* _normalize_number; a number without any digit left is "0".
NormalizeNumber(number) ==
    LET whole    == WithoutLeadingZeros(number.whole)
        fraction == WithoutTrailingZeros(number.fraction)
    IN  IF whole = <<>> /\ fraction = <<>> THEN [whole |-> <<0>>, fraction |-> <<>>]
        ELSE [whole |-> whole, fraction |-> fraction]

\* extract_numbers, of the numbers of a text, those in placeholders included.
ExtractNumbers(numbers) == {NormalizeNumber(number) : number \in numbers}

NumbersIn(text) == {text[i].number : i \in DOMAIN text}

NumbersOfEntry(entry) ==
    NumbersIn(entry.context)
    \union UNION {NumbersIn(entry.bullets[i]) : i \in DOMAIN entry.bullets}
NumbersOfContent(content) == UNION {NumbersOfEntry(content[i]) : i \in DOMAIN content}
NumbersOfSections(types) == UNION {NumbersOfContent(resume[t]) : t \in types}

\* find_unsupported_numbers: outside placeholders, each one once, in the order
\* of first appearance; found[i] are those of the first i numbers of the text.
FindUnsupportedNumbers(text, sourceNumbers) ==
    LET found[i \in 0 .. Len(text)] ==
            IF i = 0 THEN <<>>
            ELSE LET n == NormalizeNumber(text[i].number)
                 IN  IF text[i].bracketed \/ n \in sourceNumbers \union ToSet(found[i - 1])
                     THEN found[i - 1] ELSE Append(found[i - 1], n)
    IN  found[Len(text)]

-----------------------------------------------------------------------------
AssistInit ==
    /\ resume = [t \in {} |-> <<>>]
    /\ advice = NoAdvice
    /\ typed = {}
    /\ noticed = {}

\* The user saves a section of his own writing, or deletes one.
WriteSection(t, content) ==
    /\ resume' = [u \in DOMAIN resume \union {t} |-> IF u = t THEN content ELSE resume[u]]
    /\ typed' = typed \union NumbersOfContent(content)
    /\ UNCHANGED <<advice, noticed>>

RemoveSection(t) ==
    /\ t \in DOMAIN resume
    /\ resume' = [u \in DOMAIN resume \ {t} |-> resume[u]]
    /\ UNCHANGED <<advice, typed, noticed>>

\* The response for some texts: the numbers read, and the flags of every text.
Respond(t, entry, source, texts) ==
    advice' = [section |-> t, entry |-> entry, source |-> source, texts |-> texts,
               flags |-> [k \in DOMAIN texts |->
                             FindUnsupportedNumbers(texts[k], ExtractNumbers(source))]]

\* assist_summary: refused without content to ground a summary in.
AssistSummary(text) ==
    /\ DOMAIN resume \ {"SUMMARY"} # {}
    /\ Respond("SUMMARY", 1, NumbersOfSections(DOMAIN resume), <<text>>)
    /\ UNCHANGED <<resume, typed, noticed>>

\* assist_bullets: only an existing entry with bullets of a section that has
\* them; nothing ties the number of answered bullets to the number asked for.
AssistBullets(t, index, texts) ==
    /\ t \in BulletSectionTypes
    /\ t \in DOMAIN resume
    /\ 0 <= index /\ index < Len(resume[t])
    /\ resume[t][index + 1].bullets # <<>>
    /\ Respond(t, index + 1, NumbersOfEntry(resume[t][index + 1]), texts)
    /\ UNCHANGED <<resume, typed, noticed>>

\* The user applies text k of the advice, its flags before his eyes: a summary
\* replaces the section, a bullet the one at its position, if there is one.
Apply(k) ==
    /\ advice # NoAdvice
    /\ k \in DOMAIN advice.texts
    /\ LET t    == advice.section
           text == advice.texts[k]
           e    == advice.entry
       IN  /\ noticed' = noticed \union ToSet(advice.flags[k])
                          \union {text[i].number : i \in {j \in DOMAIN text : text[j].bracketed}}
           /\ \/ /\ t = "SUMMARY"
                 /\ resume' = [u \in DOMAIN resume \union {t} |->
                                  IF u = t THEN <<[context |-> text, bullets |-> <<>>]>>
                                  ELSE resume[u]]
              \/ /\ t \in BulletSectionTypes \intersect DOMAIN resume
                 /\ e \in DOMAIN resume[t]
                 /\ k \in DOMAIN resume[t][e].bullets
                 /\ resume' = [resume EXCEPT ![t][e].bullets[k] = text]
    /\ UNCHANGED <<advice, typed>>

AssistNext ==
    \/ \E section \in Written : WriteSection(section[1], section[2])
    \/ \E t \in DOMAIN resume : RemoveSection(t)
    \/ \E text \in Improvements : AssistSummary(text)
    \/ \E t \in DOMAIN resume, index \in -1..1, answered \in 0 .. MaxAnswered :
          \E texts \in [1 .. answered -> Improvements] : AssistBullets(t, index, texts)
    \/ \E k \in 1 .. MaxAnswered : Apply(k)

-----------------------------------------------------------------------------
\* The value of a spelling: its digits other than zero, with their places.
Value(number) ==
    LET whole    == number.whole
        fraction == number.fraction
    IN  {<<Len(whole) - i, whole[i]>> : i \in {j \in DOMAIN whole : whole[j] # 0}}
        \union {<<0 - i, fraction[i]>> : i \in {j \in DOMAIN fraction : fraction[j] # 0}}

Values(numbers) == {Value(n) : n \in numbers}

\* Claims are compared by value, whatever their spelling: the flags of a text
\* are the values it claims outside placeholders that the source nowhere
\* states, each one once.  So every number in the saved resume is one the user
\* wrote, was flagged when he applied it, or stood in a placeholder he applied;
\* the last case cannot be ruled out: a placeholder's number is part of the
\* source when advice is asked for again.
EveryNumberAccounted ==
    /\ Values(NumbersOfSections(DOMAIN resume)) \subseteq Values(typed \union noticed)
    /\ advice # NoAdvice =>
          \A k \in DOMAIN advice.texts :
             LET text   == advice.texts[k]
                 flags  == advice.flags[k]
                 claims == {text[i].number : i \in {j \in DOMAIN text : ~text[j].bracketed}}
             IN  /\ Values(ToSet(flags)) = Values(claims) \ Values(advice.source)
                 /\ Cardinality(Values(ToSet(flags))) = Len(flags)
=================================================================================
