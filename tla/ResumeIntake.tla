------------------------------ MODULE ResumeIntake ------------------------------
(***************************************************************************)
(* What an upload turns a file into, before anything is stored: the checks *)
(* of the file (resumes/validation.py), the text of its pages              *)
(* (pdf_extractor.py), its normalised lines (normalizer.py) and the        *)
(* sections cut at recognised headings (section_parser.py).                *)
(*                                                                         *)
(* A line is what the steps tell apart in it: its canonical form (trimmed, *)
(* without decoration, lower case), whether it is text, white space or     *)
(* only invisible characters, and whether it is too long for a heading.    *)
(***************************************************************************)
EXTENDS Integers, SequencesExt, TextParts

CONSTANTS
    Files,          \* uploads explored: [empty, extension, declared, magic, readable]
    Lines,          \* lines explored: [canonical, kind, long]
    MaxLines,       \* bound: lines of a document
    MaxPages,       \* RESUME_MAX_PAGE_COUNT; one page more is explored
    NoIntake        \* the upload has not been processed

VARIABLES
    pages,          \* the document: a sequence of lines per page
    intake          \* NoIntake, or what upload_resume makes of the document

AcceptedDeclaredTypes == {"application/pdf", "application/x-pdf", "application/octet-stream"}

\* The first check that fails, or "none".
Rejection(file) ==
    CASE file.empty -> "EMPTY"
      [] file.extension # ".pdf" -> "EXTENSION"
      [] file.declared \notin AcceptedDeclaredTypes \union {""} -> "CONTENT_TYPE"
      [] file.magic # "%PDF-" -> "NOT_PDF"
      [] ~file.readable -> "UNREADABLE_OR_ENCRYPTED"
      [] Len(pages) = 0 -> "ZERO_PAGES"
      [] Len(pages) > MaxPages -> "PAGE_COUNT_EXCEEDED"
      [] OTHER -> "none"

SectionTypes == <<"HEADER", "SUMMARY", "EDUCATION", "SKILLS", "EXPERIENCE", "INTERNSHIPS",
                  "PROJECTS", "CERTIFICATIONS", "ACHIEVEMENTS">>

\* _REPORTABLE_TYPES: the absence of the others is not worth reporting.
ReportableTypes ==
    Select(SectionTypes, {i \in DOMAIN SectionTypes :
                             SectionTypes[i] \notin {"HEADER", "INTERNSHIPS"}})

HeadingAliases ==
    [SUMMARY |-> {"summary", "professional summary", "career summary", "executive summary",
         "profile", "professional profile", "about", "about me", "objective",
         "career objective"},
     EDUCATION |-> {"education", "educational background", "academic background", "academics",
         "academic qualifications", "qualifications"},
     SKILLS |-> {"skills", "technical skills", "key skills", "core skills",
         "core competencies", "skills & abilities", "skills and abilities", "technologies",
         "technical proficiencies", "tools & technologies", "tools and technologies"},
     EXPERIENCE |-> {"experience", "work experience", "professional experience",
         "employment", "employment history", "work history", "relevant experience",
         "career history"},
     INTERNSHIPS |-> {"internships", "internship", "internship experience"},
     PROJECTS |-> {"projects", "personal projects", "academic projects", "key projects",
         "selected projects", "side projects"},
     CERTIFICATIONS |-> {"certifications", "certificates", "certifications & licenses",
         "certifications and licenses", "licenses & certifications",
         "licenses and certifications", "courses & certifications",
         "courses and certifications"},
     ACHIEVEMENTS |-> {"achievements", "accomplishments", "awards", "honors", "honours",
         "awards & achievements", "awards and achievements", "honors & awards",
         "honors and awards"}]

\* classify_heading: alias-exact, no fuzzy matching.
HeadingTypes(line) ==
    {t \in DOMAIN HeadingAliases : ~line.long /\ line.canonical \in HeadingAliases[t]}

IsHeading(line) == HeadingTypes(line) # {}
HeadingType(line) == CHOOSE t \in HeadingTypes(line) : TRUE
IsText(line) == line.kind = "text"

\* A line without text is no heading.
ASSUME LinesAssumption == \A line \in Lines : IsHeading(line) => IsText(line)

TextOf(lines) == Select(lines, {i \in DOMAIN lines : IsText(lines[i])})

BlankLine == [canonical |-> "", kind |-> "white", long |-> FALSE]

\* The page texts that are not empty, a blank line between two of them.
RawText ==
    Joined([i \in DOMAIN pages |->
               IF pages[i] = <<>> \/ \A j \in 1..(i - 1) : pages[j] = <<>> THEN pages[i]
               ELSE <<BlankLine>> \o pages[i]])

\* str.strip() of the raw text leaves something: invisible characters count.
HasTextLayer == \E i \in DOMAIN RawText : RawText[i].kind # "white"

\* normalize_text: invisible characters go, no line break at either end, and
\* a run of blank lines becomes one.
Normalized(text) ==
    LET between(i) == /\ \E j \in 1..(i - 1) : IsText(text[j])
                      /\ \E j \in (i + 1)..Len(text) : IsText(text[j])
    IN  Select(text, {i \in DOMAIN text :
                         IsText(text[i]) \/ (between(i) /\ IsText(text[i - 1]))})

\* content.strip(): the lines from the first to the last one with text.
Stripped(lines) ==
    Select(lines, {i \in DOMAIN lines : /\ \E j \in 1..i : IsText(lines[j])
                                        /\ \E j \in i..Len(lines) : IsText(lines[j])})

\* Mutated form: a heading of a type already seen opens no section of its own.
MergedBoundaries(lines) ==
    Select([i \in DOMAIN lines |-> i],
           {i \in DOMAIN lines :
               /\ IsHeading(lines[i])
               /\ \A j \in 1..(i - 1) : HeadingTypes(lines[j]) # HeadingTypes(lines[i])})

Boundaries(lines) ==
    Select([i \in DOMAIN lines |-> i], {i \in DOMAIN lines : IsHeading(lines[i])})

\* The line after the section that starts at boundary p.
NextStart(lines, p) ==
    LET boundaries == Boundaries(lines)
    IN  IF p < Len(boundaries) THEN boundaries[p + 1] ELSE Len(lines) + 1

\* The part before the first heading (lines are counted from zero).
HeaderSection(lines) ==
    LET first == NextStart(lines, 0)
    IN  [section_type |-> "HEADER",
         start_line   |-> 0,
         end_line     |-> IF first > 1 THEN first - 2 ELSE 0,
         content      |-> Stripped(SubSeq(lines, 1, first - 1))]

HeadedSection(lines, p) ==
    LET heading == Boundaries(lines)[p]
    IN  [section_type |-> HeadingType(lines[heading]),
         start_line   |-> heading - 1,
         end_line     |-> NextStart(lines, p) - 2,
         content      |-> Stripped(SubSeq(lines, heading + 1, NextStart(lines, p) - 1))]

\* parse_sections: a header without content is not emitted, a heading without
\* content is.
Sections(lines) ==
    (IF HeaderSection(lines).content = <<>> THEN <<>> ELSE <<HeaderSection(lines)>>)
    \o [p \in DOMAIN Boundaries(lines) |-> HeadedSection(lines, p)]

Detected(sections) ==
    {sections[i].section_type : i \in DOMAIN sections} \ {"HEADER"}

Missing(sections) ==
    Select(ReportableTypes, {i \in DOMAIN ReportableTypes :
                                ReportableTypes[i] \notin Detected(sections)})

-----------------------------------------------------------------------------
IntakeInit == pages = <<>> /\ intake = NoIntake

WrittenLines == Len(Joined(pages))

\* The document grows by a page, or by a line on its last page.
AddPage ==
    /\ intake = NoIntake
    /\ Len(pages) <= MaxPages
    /\ pages' = Append(pages, <<>>)
    /\ UNCHANGED intake

AddLine(line) ==
    /\ intake = NoIntake
    /\ pages # <<>>
    /\ WrittenLines < MaxLines
    /\ pages' = [pages EXCEPT ![Len(pages)] = Append(@, line)]
    /\ UNCHANGED intake

\* _build_extraction_row
BuildExtractionRow ==
    LET lines == Normalized(RawText)
    IN  [status   |-> "EXTRACTED",
         sections |-> Sections(lines),
         lines    |-> Len(lines),
         missing  |-> Missing(Sections(lines))]

\* upload_resume up to the storing: rejected, stored without an extraction
\* (NO_TEXT_LAYER), or stored with the extraction row.
ProcessUpload(file) ==
    /\ intake = NoIntake
    /\ intake' =
          IF Rejection(file) # "none" THEN [status |-> "REJECTED", reason |-> Rejection(file)]
          ELSE IF ~HasTextLayer THEN [status |-> "FAILED", reason |-> "NO_TEXT_LAYER"]
          ELSE BuildExtractionRow
    /\ UNCHANGED pages

IntakeNext ==
    \/ AddPage
    \/ \E line \in Lines : AddLine(line)
    \/ \E file \in Files : ProcessUpload(file)

-----------------------------------------------------------------------------
\* Normalising and cutting a resume into sections loses, repeats and moves
\* nothing: the sections, read in order with their headings, are the lines with
\* text of the pages; the line spans of the sections follow each other from the
\* first line to the last; and every reportable type is either the type of a
\* section or missing.
NoLineLost ==
    intake # NoIntake /\ intake.status = "EXTRACTED" =>
        LET sections   == intake.sections
            Heading(t) == [canonical |-> t, kind |-> "heading", long |-> FALSE]
            written    == TextOf(Joined(pages))
            asWritten  == [i \in DOMAIN written |->
                              IF IsHeading(written[i])
                              THEN Heading(HeadingType(written[i])) ELSE written[i]]
            asParsed   == Joined([i \in DOMAIN sections |->
                              (IF sections[i].section_type = "HEADER" THEN <<>>
                               ELSE <<Heading(sections[i].section_type)>>)
                              \o TextOf(sections[i].content)])
            types      == {sections[i].section_type : i \in DOMAIN sections}
        IN  /\ asParsed = asWritten
            /\ sections # <<>> =>
                   /\ sections[1].start_line = 0
                   /\ sections[Len(sections)].end_line = intake.lines - 1
            /\ \A i \in 1..(Len(sections) - 1) :
                   sections[i].end_line + 1 = sections[i + 1].start_line
            /\ \A i \in DOMAIN sections :
                   Len(sections[i].content) <=
                       sections[i].end_line - sections[i].start_line + 1
            /\ \A t \in ToSet(ReportableTypes) :
                   t \in types <=> t \notin ToSet(intake.missing)
=================================================================================
