----------------------------- MODULE ResumePrinting -----------------------------
(***************************************************************************)
(* From the saved sections to the LaTeX source of a resume: the escaping   *)
(* boundary (resume_generation/latex_escape.py), the context built from    *)
(* the sections (renderer.py) and what the template, external code here,   *)
(* prints of it.                                                           *)
(*                                                                         *)
(* A text is a sequence of characters, <<>> standing for a missing or      *)
(* empty field; the source is a sequence of tokens: a character, a         *)
(* control word or symbol, or a separator or command of the template.  The *)
(* model ends where TeX hands a character to the font: that the font makes *)
(* one dash of two hyphens, or has no glyph and leaves a warning           *)
(* (compiler.py), is not modelled.  Left out as well: Unicode composition  *)
(* and the fixed words of the template.                                    *)
(***************************************************************************)
EXTENDS Integers, SequencesExt, TextParts

CONSTANTS
    Characters,     \* of which texts are made
    Saved,          \* bound: sections explored, <<section type, content>>
    NoSource        \* nothing has been rendered

VARIABLES
    saved,          \* section type -> content
    source          \* NoSource, or the sections last rendered and their LaTeX

Specials == {"\\", "&", "%", "$", "#", "_", "{", "}", "~", "^"}

LatexSpecialMap ==
    [ch \in Specials |->
        CASE ch = "\\" -> <<"\\textbackslash", "{", "}">>
          [] ch = "&" -> <<"\\&">>
          [] ch = "%" -> <<"\\%">>
          [] ch = "$" -> <<"\\$">>
          [] ch = "#" -> <<"\\#">>
          [] ch = "_" -> <<"\\_">>
          [] ch = "{" -> <<"\\{">>
          [] ch = "}" -> <<"\\}">>
          [] ch = "~" -> <<"\\textasciitilde", "{", "}">>
          [] ch = "^" -> <<"\\textasciicircum", "{", "}">>]

\* What TeX makes of a control word or symbol.
TexMeaning ==
    [word \in {"\\textbackslash", "\\&", "\\%", "\\$", "\\#", "\\_", "\\{", "\\}",
               "\\textasciitilde", "\\textasciicircum"} |->
        CASE word = "\\textbackslash" -> "\\"
          [] word = "\\&" -> "&"
          [] word = "\\%" -> "%"
          [] word = "\\$" -> "$"
          [] word = "\\#" -> "#"
          [] word = "\\_" -> "_"
          [] word = "\\{" -> "{"
          [] word = "\\}" -> "}"
          [] word = "\\textasciitilde" -> "~"
          [] word = "\\textasciicircum" -> "^"]

\* The commands of the template between texts: \\, which ends a line, \item, and
\* any other command or blank line.
Commands == {"newline", "item", "other"}

\* A command is several characters of a text.
ASSUME CharactersAssumption == Characters \intersect (DOMAIN TexMeaning \union Commands) = {}

\* What strip() takes off: the space, and the wider blanks of Unicode.
Blanks == {" ", "wide"}

\* normalize_for_latex: line breaks and tabs are spaces, other control
\* characters go, runs of spaces are one, no blank is left at either end.
NormalizeForLatex(text) ==
    LET shown  == Select(text, {i \in DOMAIN text : text[i] # "control"})
        inline == [i \in DOMAIN shown |-> IF shown[i] = "break" THEN " " ELSE shown[i]]
        single == Select(inline, {i \in DOMAIN inline :
                                     inline[i] = " " => i = 1 \/ inline[i - 1] # " "})
        solid  == {i \in DOMAIN single : single[i] \notin Blanks}
    IN  Select(single, {i \in DOMAIN single : \E j, k \in solid : j <= i /\ i <= k})

Substituted(text, specials) ==
    Joined([i \in DOMAIN text |->
               IF text[i] \in specials THEN LatexSpecialMap[text[i]] ELSE <<text[i]>>])

\* Mutated form: two passes, the second one over the braces of the first.
EscapeTwice(text) == Substituted(Substituted(text, Specials \ {"{", "}"}), {"{", "}"})

\* escape_latex: one pass.
EscapeLatex(text) == Substituted(text, Specials)

\* prepare_for_latex and _esc
Esc(text) == EscapeLatex(NormalizeForLatex(text))

\* Those of the texts that are there.
Present(texts) == Select(texts, {i \in DOMAIN texts : texts[i] # <<>>})

\* _join_present: a separator between two parts.
JoinPresent(parts, separator) ==
    Joined([i \in DOMAIN Present(parts) |->
               (IF i = 1 THEN <<>> ELSE <<separator>>) \o Esc(Present(parts)[i])])

EscAll(texts) == [i \in DOMAIN Present(texts) |-> Esc(Present(texts)[i])]

\* _experience_block, _projects_block and _education_block, per entry.
ExperienceEntry(entry) ==
    [primary |-> Esc(entry.title), secondary |-> Esc(entry.company),
     location |-> Esc(entry.location),
     dates |-> JoinPresent(<<entry.start_date, entry.end_date>>, "--"),
     description |-> <<>>, bullets |-> EscAll(entry.bullets)]

ProjectEntry(entry) ==
    [primary |-> Esc(entry.name), secondary |-> JoinPresent(entry.technologies, ","),
     location |-> Esc(entry.url), dates |-> <<>>,
     description |-> Esc(entry.description), bullets |-> EscAll(entry.bullets)]

EducationEntry(entry) ==
    [primary |-> JoinPresent(<<entry.degree, entry.field_of_study>>, ","),
     secondary |-> JoinPresent(<<entry.institution, entry.location>>, ","),
     location |-> <<>>,
     dates |-> JoinPresent(<<entry.start_date, entry.end_date>>, "--"),
     description |-> <<>>,
     bullets |->
        (IF entry.gpa = <<>> THEN <<>> ELSE << <<"GPA:">> \o Esc(entry.gpa) >>)
        \o EscAll(entry.highlights)]

\* default_section_order of the shipped template's metadata.
DefaultSectionOrder ==
    <<"SUMMARY", "EXPERIENCE", "INTERNSHIPS", "PROJECTS", "EDUCATION", "SKILLS",
      "CERTIFICATIONS", "ACHIEVEMENTS">>

\* The entry blocks: those of that order, whatever else it names.
EntryBlocks ==
    Select(DefaultSectionOrder,
           {i \in DOMAIN DefaultSectionOrder :
               DefaultSectionOrder[i] \in {"EXPERIENCE", "INTERNSHIPS", "PROJECTS", "EDUCATION"}})

BlockEntry(t, entry) ==
    CASE t \in {"EXPERIENCE", "INTERNSHIPS"} -> ExperienceEntry(entry)
      [] t = "PROJECTS" -> ProjectEntry(entry)
      [] t = "EDUCATION" -> EducationEntry(entry)

Grouped(tokens) == <<"{">> \o tokens \o <<"}">>

\* \entryline and \entrysub
EntryLine(left, right) == Grouped(left) \o Grouped(right) \o <<"newline">>

\* The template's print of a block entry: its second line, with the location,
\* only when there is something to say on its left, and its description; a blank
\* line of the template is left of either that is not there.
PrintedEntry(e) ==
    EntryLine(e.primary, e.dates)
    \o (IF e.secondary = <<>> THEN <<"other">> ELSE EntryLine(e.secondary, e.location))
    \o (IF e.description = <<>> THEN <<"other">> ELSE e.description \o <<"newline">>)
    \o <<"other">> \o Joined([i \in DOMAIN e.bullets |-> <<"item">> \o e.bullets[i]])

PersonalInfo(content) ==
    Grouped(Esc(content.full_name)) \o <<"other">>
    \o JoinPresent(<<content.email, content.phone, content.location, content.linkedin_url,
                     content.github_url, content.website_url>>, "|")

\* A line of the skills or the certifications, between blank lines.
FullLine(tokens) == <<"other">> \o tokens \o <<"newline">>

\* What is printed for an entry of a section.
Printed(t, entry) ==
    CASE t = "PERSONAL_INFO" -> PersonalInfo(entry)
      [] t = "SUMMARY" -> <<"other">> \o Esc(entry.text)
      [] t = "SKILLS" ->
            FullLine(Grouped(Esc(entry.name) \o <<":">>) \o JoinPresent(entry.skills, ","))
      [] t = "CERTIFICATIONS" ->
            FullLine(JoinPresent(<<entry.name, entry.issuer, entry.date>>, "--"))
      [] t = "ACHIEVEMENTS" -> <<"item">> \o JoinPresent(<<entry.text, entry.date>>, "--")
      [] OTHER -> PrintedEntry(BlockEntry(t, entry))

\* The heading of a section, or the opening of the personal information, and its
\* entries.
PrintedSection(t) ==
    IF t \in DOMAIN saved
    THEN <<"other">> \o Joined([i \in DOMAIN saved[t] |-> Printed(t, saved[t][i])]) ELSE <<>>

\* build_render_context and render_latex: personal information, the summary,
\* the blocks in the template's order, then skills, certifications, achievements.
RenderLatex ==
    PrintedSection("PERSONAL_INFO") \o PrintedSection("SUMMARY")
    \o Joined([b \in DOMAIN EntryBlocks |-> PrintedSection(EntryBlocks[b])])
    \o PrintedSection("SKILLS") \o PrintedSection("CERTIFICATIONS")
    \o PrintedSection("ACHIEVEMENTS")

\* section_schemas.py: the section types in their storage order, the fields of an
\* entry of each, those that are lists, and those that cannot be left empty.
SectionSortOrder ==
    <<"PERSONAL_INFO", "SUMMARY", "EDUCATION", "SKILLS", "EXPERIENCE", "INTERNSHIPS",
      "PROJECTS", "CERTIFICATIONS", "ACHIEVEMENTS">>

EntryFields(t) ==
    CASE t = "PERSONAL_INFO" ->
            <<"full_name", "email", "phone", "location", "linkedin_url", "github_url",
              "website_url">>
      [] t = "SUMMARY" -> <<"text">>
      [] t = "EDUCATION" ->
            <<"institution", "degree", "field_of_study", "location", "start_date",
              "end_date", "gpa", "highlights">>
      [] t = "SKILLS" -> <<"name", "skills">>
      [] t \in {"EXPERIENCE", "INTERNSHIPS"} ->
            <<"company", "title", "location", "start_date", "end_date", "bullets">>
      [] t = "PROJECTS" -> <<"name", "description", "technologies", "url", "bullets">>
      [] t = "CERTIFICATIONS" -> <<"name", "issuer", "date", "credential_url">>
      [] t = "ACHIEVEMENTS" -> <<"text", "date">>

ListFields == {"bullets", "technologies", "highlights", "skills"}

RequiredFields ==
    {"full_name", "text", "company", "title", "institution", "degree", "name", "skills"}

\* validate_section_content, but for the upper bounds on lengths; personal
\* information and a summary are a single entry.
ValidContent(t, content) ==
    /\ Len(content) \in Nat \ {0} /\ DOMAIN content = 1 .. Len(content)
    /\ t \in {"PERSONAL_INFO", "SUMMARY"} => Len(content) = 1
    /\ \A i \in DOMAIN content :
          /\ DOMAIN content[i] = ToSet(EntryFields(t))
          /\ \A f \in DOMAIN content[i] :
                content[i][f] \in IF f \in ListFields THEN Seq(Seq(Characters))
                                  ELSE Seq(Characters)
          /\ \A f \in RequiredFields \intersect DOMAIN content[i] : content[i][f] # <<>>

-----------------------------------------------------------------------------
PrintingInit == saved = [t \in {} |-> <<>>] /\ source = NoSource

\* PUT of a section.
\* A rendering depends on nothing else: one is enough (bound).
SaveSection(t, content) ==
    /\ source = NoSource
    /\ t \in ToSet(SectionSortOrder)
    /\ ValidContent(t, content)
    /\ saved' = [u \in DOMAIN saved \union {t} |-> IF u = t THEN content ELSE saved[u]]
    /\ UNCHANGED source

\* The RENDERING phase of a generation.
Render ==
    /\ source = NoSource
    /\ source' = [sections |-> saved, latex |-> RenderLatex]
    /\ UNCHANGED saved

PrintingNext ==
    \/ \E section \in Saved : SaveSection(section[1], section[2])
    \/ Render

-----------------------------------------------------------------------------
\* What TeX makes of the source: the characters it hands to the font, and
\* whether every special character is the template's own and every group closes.
Put(page, token) ==
    CASE token = "{" -> [page EXCEPT !.depth = @ + 1]
      [] token = "}" -> [page EXCEPT !.depth = @ - 1, !.sound = @ /\ page.depth > 0]
      [] token \in Specials \ {"{", "}"} -> [page EXCEPT !.sound = FALSE]
      [] token \in Commands -> page
      [] token \in DOMAIN TexMeaning -> [page EXCEPT !.text = Append(@, TexMeaning[token])]
      [] OTHER -> [page EXCEPT !.text = Append(@, token)]

Typeset(tokens) ==
    LET page[i \in 0 .. Len(tokens)] ==
            IF i = 0 THEN [text |-> <<>>, depth |-> 0, sound |-> TRUE]
            ELSE Put(page[i - 1], tokens[i])
    IN  page[Len(tokens)]

\* \\ reads on past the spaces: a star that follows is part of the command, and
\* a square bracket opens its argument.  \item takes a bracket as well.
Swallowed(tokens) ==
    {i \in 2 .. Len(tokens) : tokens[i] = "*" /\ tokens[i - 1] = "newline"}

Arguments(tokens) ==
    {i \in 2 .. Len(tokens) :
        /\ tokens[i] = "["
        /\ tokens[i - 1] \in {"newline", "item"} \/ i - 1 \in Swallowed(tokens)}

\* The page: no argument of a command is to come out of a text.
Page(tokens) ==
    [Typeset(Select(tokens, DOMAIN tokens \ Swallowed(tokens)))
        EXCEPT !.sound = @ /\ Arguments(tokens) = {}]

\* What the template puts between texts, and can be in a text as well.
Separators == {":", ",", "|", "--", "GPA:"}

\* The fields of an entry that are not to be seen: the link of a certification,
\* for which the template has no place, and what would stand to the right of
\* nothing, the link of a project without technologies and the location of a
\* job whose company has no visible character.
Unprinted(entry) ==
    {f \in DOMAIN entry :
        \/ f = "credential_url"
        \/ f = "url" /\ JoinPresent(entry.technologies, ",") = <<>>
        \/ f = "location" /\ "company" \in DOMAIN entry /\ Esc(entry.company) = <<>>}

TextsOf(entry, f) == IF f \in ListFields THEN entry[f] ELSE <<entry[f]>>

\* The texts to be seen, one after the other as they are stored.
FieldText(entry, f) ==
    IF f \in Unprinted(entry) THEN <<>>
    ELSE Joined([i \in DOMAIN TextsOf(entry, f) |-> NormalizeForLatex(TextsOf(entry, f)[i])])

EntryText(t, entry) ==
    Joined([k \in DOMAIN EntryFields(t) |-> FieldText(entry, EntryFields(t)[k])])

SectionText(t, sections) ==
    IF t \in DOMAIN sections
    THEN Joined([i \in DOMAIN sections[t] |-> EntryText(t, sections[t][i])]) ELSE <<>>

SavedText(sections) ==
    Joined([k \in DOMAIN SectionSortOrder |-> SectionText(SectionSortOrder[k], sections)])

Occurrences(text, ch) == Len(Select(text, {i \in DOMAIN text : text[i] = ch}))

\* Every text comes out of the escaping as its normal form.
EscapingIsFaithful(sections) ==
    \A t \in DOMAIN sections : \A e \in DOMAIN sections[t] :
        \A f \in ToSet(EntryFields(t)) : \A i \in DOMAIN TextsOf(sections[t][e], f) :
            LET text == TextsOf(sections[t][e], f)[i]
            IN  Page(Esc(text)) = [text |-> NormalizeForLatex(text), depth |-> 0, sound |-> TRUE]

\* Every character saved to be seen is on the page as often as it was saved.
EveryCharacterIsThere(page, written) ==
    \A ch \in (ToSet(page.text) \union ToSet(written)) \ Separators :
        Occurrences(page.text, ch) = Occurrences(written, ch)

Starts(tokens, characters) == tokens # <<>> /\ tokens[1] \in characters

\* An entry with a text that a command of the template reads on into: a bullet, a
\* highlight or an achievement that starts with a square bracket, or the description
\* of a project with technologies that starts with one or with a star.
ReadInto(t, entry) ==
    \/ \E f \in {"bullets", "highlights"} \intersect DOMAIN entry :
          \E i \in DOMAIN entry[f] : Starts(Esc(entry[f][i]), {"["})
    \/ t = "ACHIEVEMENTS" /\ Starts(JoinPresent(<<entry.text, entry.date>>, "--"), {"["})
    \/ /\ t = "PROJECTS" /\ JoinPresent(entry.technologies, ",") # <<>>
       /\ Starts(Esc(entry.description), {"*", "["})

\* Everything saved reaches the font once and as it was written: every text comes
\* out of the escaping as its normal form; and unless some entry has a text that a
\* command reads on into, the source has no special character, no group and no
\* argument but the template's own, and hands every character to the font as often
\* as it was saved, but for the fields that are not to be seen.
SavedReachesFont ==
    source # NoSource =>
        LET sections == source.sections
            page     == Page(source.latex)
        IN  /\ EscapingIsFaithful(sections)
            /\ (\A t \in DOMAIN sections : \A e \in DOMAIN sections[t] :
                   ~ReadInto(t, sections[t][e]))
               => /\ page.sound /\ page.depth = 0
                  /\ EveryCharacterIsThere(page, SavedText(sections))
=================================================================================
