----------------------------- MODULE MCComputations -----------------------------
(* Every duration the API accepts and every interview type; an interview    *)
(* of ten minutes (five questions) is followed to the report, with answers  *)
(* of every applicability, ties between unequal difficulties, both extremes *)
(* and means that end in a half.  Resumes of up to four lines on up to two  *)
(* pages (one allowed), answers of up to four words, and one sample or two  *)
(* of every section.                                                        *)
EXTENDS Computations

AllDurations == 5..60

TenMinutes == {<<"MIXED", 10>>}

Flat(question, difficulty, score) ==
    [type |-> question, difficulty |-> difficulty,
     scores |-> [c \in ReportCategories |-> score]]

SampleEvaluations ==
    {Flat("PROJECT", "HARD", 100), Flat("PROJECT", "EASY", 100),
     Flat("TECHNICAL", "MEDIUM", 0), Flat("BEHAVIORAL", "EASY", 45),
     [Flat("CLAIM_VERIFICATION", "MEDIUM", 60) EXCEPT !.scores["EVIDENCE"] = 73],
     Flat("INTRODUCTORY", "MEDIUM", 46), Flat("SITUATIONAL", "HARD", 80)}

\* Resume lines: a heading, another of the same type, one that is only detected,
\* one too long; a bulleted word is no exception to any of them.
Line(canonical, kind) == [canonical |-> canonical, kind |-> kind, long |-> FALSE]

ResumeLines ==
    {Line("asha rao", "text"), Line("", "white"), Line("", "invisible"),
     Line("skills", "text"), Line("key skills", "text"), Line("internship", "text"),
     [Line("skills", "text") EXCEPT !.long = TRUE]}

Pdf == [empty |-> FALSE, extension |-> ".pdf", declared |-> "application/pdf",
        magic |-> "%PDF-", readable |-> TRUE]

Uploads ==
    {Pdf, [Pdf EXCEPT !.readable = FALSE], [Pdf EXCEPT !.declared = ""],
     [Pdf EXCEPT !.declared = "image/png"], [Pdf EXCEPT !.magic = "PK"],
     [Pdf EXCEPT !.extension = ".docx"], [Pdf EXCEPT !.empty = TRUE]}

\* Spoken words: pauses of exactly the thresholds and above, overlaps, fillers,
\* the two words of "you know", repetitions, and a word that cleans to nothing.
Word(token, gap, length) == [token |-> token, gap |-> gap, length |-> length]

HeardWords ==
    {Word("um", 0, 2), Word("um", 4, 3), Word("you", 0, 2), Word("you", 3, 2),
     Word("know", 16, 2), Word("know", 0, 1), Word("i", 15, 2), Word("i", -1, 4),
     Word("", 20, 0)}

AudioFiles ==
    {[bytes |-> 5, container |-> "webm"], [bytes |-> 6, container |-> "ogg"],
     [bytes |-> 0, container |-> "webm"], [bytes |-> 5, container |-> "avi"]}

AudioTails == {-2, 0, 7}

\* Numbers: 40 and 40.0, 0.5 and 00.50, 30, 030 and 30.00, zero and 0.0.
Number(whole, fraction) == [whole |-> whole, fraction |-> fraction]
Claim(whole, fraction) == [number |-> Number(whole, fraction), bracketed |-> FALSE]
Placeholder(whole) == [number |-> Number(whole, <<>>), bracketed |-> TRUE]
Entry(context, bullets) == [context |-> context, bullets |-> bullets]

WrittenSections ==
    {<<"SUMMARY", <<Entry(<<Claim(<<7>>, <<>>)>>, <<>>)>> >>,
     <<"EXPERIENCE", <<Entry(<<Claim(<<0>>, <<0>>)>>, << <<Claim(<<4, 0>>, <<0>>)>>, <<>> >>)>> >>,
     <<"EXPERIENCE", <<Entry(<<Claim(<<0, 0>>, <<5, 0>>)>>, <<>>)>> >>}

AnsweredTexts ==
    {<<Claim(<<4, 0>>, <<>>), Placeholder(<<3, 0>>)>>,
     <<Claim(<<0, 3, 0>>, <<>>), Claim(<<3, 0>>, <<0, 0>>), Claim(<<0>>, <<5>>)>>,
     <<Claim(<<0>>, <<>>), Claim(<<7>>, <<0>>)>>}

\* Sections to print: a letter tells every field, special characters are spread
\* over the fields; stars and brackets stand where they are harmless, and where a
\* command of the template reads on into them.
Info(link) ==
    [full_name |-> <<"n", "&">>, email |-> <<"e", "_", "m">>, phone |-> <<>>,
     location |-> <<"l">>, linkedin_url |-> link, github_url |-> <<>>,
     website_url |-> <<"w", "~">>]

Job(bullets) ==
    [title |-> <<"t", " ", "control", " ", "\\", "{", "}", "wide">>, company |-> <<"c">>,
     location |-> <<"q">>, start_date |-> <<"s">>, end_date |-> <<>>, bullets |-> bullets]

Project(technologies, description) ==
    [name |-> <<"*", "p", "#">>, description |-> description,
     technologies |-> technologies, url |-> <<"u", "~">>, bullets |-> << <<"%", "y">> >>]

School ==
    [institution |-> <<"i">>, degree |-> <<"D">>, field_of_study |-> <<"F", "^">>,
     location |-> <<>>, start_date |-> <<>>, end_date |-> <<"E">>, gpa |-> <<"G">>,
     highlights |-> << <<" ", "H", " ">>, <<"*", "-", "-">> >>]

SavedCharacters ==
    {"a", "A", "b", "B", "c", "C", "d", "D", "e", "E", "F", "g", "G", "H", "i", "j", "J", "k",
     "l", "m", "n", "p", "q", "r", "s", "S", "t", "u", "w", "x", "y", "z", "Z", " ",
     "break", "control", "wide", "*", "[", "]", "-", "\\", "&", "%", "$", "#", "_", "{", "}", "~", "^"}

SavedSections ==
    {<<"PERSONAL_INFO", <<Info(<<>>)>> >>, <<"PERSONAL_INFO", <<Info(<<"k", "_">>)>> >>,
     <<"SUMMARY", << [text |-> <<"\\", "~", "S", "}">>] >> >>,
     <<"EXPERIENCE", <<Job(<<>>), Job(<< <<"b">>, <<>>, <<"b", "B">> >>)>> >>,
     <<"EXPERIENCE", <<Job(<< <<"*", "[", "b", "]">>, <<"[", "b", "]">> >>)>> >>,
     <<"INTERNSHIPS", <<[Job(<<>>) EXCEPT !.company = <<" ">>]>> >>,
     <<"PROJECTS", <<Project(<<>>, <<"*", "d">>)>> >>,
     <<"PROJECTS", <<Project(<< <<"j">>, <<"J">> >>, <<"d", "break", "$", "-", "-">>)>> >>,
     <<"PROJECTS", <<Project(<< <<"j">> >>, <<"wide", "*", "d">>)>> >>,
     <<"EDUCATION", <<School>> >>,
     <<"SKILLS", <<[name |-> <<"g">>, skills |-> << <<"z">>, <<"Z", "#">> >>]>> >>,
     <<"CERTIFICATIONS", <<[name |-> <<"[", "C">>, issuer |-> <<>>, date |-> <<"x">>,
                            credential_url |-> <<"r">>]>> >>,
     <<"ACHIEVEMENTS", <<[text |-> <<"A", "{">>, date |-> <<"a">>]>> >>}
=================================================================================
