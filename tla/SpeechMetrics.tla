------------------------------ MODULE SpeechMetrics ------------------------------
(***************************************************************************)
(* An answer given as audio: the checks of the file, the outcome of its    *)
(* transcription (speech/transcription.py) and the speech metrics computed *)
(* from the timed words (speech/metrics.py).                               *)
(*                                                                         *)
(* Times are in tenths of a second, where rounding to three decimals is    *)
(* the identity; quotients are in thousandths or hundredths, rounded to    *)
(* the nearest.  A word is its cleaned token (lower case, letters and      *)
(* apostrophes; "" when nothing is left) with its start and end.           *)
(***************************************************************************)
EXTENDS Totals, FiniteSetsExt

CONSTANTS
    Recordings,     \* bound: the audio files, [bytes, container]
    SpokenWords,    \* bound: the words, [token, gap, length]; the gap to the
                    \* previous word is negative when the two overlap
    MaxSpoken,      \* bound: words of an answer
    Tails,          \* bound: audio after the last word, negative when cut short
    MaxAudioBytes,  \* ANSWER_AUDIO_MAX_BYTES
    NoMetrics       \* nothing has been measured

\* A word does not end before it starts (the recogniser, external).
ASSUME SpokenWordsAssumption ==
    /\ \A word \in SpokenWords : word.gap \in Int /\ word.length \in Nat
    /\ Tails \subseteq Int

VARIABLES
    words,          \* the words the recogniser hears, in time order
    metrics         \* NoMetrics, or what becomes of the answer's audio

AudioContainers == {"wav", "webm", "ogg", "mp3", "m4a"}

FillerWords == {"um", "uh", "er", "ah", "mm", "hmm", "uhm", "erm"}

PauseThreshold == 3
LongPauseThreshold == 15

AudioRejection(recording) ==
    CASE recording.bytes = 0 -> "EMPTY"
      [] recording.bytes > MaxAudioBytes -> "TOO_LARGE"
      [] recording.container \notin AudioContainers -> "UNSUPPORTED_FORMAT"
      [] OTHER -> "none"

LargerOf(a, b) == IF a >= b THEN a ELSE b

\* round(n / d, k) in units of 10^-k, for d > 0; a tie goes up.
Quotient(n, d, unit) == (2 * n * unit + d) \div (2 * d)

Speaking == Total([i \in DOMAIN words |-> LargerOf(words[i].end - words[i].start, 0)])

\* The silence before a word; there is none before the first.
GapBefore(i) == IF i = 1 THEN 0 ELSE words[i].start - words[i - 1].end

\* The words that follow a gap above a threshold.
GapsAbove(threshold) == {i \in DOMAIN words : GapBefore(i) > threshold}

Pauses == GapsAbove(PauseThreshold)

\* The sum of the pauses.
Paused == Total([i \in DOMAIN words |-> IF i \in Pauses THEN GapBefore(i) ELSE 0])

Token(i) == words[i].token

Fillers == {i \in DOMAIN words : Token(i) \in FillerWords}

\* The second words of "you know".
YouKnows == {i \in DOMAIN words : i > 1 /\ Token(i - 1) = "you" /\ Token(i) = "know"}

\* Mutated form: a repeated filler counts as a repetition as well.
AnyRepetitions == {i \in DOMAIN words : i > 1 /\ Token(i - 1) = Token(i) /\ Token(i) # ""}

Repetitions ==
    {i \in DOMAIN words : /\ i > 1 /\ Token(i - 1) = Token(i)
                         /\ Token(i) \notin FillerWords \union {""}}

FillerCount == Cardinality(Fillers) + Cardinality(YouKnows)

\* compute_speech_metrics
ComputeSpeechMetrics(audioDuration) ==
    LET audio == LargerOf(audioDuration, 0)
        n     == Len(words)
    IN  [speaking_duration    |-> Speaking,
         word_count           |-> n,
         words_per_minute     |-> IF Speaking > 0 THEN Quotient(600 * n, Speaking, 100) ELSE 0,
         long_pause_count     |-> Cardinality(GapsAbove(LongPauseThreshold)),
         avg_pause_duration   |-> IF Pauses = {} THEN 0
                                  ELSE Quotient(Paused, Cardinality(Pauses), 100),
         max_pause_duration   |-> IF Pauses = {} THEN 0
                                  ELSE 100 * Max({GapBefore(i) : i \in Pauses}),
         filler_word_count    |-> FillerCount,
         filler_word_frequency |-> IF n > 0 THEN Quotient(100 * FillerCount, n, 100) ELSE 0,
         hesitation_count     |-> FillerCount + Cardinality(Repetitions),
         silence_duration     |-> LargerOf(audio - Speaking, 0),
         response_duration    |-> audio,
         speech_completeness  |-> IF audio = 0 THEN 0
                                  ELSE IF Speaking >= audio THEN 1000
                                  ELSE Quotient(Speaking, audio, 1000)]

-----------------------------------------------------------------------------
SpeechInit == words = <<>> /\ metrics = NoMetrics

\* The recogniser (external) emits words in the order of their start.
Say(word) ==
    LET last  == IF words = <<>> THEN [start |-> 0, end |-> 0] ELSE words[Len(words)]
        start == LargerOf(last.end + word.gap, last.start)
    IN  /\ metrics = NoMetrics
        /\ Len(words) < MaxSpoken
        /\ words' = Append(words, [token |-> word.token, start |-> start,
                                   end |-> start + word.length])
        /\ UNCHANGED metrics

\* submit_answer with audio: a rejected file, a failed transcription or an
\* empty transcript leaves no answer; else the metrics are stored with it.
MeasureAnswer(recording, tail) ==
    /\ metrics = NoMetrics
    /\ metrics' =
          IF AudioRejection(recording) # "none"
          THEN [outcome |-> "REJECTED", reason |-> AudioRejection(recording)]
          ELSE IF words = <<>> THEN [outcome |-> "REJECTED", reason |-> "EMPTY_TRANSCRIPT"]
          ELSE [outcome |-> "MEASURED",
                values  |-> ComputeSpeechMetrics(words[Len(words)].end + tail)]
    /\ UNCHANGED words

TranscriptionFails ==
    /\ metrics = NoMetrics
    /\ metrics' \in [outcome : {"REJECTED"},
                     reason : {"FAILED", "TIMEOUT", "UNAVAILABLE"}]
    /\ UNCHANGED words

SpeechNext ==
    \/ \E word \in SpokenWords : Say(word)
    \/ \E recording \in Recordings, tail \in Tails : MeasureAnswer(recording, tail)
    \/ TranscriptionFails

-----------------------------------------------------------------------------
\* The metrics of an answer fit together: whatever the words, no word counts as
\* two hesitations, so there are fewer hesitations than words except fillers
\* from the first word on, and no rate leaves its range; and when the words do
\* not overlap and lie within the audio, speech and silence make up the audio,
\* the pauses fit into the silence, and the mean pause lies between the
\* threshold and the longest one.
AddsUp(m) ==
    LET ordered == \A i \in 2..Len(words) : words[i - 1].end <= words[i].start
        within  == words[Len(words)].end <= m.response_duration
        pauses  == Cardinality(Pauses)
    IN  /\ m.hesitation_count <= m.word_count
        /\ Token(1) \notin FillerWords => m.hesitation_count < m.word_count
        /\ m.filler_word_frequency \in 0..10000
        /\ m.speech_completeness \in 0..1000
        /\ ordered /\ within =>
              /\ m.speaking_duration + m.silence_duration = m.response_duration
              /\ m.avg_pause_duration * pauses <= 100 * m.silence_duration + pauses
              /\ m.long_pause_count * LongPauseThreshold <= m.silence_duration
              /\ pauses # 0 =>
                    /\ m.avg_pause_duration >= 100 * PauseThreshold
                    /\ m.avg_pause_duration <= m.max_pause_duration
              /\ m.max_pause_duration > 100 * LongPauseThreshold
                    <=> m.long_pause_count > 0

SpeechAddsUp ==
    metrics # NoMetrics /\ metrics.outcome = "MEASURED" => AddsUp(metrics.values)
=================================================================================
