CONSTANT Durations <- AllDurations
CONSTANT Held <- TenMinutes
CONSTANT Evaluations <- SampleEvaluations
CONSTANT NoScore = NoScore
CONSTANT Files <- Uploads
CONSTANT Lines <- ResumeLines
CONSTANT MaxLines = 4
CONSTANT MaxPages = 1
CONSTANT NoIntake = NoIntake
CONSTANT Recordings <- AudioFiles
CONSTANT SpokenWords <- HeardWords
CONSTANT MaxSpoken = 4
CONSTANT Tails <- AudioTails
CONSTANT MaxAudioBytes = 5
CONSTANT NoMetrics = NoMetrics
CONSTANT Written <- WrittenSections
CONSTANT Improvements <- AnsweredTexts
CONSTANT MaxAnswered = 2
CONSTANT NoAdvice = NoAdvice
CONSTANT Characters <- SavedCharacters
CONSTANT Saved <- SavedSections
CONSTANT NoSource = NoSource
SPECIFICATION ComputationsSpec
INVARIANT EveryStageKeepsAQuestion
INVARIANT LargerFractionNeverLoses
INVARIANT OutlierCannotDistort
INVARIANT NoLineLost
INVARIANT SpeechAddsUp
INVARIANT EveryNumberAccounted
INVARIANT SavedReachesFont
PROPERTY BestAnswerNeverLowers
PROPERTY AllocationTerminates
