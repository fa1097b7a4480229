CONSTANT Types = {pi, sk}
CONSTANT PersonalInfo = pi
CONSTANT Contents = {a, b}
CONSTANT Incomplete = incomplete
CONSTANT None = none
CONSTANT MaxCalls = 2
CONSTANT Generations = {g1}
CONSTANT LastQuestion = 3
CONSTANT MaxPosts = 2
CHECK_DEADLOCK FALSE
SYMMETRY Symmetric
SPECIFICATION TabSpec
INVARIANT OneSectionPerType
INVARIANT NoEditDropped
INVARIANT RecordIsHonest
INVARIANT RecorderHonest
INVARIANT AnswersFitQuestions
PROPERTY FinishedIsHistory
