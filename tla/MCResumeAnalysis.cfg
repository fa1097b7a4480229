CONSTANT Callers = {c1, c2}
CONSTANT Keys = {u1}
CONSTANT User = u1
CONSTANT KeyConfigured = TRUE
CONSTANT MaxEvents = 2
CONSTANT Window = 3
CONSTANT TicksPerSecond = 2
CONSTANT MaxTime = 3
CONSTANT MaxAnalyses = 3
CONSTANT Outputs <- SampleOutputs
CONSTANT SectionSets <- SampleSections
CHECK_DEADLOCK FALSE
SPECIFICATION Spec
INVARIANT WindowBound
INVARIANT RetryAfterHonest
INVARIANT CallsJustified
INVARIANT RowsHaveParents
INVARIANT ScoreIsAverage
INVARIANT BetterNeverScoresLower
