CONSTANT Requests = {r1, r2}
CONSTANT Moves = {"PAUSED", "RUNNING", "CANCELLED"}
CONSTANT Attempts = {1, 2, 3}
CONSTANT Plan <- ThreeQuestions
CONSTANT Type = "TECHNICAL"
CONSTANT Questions = 3
CONSTANT NoReport = NoReport
CONSTANT StartMayFail = FALSE
CONSTANT ModelTypes = {FALSE}
CHECK_DEADLOCK FALSE
SPECIFICATION Spec
INVARIANT QuestionsNumbered
PROPERTY SerialisedEngine
SYMMETRY RequestSymmetry
