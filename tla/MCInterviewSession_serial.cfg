CONSTANT Requests = {r1}
CONSTANT Moves = {"PAUSED", "RUNNING", "CANCELLED"}
CONSTANT Attempts = {1}
CONSTANT Plan <- TenQuestions
CONSTANT Type = "BEHAVIORAL"
CONSTANT Questions = 10
CONSTANT NoReport = NoReport
CONSTANT StartMayFail = TRUE
CONSTANT ModelTypes = {FALSE}
CHECK_DEADLOCK FALSE
SPECIFICATION PersistentSpec
INVARIANT NeverStranded
INVARIANT ReportCoversInterview
PROPERTY FollowsStatusTable
PROPERTY RunningInterviewEnds
