CONSTANT Plans <- AllocatedPlans
CONSTANT Budgets = {3, 4, 5, 6, 7, 8, 10, 12, 15}
CONSTANT Unreliable <- RepeatingPlans
CONSTANT Recommended = {"ADVANCE_STAGE", "CHANGE_TOPIC"}
CONSTANT TopicLists <- FoundTopics
CONSTANT DetectedSections <- Sections
CONSTANT ListCap = 2
CONSTANT QuestionCap = 15
SPECIFICATION ContentSpec
INVARIANT WithinBudgets
INVARIANT PlanFollowed
INVARIANT CompletesOnlyAfterWholePlan
INVARIANT EveryQuestionRemembered
INVARIANT RepeatsOnlyLastResort
INVARIANT NoTopicLost
PROPERTY StagesForward
PROPERTY EventuallyCompletes
