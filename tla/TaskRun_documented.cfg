SPECIFICATION FairSpec
CONSTANTS
  MaxDevRounds = 2
  Presets = {"full", "full_react", "goal", "planner_gate", "two_call_review", "dev_review", "solo"}
  RevisionBudgets = {0, 1, 2}
  IterationBudgets = {1, 4, 7}
  ToolModes = {"unrestricted", "approval"}
  RecursionLimit = 60
  Answers <- AnyAnswer
  Client = "documented"
  ResumeOn = {"awaiting_user"}
  MaxResumes = 6
  Faults = TRUE
INVARIANTS
  TypeOK
  DeveloperIsNeverBlind
  ToolCallsAnswered
  ReturnedRunIsSettled
PROPERTIES
  EveryTaskConcludes
  ImplementsLifecycle
CHECK_DEADLOCK FALSE
