SPECIFICATION Spec
CONSTANTS
  MaxDevRounds = 2
  Presets = {"full", "full_react", "goal", "planner_gate", "two_call_review", "dev_review", "solo"}
  RevisionBudgets = {0, 1}
  IterationBudgets = {1, 5}
  ToolModes = {"unrestricted", "approval"}
  RecursionLimit = 20
  Answers <- AnyAnswerOrBlank
  Client = "any"
  ResumeOn = {"running", "awaiting_user", "completed", "failed"}
  MaxResumes = 2
  Faults = TRUE
INVARIANTS
  OnlyJudgedCodeIsDelivered
  BudgetsRespected
CHECK_DEADLOCK FALSE
