SPECIFICATION FairSpec
CONSTANTS
  MaxDevRounds = 2
  Presets = {"full_react"}
  RevisionBudgets = {0, 1}
  IterationBudgets = {1, 4}
  ToolModes = {"unrestricted", "approval"}
  RecursionLimit = 60
  Answers <- AnyAnswer
  Client = "http"
  ResumeOn = {"awaiting_user"}
  MaxResumes = 6
  Faults = FALSE
PROPERTY ApprovalIsAnswered
CHECK_DEADLOCK FALSE
