SPECIFICATION Spec
CONSTANTS
  MaxDevRounds = 2
  Presets = {"full", "full_react"}
  RevisionBudgets = {0, 1}
  IterationBudgets = {1, 4}
  ToolModes = {"unrestricted", "approval"}
  RecursionLimit = 60
  Answers <- AnyAnswer
  Client = "documented"
  ResumeOn = {"awaiting_user"}
  MaxResumes = 6
  Faults = FALSE
INVARIANT DeveloperReadsDirectives
CHECK_DEADLOCK FALSE
