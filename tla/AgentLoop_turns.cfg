\* A profile per question; up to three invocations of each task.
CONSTANTS
  Profiles <- AllProfiles
  MaxInvocations = 3
SPECIFICATION FairSpec
INVARIANTS
  TypeOK
  PromptsAreSound
  PoisonNeverReachesModel
  SpendingIsBounded
  OnlyPermittedToolsAct
PROPERTIES
  DroppedResultsAreSpilled
  InvocationsEnd
CHECK_DEADLOCK FALSE
