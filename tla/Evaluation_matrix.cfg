\* Two variants, a coding task and a behavioural one with a follow-up, one executor thread.
CONSTANTS
  NVariants = 2
  MaxWorkers = 1
  Suite <- MCSuite
SPECIFICATION Spec
INVARIANTS
  TypeOK
  SandboxesAreRemoved
  PassedIsEarned
  EscalationsAreTrue
  HiddenTestsUnseen
CHECK_DEADLOCK FALSE
