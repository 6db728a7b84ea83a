\* A connection lost while task_started is all that arrived.
CONSTANTS
  Tasks = {t1, t2}
  History = {}
  NoTask = none
  Script <- MCScript
  Outcomes = {"awaiting_user", "completed"}
  MAX_RECONNECTS = 1
  MaxClicks = 1
  MaxDrops = 1
SPECIFICATION Spec
INVARIANT StartedStreamIsResumed
CHECK_DEADLOCK FALSE
