\* Two tasks of today and one of earlier days, two clicks and any number of stops.
CONSTANTS
  Tasks = {t1, t2, t3}
  History = {t3}
  NoTask = none
  Script <- MCScript
  Outcomes = {"awaiting_user", "completed"}
  MAX_RECONNECTS = 1
  MaxClicks = 2
  MaxDrops = 1
SPECIFICATION FairSpec
INVARIANTS
  TypeOK
  EachFrameAppliedOnce
  StreamBringsOutcome
  LiveMeansStreaming
  CompletedIsTrue
PROPERTY ClientComesToRest
CHECK_DEADLOCK FALSE
