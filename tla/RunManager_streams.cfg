SPECIFICATION FairSpec
CONSTANTS
  Tasks = {t1, t2}
  Subscribers = {s1}
  Cancellers = {c1}
  MaxBuffer = 2
  KeepDone = 0
  MaxFrames = 3
INVARIANTS
  TypeOK
  OnlyTrimmedFramesAreSkipped
  CancelTellsSubscribers
PROPERTIES
  StreamsEnd
  ImplementsEventLog
CHECK_DEADLOCK FALSE
