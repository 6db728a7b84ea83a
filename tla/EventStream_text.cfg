\* Three roles and tools; text of up to five pieces in chunks of up to three.
CONSTANTS
  Nodes = {"planner", "developer_tools", "supervisor"}
  MaxFrames = 4
  MaxText = 5
  MaxChunk = 3
SPECIFICATION Spec
INVARIANTS
  TypeOK
  ShownIsRedaction
  TextPrecedesOutcome
CHECK_DEADLOCK FALSE
