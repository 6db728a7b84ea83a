\* One task of either graph, and one more request about it.
CONSTANTS
  Tenants = {default}
  Default = default
  Tasks = {t1}
  Sessions = {}
  Graphs = {full_react, goal}
  DefaultGraph = full_react
  None = none
  MaxRequests = 2
  MaxFaults = 0
SPECIFICATION Spec
INVARIANT ResumesItsOwnGraph
CHECK_DEADLOCK FALSE
