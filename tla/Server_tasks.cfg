\* Three requests for two tasks and one legacy session, one fault at any point.
CONSTANTS
  Tenants = {default, other}
  Default = default
  Tasks = {t1, t2}
  Sessions = {s1}
  Graphs = {full_react}
  DefaultGraph = full_react
  None = none
  MaxRequests = 3
  MaxFaults = 1
SPECIFICATION FairSpec
INVARIANTS
  TypeOK
  OneConnectionPerTenant
  TenantsStayApart
  RunsAreListed
  TasksAreFound
PROPERTY RequestsEnd
CHECK_DEADLOCK FALSE
