SPECIFICATION Spec
CONSTANTS
  Io = Io
  Threads = {Io}
  c1 = c1
  c2 = c2
  c3 = c3
  Connections <- MCConnections
  Nobody = Nobody
  Requests <- MCRequests
  MaxDue = 1
INVARIANTS
  CountsTheScopes
  TimeoutGuardsEveryWait
  StoppedServesNobody
PROPERTIES
  EveryRequestEnds
CHECK_DEADLOCK FALSE
