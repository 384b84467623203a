SPECIFICATION Spec
CONSTANTS
  Triggers <- BadUnitTriggers
  LogTypes <- BaseLogs
  Readings <- DiskReadings
  SelfStop = FALSE
  MaxPolls = 2
INVARIANT BadUnitEndsFirstPoll
CHECK_DEADLOCK FALSE
