SPECIFICATION FairSpec
CONSTANTS
  Triggers <- BaseTriggers
  LogTypes <- BaseLogs
  Readings <- MCReadings
  SelfStop = TRUE
  MaxPolls = 5
INVARIANTS TypeOK ActivationsPerRun LogCadence WindowFull NoTerminate
PROPERTIES AlarmImplemented StopReturns
CHECK_DEADLOCK FALSE
