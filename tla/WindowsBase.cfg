CONSTANTS
  Word = 8
  Processors = {1, 2}
  MaxReadings = 3
  MemorySizes = {1, 3}
  ProcSteps <- MCProcSteps
  DiskSteps <- MCDiskSteps
  ClockSteps <- MCClockSteps
SPECIFICATION Spec
INVARIANTS RateSinceLastGood UndefinedOnlyOnce SelfCpuOfThisInterval
CHECK_DEADLOCK FALSE
