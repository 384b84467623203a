CONSTANTS
  Word = 8
  SectorSize = 2
  Processors = {1, 2}
  MaxReadings = 3
  MemorySizes = {1, 3}
  CpuSteps <- MCCpuSteps
  ProcSteps <- MCProcSteps
  DiskSteps <- MCDiskSteps
  ClockSteps <- MCClockSteps
SPECIFICATION Spec
INVARIANTS TypeOK CpuOfThisInterval SelfCpuOfThisInterval RateOfThisInterval UndefinedOnlyWithoutSda
CHECK_DEADLOCK FALSE
