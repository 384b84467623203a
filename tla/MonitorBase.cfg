SPECIFICATION FairSpec
CONSTANTS
  Triggers <- ZeroAndTwo
  LogTypes <- CpuLog
  Readings <- CpuReadings
  MaxPolls = 5
  NoTrigger = NoTrigger
  Predicates = {p1}
  Kinds <- AllKinds
  Clients = {alice}
  Nobody = Nobody
INVARIANTS TypeOK MailAtEndOfPeriod SatisfiedHasMailed
PROPERTY CallsReturn
CHECK_DEADLOCK FALSE
