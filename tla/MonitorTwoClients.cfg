SPECIFICATION Spec
CONSTANTS
  Triggers <- OneTrigger
  LogTypes <- NoLogs
  Readings <- CpuReadings
  MaxPolls = 2
  NoTrigger = NoTrigger
  Predicates = {p1}
  Kinds <- ElementKind
  Clients = {alice, bob}
  Nobody = Nobody
INVARIANT MailGoesToSubscriber
CHECK_DEADLOCK FALSE
