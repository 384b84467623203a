SPECIFICATION Spec
CONSTANTS
  Triggers <- TwoTriggers
  LogTypes <- NoLogs
  Readings <- TwoReadings
  MaxPolls = 3
  NoTrigger = NoTrigger
  Predicates = {p1}
  Kinds <- AndKind
  Clients = {alice}
  Nobody = Nobody
INVARIANT MailMeansFormulaHolds
CHECK_DEADLOCK FALSE
