SPECIFICATION Spec
CONSTANTS
  Triggers = {t1, t2, t3}
  NoTrigger = NoTrigger
  Predicates = {p1}
  Kinds <- OrKind
  MaxSignals = 6
SYMMETRY Symmetry
INVARIANT SatisfiedHasFired
CHECK_DEADLOCK FALSE
