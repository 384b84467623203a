SPECIFICATION Spec
CONSTANTS
  Triggers = {t1, t2, t3}
  NoTrigger = NoTrigger
  Predicates = {p1}
  Kinds <- AllKinds
  MaxSignals = 7
SYMMETRY Symmetry
INVARIANTS TypeOK StateFollowsSignals SatisfiedHasFiredUnlessStale OneCallbackPerSignal
PROPERTIES CallbackOnlyIfSatisfied SecondOrSilent
CHECK_DEADLOCK FALSE
