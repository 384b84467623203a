CONSTANT Inputs <- MCInputs
SPECIFICATION Spec
INVARIANTS TypeOK GoodFilesMeanWhatTheySay LastLineNeedsItsNewline DamageOnlyAfter
PROPERTIES BackToInitial EveryFileIsRead
CHECK_DEADLOCK FALSE
