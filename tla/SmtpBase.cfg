SPECIFICATION Spec
CONSTANTS
  Letters <- MCLetters
  MaxCalls = 2
INVARIANTS
  OneLetterInOrder
  ReturnMeansWritten
PROPERTIES
  OnlyASilentPeerHoldsTheCaller
CHECK_DEADLOCK FALSE
