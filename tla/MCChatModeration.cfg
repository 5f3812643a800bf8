SPECIFICATION Spec
SYMMETRY Symmetry
CONSTANTS
  Calls = {k1, k2}
  MaxTime = 2
  RateCount = 1
  DupCount = 1
  None = None
  Idle = Idle
INVARIANTS
  LastSentenceHolds
  CachedWordsAreCurrent
  LimitsHold
PROPERTIES
  SecondUseIsBanned
  TwiceInARowOnlyTogether
