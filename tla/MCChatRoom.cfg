SPECIFICATION Spec
SYMMETRY Symmetry
CONSTANTS
  Chats = {c1, c2}
  Earlier = 1
  MaxMsgs = 2
  MaxCalls = 2
  JoinIds = {j1}
  PageIds = {p1}
  MaxMoves = 2
  Limit = 1
  None = None
  Idle = Idle
  Done = Done
CONSTRAINTS
  StillPatient
  FewEvents
INVARIANTS
  RestingListMatches
  RestingPageHearsItsRoom
CHECK_DEADLOCK FALSE
