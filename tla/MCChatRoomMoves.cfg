SPECIFICATION Spec
CONSTANTS
  Chats = {c1, c2}
  Earlier = 2
  MaxMsgs = 2
  MaxCalls = 0
  JoinIds = {j1, j2}
  PageIds = {}
  MaxMoves = 1
  Limit = 1
  None = None
  Idle = Idle
  Done = Done
INVARIANTS
  RoomChangeResetsList
CHECK_DEADLOCK FALSE
