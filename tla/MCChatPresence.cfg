SPECIFICATION Spec
SYMMETRY Symmetry
CONSTANTS
  a = a
  Chats = {c1, c2}
  Sockets = {tab1, tab2}
  Users = {a}
  userOf <- MCUserOf
  JoinIds = {j1, j2, j3}
  Idle = Idle
INVARIANTS
  ReferencesAreCovered
  RoomMembersAreOnline
  OnlyTornHandlersLeaveGhosts
