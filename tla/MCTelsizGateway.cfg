SPECIFICATION Spec
SYMMETRY Symmetry
CONSTANTS
  u1 = u1
  Channels = {c1,c2}
  Sockets = {s1,s2}
  Users = {u1}
  userOf <- MCUserOf
  TimerIds = {t1,t2}
  PttIds = {p1, p2}
  MaxTalk = 2
  Nobody = Nobody
  NoChannel = NoChannel
  NoTimer = NoTimer
  Idle = Idle
INVARIANTS
  TypeOK
  PresenceIsMembership
  FloorHasTimer
  ListenersInformed
PROPERTIES
  LeavingGivesUpAll
  HalfDuplexFloor
