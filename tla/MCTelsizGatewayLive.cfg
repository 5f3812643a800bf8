SPECIFICATION FairSpec
CONSTANTS
  u1 = u1
  Channels = {c1}
  Sockets = {s1,s2}
  Users = {u1}
  userOf <- MCUserOf
  TimerIds = {t1,t2}
  PttIds = {p1,p2}
  MaxTalk = 2
  Nobody = Nobody
  NoChannel = NoChannel
  NoTimer = NoTimer
  Idle = Idle
PROPERTIES
  FloorFreed
  LastingMuteSilences
