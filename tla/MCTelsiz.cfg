SPECIFICATION TelsizSpec
CONSTANTS
  a = a
  b = b
  d = d
  Grievances <- MCGrievances
  Channels = {c1}
  Sockets = {a, b, d}
  Users = {a, b, d}
  userOf <- MCUserOf
  TimerIds = {t1}
  PttIds = {p1}
  ReportIds = {r1, r2}
  Threshold = 1
  MaxWarn = 2
  MaxTalk = 1
  Nobody = Nobody
  NoChannel = NoChannel
  NoTimer = NoTimer
  Idle = Idle
  NoReport = NoReport
PROPERTY MutedTakesNoFloor
