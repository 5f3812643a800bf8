SPECIFICATION ModSpec
SYMMETRY Symmetry
CONSTANTS
  Users = {u1, u2, u3}
  Channels = {c1}
  ReportIds = {r1, r2, r3}
  Threshold = 1
  MaxWarn = 3
  NoReport = NoReport
INVARIANTS
  MuteNeedsManyAccusers
  SanctionsAreBacked
PROPERTY WarnedBeforeMuted
