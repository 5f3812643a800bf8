SPECIFICATION Spec
CONSTANTS
  CallIds = {c1, c2}
  Idle = Idle
  Users = {u1, u2, u3}
  Organizer = u1
  Capacity = 1
  Friends = {u1, u2}
  MaxRows = 4
  Owner = owner
  Travelers = {t1, t2}
  NoOne = NoOne
  Members = {u1, u2}
  MaxUses = 1
  Tokens = {k1, k2, k3}
  Voters = {u1, u2}
  Options = {o1, o2}
  Replies = {r1, r2, r3}
  NoReply = NoReply
  Typists = {u1, u2}
  Watchers = {w1}
  MaxWire = 2
  Clients = {m1, m2}
  Elsewhere = elsewhere
  MaxStored = 2
  StartIds = {a1, a2}
  WireLimit = 2
INVARIANTS
  OneRequestPerPair
  OneTravelerConfirmed
  UsesAreRedemptions
  OneLinkIsGood
  OneVoteEach
  OneBestReply
  LockIsHeldWhileTalking
  IndicatorHasTimer
  PendingBubbleHasTimer
  StoredShownOnce
  ButtonPageAndFloorAgree
PROPERTIES
  SeatsAreTakenTogetherOnly
  FriendshipEndsByRemoval
  AppliedOverOnlyTogether
  SolvedStays
