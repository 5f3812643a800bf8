SPECIFICATION Spec
CONSTANTS
  Users = {org, guest}
  Organizer = org
  Capacity = 1
  CallIds = {c1}
  AwardIds = {a1, a2, a3}
  MaxFaults = 2
  Idle = Idle
PROPERTIES
  RefusedMeansGiven
