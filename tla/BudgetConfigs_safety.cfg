SYMMETRY MCSymmetry
SPECIFICATION ConfigsSpec
CONSTANTS
  Users = {u1, u2}
  Team = team
  Budgeted = {u1, u2}
  AppUsers = {u1}
  Limits = {1, 2}
  Calls = {c1, c2}
  NoCopy = NoCopy
  MaxCalls = 2
  MaxRequests = 1
  MaxConfigFaults = 1
INVARIANTS LimitsApply
PROPERTY MembersWithinTeam
CHECK_DEADLOCK FALSE
