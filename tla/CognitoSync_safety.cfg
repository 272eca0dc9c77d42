SPECIFICATION MCSpec
CONSTANTS
  Subs = {s1, s2}
  Emails = {e1, e2}
  GroupOrder <- MCGroupOrder
  Mapped = {g1, g2}
  Homeless = {g2}
  AdminGroups = {ga}
  Memberships <- MCMemberships
  DefaultTeam = DefaultTeam
  Handmade = Handmade
  Local = Local
  Ids = {1, 2, 3, 4}
  NoAccount = NoAccount
  NoRow = NoRow
  g1 = g1
  g2 = g2
  ga = ga
  s1 = s1
  e1 = e1
  DeactivateMissing = TRUE
  BatchSize = 2
  MaxChanges = 1
  MaxOthers = 1
  MaxOutages = 1
INVARIANT MirrorsThePool
PROPERTY DeactivatedHasCause
CHECK_DEADLOCK FALSE
