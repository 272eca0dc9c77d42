SPECIFICATION MCSpec
CONSTANTS
  w1 = w1 w2 = w2 n1 = n1 n2 = n2 n3 = n3
  e1 = e1 e2 = e2 e3 = e3 p1 = p1 p2 = p2
  m1 = m1 m2 = m2 i1 = i1
  Requests = {r1, r2, r3}
  Workers = {w1, w2}
  NameOf <- OwnNames
  Names = {n1, n2, n3}
  SpareNames = {n3}
  Rejected = {r3}
  Orphans = {r1}
  StreamMax = 10
  BatchMax = 2
  MaxStops = 1
  MaxDbFaults = 1
  MaxCopies = 1
  Events = {e1, e2, e3}
  People = {p1, p2}
  Malformed = {e3}
  Roles = {"affected", "admin"}
  Holders <- MCHolders
  Configs <- MCConfigs
  FirstConfig <- BothRoles
  MaxAttempts = 2
  MaxEdits = 1
  MaxTrouble = 1
  Models = {m1, m2}
  ProviderIds = {i1}
  IdOf <- OneModel
  Teams = {t1}
  Clients = {c1}
  Loads = {l1, l2}
  Limited = {m1}
  TTL = 2
  MaxChanges = 2
  MaxCacheFaults = 1
INVARIANTS  NoOverlap EventsAreAccounted BoundedStaleness 
CHECK_DEADLOCK FALSE
