\* Credentials live four ticks, a bearer three, and the margins are one: a mint
\* may begin two ticks before its credentials die.
SPECIFICATION MCSpec
CONSTANTS
  r1 = r1 r2 = r2 user = user team = team
  model1 = model1 model2 = model2
  Requests = {r1, r2}
  Keys <- MCKeys
  UserKeys <- MCUserKeys
  CostScopes = {user, team}
  Chain <- MCChain
  Payers <- MCPayers
  RpmLimit <- MCRpmLimit
  TpmLimit <- MCTpmLimit
  CpmLimit <- MCCpmLimit
  CphLimit <- MCCphLimit
  Throttled = {r2}
  ThrottlePct = 50
  Reserve = 2
  EstCost = 2
  Usages <- MCUsages
  FailClosed = FALSE
  Retries = 1
  Window = 2
  Hour = 4
  MaxTime = 2
  MaxFaults = 1
  InFlight = 2
  MaxRequests = 3
  Profiles <- MCProfiles
  InAccount = "own"
  NoCreds = NoCreds
  AssumeDuration = 4
  RefreshSkew = 1
  BearerTTL = 3
  BearerSkew = 1
  OwnLives = {2, 4}
  LastTick = 4
INVARIANTS RpmWindowBound  RecoversWhenQuiet CredentialsUsable
CHECK_DEADLOCK FALSE
