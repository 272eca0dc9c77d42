SPECIFICATION FairSpec
CONSTANTS
  r1 = r1 r2 = r2 m1 = m1 m2 = m2 m3 = m3
  NoModel = NoModel
  Requests = {r1, r2}
  Models = {m1, m2, m3}
  Routers <- MCRouters
  Original <- MCOriginal
  AllowedSets <- MCAllowedSets
  ChainTo <- MCChainTo
  ProviderOf <- MCProviderOf
  MaxDepth = 5
  MaxFaults = 1
  MinCalls = 1
  RatePct = 50
  OpenBefore <- MCOpenBefore
INVARIANTS  ChargedModelAnswered
PROPERTIES  Answered
CHECK_DEADLOCK FALSE
