SPECIFICATION MCSpec
CONSTANTS
  r1 = r1
  r2 = r2
  r3 = r3
  r4 = r4
  alice = alice
  bob = bob
  team = team
  app = app
  c1 = c1
  c2 = c2
  c3 = c3
  Requests = {r1, r2, r3, r4}
  Scopes = {alice, bob, team, app}
  Apps = {app}
  ScopesOf <- MCScopesOf
  Limit <- MCLimit
  Policy <- MCPolicy
  Cost <- MCCost
  SoftPct = 150
  Width = 2
  Retries = 1
  MaxLosses = 1
  MaxFaults = 1
  FailThreshold = 3
  SuccessThreshold = 2
  Evals = {c1, c2, c3}
  CallerOf <- MCCallerOf
  WindowLimit <- MCWindowLimit
  FailsToOpen = 2
  SuccessesToClose = 2
  OpenTime = 1
  MaxCancels = 1
  SeededApps = {a1, a2}
  Amounts = {0, 2}
  MaxItems = 3
  MaxSpends = 2
  MaxMishaps = 1
INVARIANTS  NeverAhead  NoisyUserIsContained CounterMatchesRows
PROPERTIES LevelFollowsHealth BreakerRecovers
CHECK_DEADLOCK FALSE
