SYMMETRY MCSymmetry
SPECIFICATION Spec
CONSTANTS
  Helpers = {h1, h2}
  Users = {alice, bob}
  Nobody = Nobody
  None = None
  Torn = Torn
  Lives = {3}
  TokenLife = 2
  RenewMargin = 2
  MaxTime = 3
  MaxRuns = 2
  MaxCommands = 1
  MaxFaults = 1
INVARIANTS KeyOfAnotherHasCause 
CHECK_DEADLOCK FALSE
