SYMMETRY MCSymmetry
SPECIFICATION Spec
CONSTANTS
  Keys = {k1, k2}
  Teams = {t1, t2}
  Policies = {narrow}
  Sessions = {s1, s2}
  Requests = {g1}
  NoKey = NoKey
  NoTeam = NoTeam
  NoCtx = NoCtx
  Anything = Anything
  Issued = {k1}
  MaxOperations = 2
  MaxFaults = 1
INVARIANTS  GoneAreRefused
CHECK_DEADLOCK FALSE
