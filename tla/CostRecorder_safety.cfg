\* Four requests over a spool of two: the spool overflows while a drain holds
\* the head, and the process may end at any step.
SPECIFICATION RecorderSpec
CONSTANTS
  Requests = {r1, r2, r3, r4}
  Names = {n1}
  StreamMax = 10
  SpoolMax = 2
  Retries = 0
  MaxFaults = 5
  MaxExits = 1
SYMMETRY Symmetry
PROPERTY ImplementsDLQ
CHECK_DEADLOCK FALSE
