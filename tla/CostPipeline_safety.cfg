SPECIFICATION FairPipelineSpec
CONSTANTS
  w1 = w1 n1 = n1
  Requests = {r1, r2}
  Workers = {w1}
  NameOf <- OneWorker
  Names = {n1}
  SpareNames = {}
  Rejected = {}
  Orphans = {r1}
  StreamMax = 1
  BatchMax = 2
  SpoolMax = 1
  Retries = 0
  MaxFaults = 1
  MaxExits = 1
  MaxStops = 0
  MaxDbFaults = 1
  MaxCopies = 0
INVARIANTS AckedIsSettled 
PROPERTIES ImplementsLedger 
CHECK_DEADLOCK FALSE
