SPECIFICATION ChatSpec
CONSTANTS
  MaxQuestions = 2
  MaxCalls = 2
  MaxSteps = 3
  MaxFaults = 1
INVARIANTS  CardsPaired
CHECK_DEADLOCK FALSE
