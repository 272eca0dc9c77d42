SPECIFICATION MCSpec
CONSTANTS
  MaxIterations = 2
  MaxBlocks = 3
  SqlCalls = {c1, c2}
  Voted = {c1}
  KQuick = 3
  KDeep = 5
  MaxResults = 3
INVARIANTS Stitched EveryCallAnswered UsageReported VoteIsSound QuietAnswerHasCause
CHECK_DEADLOCK FALSE
