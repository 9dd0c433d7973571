CONSTANTS
  MaxAttempt = 2
  MaxRefusals = 3
SPECIFICATION FairSpec
INVARIANTS
  RefusalsWaitLonger
PROPERTIES
  EndFindsSilence
CHECK_DEADLOCK FALSE
