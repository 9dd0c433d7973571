CONSTANTS
  Key = {k1}
  Body = {b1}
  Flow = {f1}
  Qty = 1
  DriftLimit = 0
  MaxRequests = 1
  MaxFaults = 1
  MaxCrashes = 1
SPECIFICATION FairSpec
PROPERTIES
  OutcomeIsRecorded
  NothingStaysPending
