CONSTANTS
  Approval = {a1, a2}
  Flow = {f1, f2}
  MaxRequests = 2
  MaxFaults = 1
  MaxCrashes = 1
SPECIFICATION FairSpec
INVARIANTS
  OneCallPerApproval
PROPERTIES
  OrderOnlyForPending
  DueIsResolved
  RequestsEnd
