CONSTANTS
  Approval = {a1}
  Flow = {f1, f2}
  MaxRequests = 2
  MaxFaults = 0
  MaxCrashes = 0
SPECIFICATION Spec
PROPERTIES
  RejectedIsNeverSent
