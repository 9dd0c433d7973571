CONSTANTS
  Txn = {t1, t2}
  MaxRequests = 4
  MaxForeign = 0
  MaxCrashes = 0
SPECIFICATION Spec
SYMMETRY Symmetry
INVARIANTS
  ScheduledHaltIsDue
