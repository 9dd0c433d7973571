CONSTANTS
  Txn = {t1, t2}
  MaxRequests = 2
  MaxForeign = 1
  MaxCrashes = 1
SPECIFICATION FairSpec
INVARIANTS
  TypeOK
  AuditMatchesRows
  OnlyCommittedIsPublished
PROPERTIES
  RestartKeepsState
  HaltEndsByOperator
  ImplementsTable
  GraceEnds
  BreakerHalts
