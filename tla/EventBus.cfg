CONSTANTS
  Instances = {"one", "two"}
  Clients = {"page"}
  Home <- Pages
  Ingests = "one"
  Buffer = 1
  MaxChanges = 2
  MaxUpdates = 2
  MaxConnects = 1
  MaxFaults = 1
SPECIFICATION Spec
INVARIANTS
  QuietPageIsRight
PROPERTIES
  PromiseKept
CHECK_DEADLOCK FALSE
