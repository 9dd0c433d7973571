CONSTANTS
  Requests = {r1, r2}
  Tokens = {t1, t2}
  Values = {v1, v2}
  MaxRows = 3
  MaxEntries = 1
  Minimum = 1
  Maximum = 3
  Step = 2
  Default = 1
  Folds = 2
  Scores <- Signed
SPECIFICATION ConsentSpec
SYMMETRY Symmetry
INVARIANTS
  LiveIsConfirmed
  ConfirmedOnce
  ProposalIsProven
CHECK_DEADLOCK FALSE
