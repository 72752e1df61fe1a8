SPECIFICATION FairSpec
CONSTANTS
  Clients = {c1, d1, d2}
  Diagnostics = {d1, d2}
  Limits = {0, 1, 2, 20}
INVARIANTS
  TypeOK
  Accounting
  WithinLimit
  CapacityLeft
PROPERTIES
  AcquireReturns
