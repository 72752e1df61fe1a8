SPECIFICATION FairSpec
CONSTANTS
  n1 = n1
  c1 = c1
  c2 = c2
  Nodes = {n1}
  States = {"critical", "healthy", "unclear"}
  Recipients = {c1, c2}
  Requests <- MCRequests
  Environments = {Unmanaged, c2}
  NoRecipient = NoRecipient
  NoScan = NoScan
  NoFlight = NoFlight
  Unmanaged = Unmanaged
  MaxPending = 2
  MaxSaves = 1
  MaxCrashes = 1
INVARIANTS
  TypeOK
  OwnAlertsOnly
  AgreesAtRest
PROPERTIES
  Informed
