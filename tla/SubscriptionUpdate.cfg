SPECIFICATION FairSpec
CONSTANTS
  Order <- MCOrder
  Identity <- MCIdentity
  MassSize = 2
  NoResult = NoResult
INVARIANTS
  TypeOK
  ResultsFollowConnection
PROPERTIES
  MassConfirmed
  Settles
