SPECIFICATION FairSpec
CONSTANTS
  Actions = {"configure", "validate", "activate"}
  NoRequest = NoRequest
  MaxCrashes = 2
INVARIANTS
  TypeOK
PROPERTIES
  RequestsServed
