SPECIFICATION Spec
CONSTANTS
  Keys = {k1, k2, k3}
  Revs = {r1, r2}
  NoKey = NoKey
  NoRev = NoRev
  TheServer = TheServer
  ServerOf <- OneServer
  DetachAfterPolls = 4
  Samples = {1, 2}
  MaxCopies = 2
  MaxEntries = 2
SYMMETRY PoolSymmetry
INVARIANTS
  TypeOK
  PoolIsRecent
PROPERTIES
  ChangeConfirmed
  DetachedWithCause
