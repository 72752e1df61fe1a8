SPECIFICATION Spec
CONSTANTS
  Keys = {k1, k2, k3}
  Revs = {r1, r2}
  NoKey = NoKey
  NoRev = NoRev
  TheServer = TheServer
  ServerOf <- OneServer
  DetachAfterPolls = 3
  Samples = {2}
  MaxCopies = 1
  MaxEntries = 2
SYMMETRY PoolSymmetry
PROPERTY
  ReplacedInTwoPolls
