SPECIFICATION Spec
CONSTANTS
  Nodes = {n1}
  Addrs = {"a", "b"}
  a1 = a1
  a2 = a2
  b1 = b1
  Revs = {a1, a2, b1}
  AddrOf <- MCAddrOf
  IPs = {"x", "y"}
  LiteralIPs <- MCLiteralIPs
  NoAddr = NoAddr
  NoIPs = NoIPs
  Absent = Absent
  NoResult = NoResult
  NoNode = NoNode
  NoOne = NoOne
  Past = 1
  Saved <- MCSaved
  MaxClock = 4
SYMMETRY EditSymmetry
INVARIANTS
  FixedFollowsChange
