SPECIFICATION Spec
CONSTANTS
  l1 = l1
  l2 = l2
  l3 = l3
  l4 = l4
  k1 = k1
  k2 = k2
  k3 = k3
  h1 = h1
  NoConn = NoConn
  Conns = {c1, c2}
  Leases <- TwoTargets
  LeaseKey <- TwoTargetsKey
  Keys = {k1, k2}
  Hosts = {h1}
  Host <- MCHost
  PoolSize = 1
  Grace = FALSE
  Prompt = FALSE
  Kinds = {"open", "ensure", "remove", "shutdown"}
  MaxRecs = 3
  MaxFwds = 2
  MaxOpens <- BothComeBack
SYMMETRY ConnSymmetry
CHECK_DEADLOCK FALSE
INVARIANT ResolverAgrees
