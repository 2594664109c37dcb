SPECIFICATION Spec
CONSTANTS
  l1 = l1
  l2 = l2
  l3 = l3
  l4 = l4
  k1 = k1
  k2 = k2
  k3 = k3
  h1 = h1
  NoConn = NoConn
  Conns = {c1, c2, c3}
  Leases <- ThreeTargets
  LeaseKey <- ThreeTargetsKey
  Keys = {k1, k2, k3}
  Hosts = {h1}
  Host <- MCHost
  PoolSize = 2
  Grace = TRUE
  Prompt = TRUE
  Kinds = {"open"}
  MaxRecs = 3
  MaxFwds = 1
  MaxOpens <- OnlyOnce
CHECK_DEADLOCK FALSE
INVARIANT OwnAddress
