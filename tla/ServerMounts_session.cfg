SPECIFICATION FairSpec
CONSTANTS
  k1 = k1
  k2 = k2
  r1 = r1
  m1 = m1
  m2 = m2
  None = None
  Calls = {k1, k2, r1}
  Creates = {k1, k2}
  Releases = {r1}
  MountIds = {m1, m2}
  MountOf <- MCMountOf
  MaxInFlight = 1
  Impatient = {k1, r1}
  Faults = {"close", "busy"}
INVARIANT MountHasOwner
INVARIANT MountIsMarked
PROPERTY UnmountMeansGone
PROPERTY RequestEnds
PROPERTY UnwantedMountGoes
CHECK_DEADLOCK FALSE
