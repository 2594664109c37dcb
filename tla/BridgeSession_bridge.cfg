SPECIFICATION FairSpec
CONSTANTS
  p1 = p1
  p2 = p2
  None = None
  Procs = {p1, p2}
  Killed = {p2}
  Lossy = {p1}
  Jammed = {p1}
  Faults = {"io"}
  Modes <- MCModes
INVARIANT EnhancedOrPlain
INVARIANT DirectoryIsHeld
PROPERTY LostSessionEnds
PROPERTY LeftoversGo
CHECK_DEADLOCK FALSE
