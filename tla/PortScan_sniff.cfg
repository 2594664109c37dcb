SPECIFICATION FairSpec
CONSTANTS
  Ports = {p1, p2}
  Clients = {c1, c2}
  portGoneMissingScans = 2
INVARIANT TypeOK
INVARIANT NoMissedPort
INVARIANT OnlyReplayIsStale
PROPERTY GoneIsDebounced
PROPERTY ListenerIsForwarded
PROPERTY ClosedIsDropped
