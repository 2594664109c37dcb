SPECIFICATION Spec
CONSTANTS
  Calls = {c1, c2, c3, c4}
  Ports = {p1}
  Hosts = {h1, h2}
  Masters = {m1, m2}
  Local = Local
  None = None
  Ops = {"ensure", "remove", "stop", "die"}
SYMMETRY Symmetry
CHECK_DEADLOCK FALSE
INVARIANT NoOrphanForward
PROPERTY EnsureKeepsWinner
PROPERTY TableSpec
