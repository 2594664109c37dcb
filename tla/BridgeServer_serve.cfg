SPECIFICATION FairSpec
CONSTANTS
  c1 = c1
  c2 = c2
  r1 = r1
  r2 = r2
  d1 = d1
  s1 = s1
  x1 = x1
  AnyId = AnyId
  None = None
  ClientConns = {c1}
  RequestConns = {r1}
  DataConns = {d1}
  Sessions = {s1}
  Contexts = {x1}
  SessionOf <- MCSessionOf
  ContextOf <- MCContextOf
  Able = {c1}
  Want <- MCWant
  Leavers = {c1, r1, d1}
  Mute = {c1}
  Events = {"time", "signal"}
CHECK_DEADLOCK FALSE
INVARIANT DrainedIsIdle
PROPERTY AbandonedServerExits
PROPERTY ShutdownEnds
PROPERTY RequesterEnds
