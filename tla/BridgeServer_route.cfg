SPECIFICATION Spec
CONSTANTS
  c1 = c1
  c2 = c2
  r1 = r1
  r2 = r2
  d1 = d1
  s1 = s1
  x1 = x1
  AnyId = AnyId
  None = None
  ClientConns = {c1, c2}
  RequestConns = {r1, r2}
  DataConns = {}
  Sessions = {s1}
  Contexts = {x1}
  SessionOf <- MCSessionOf
  ContextOf <- MCContextOf
  Able = {c1, c2}
  Want <- MCWant
  Leavers = {c1, c2}
  Mute = {c1}
  Events = {}
SYMMETRY RequesterSymmetry
CHECK_DEADLOCK FALSE
PROPERTY OnlyDeadClientsLeave
INVARIANT TypeOK
INVARIANT OwnReply
INVARIANT NoSecondAttempt
