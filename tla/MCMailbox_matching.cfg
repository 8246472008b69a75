\* Names for messages, state and invocations that do not collide.
CONSTANTS
  MsgNames = {k1, k2}
  StateNames = {s1, s2}
  InvIds = {i1}
  Sources = {self, peer}
  Workers = {w1, w2, w3}
  Payloads = {m1, m2, m3}
  AnyProcess = AnyProcess
  Local = Local
  None = None
SPECIFICATION MailboxSpec
SYMMETRY Symmetry
INVARIANTS
  Exact
PROPERTIES
  GetReleasedByPut
CHECK_DEADLOCK FALSE
