\* Two connections, streams that are cut anywhere, both servers.
CONSTANTS
  Conns = {c1, c2}
  m1 = m1
  m2 = m2
  m3 = m3
  Msgs = {m1, m2, m3}
  Size <- Sizes
  Register = Register
  None = None
SPECIFICATION FairSpec
INVARIANTS
  NothingLeft
PROPERTIES
  FramesAreMessages
  EverythingHandedOn
CHECK_DEADLOCK FALSE
