\* Two processes, two clients, connections that fail and end.
CONSTANTS
  Peers = {q1, q2}
  Clients = {u1, u2}
  MaxMsgs = 2
  Calls = {c1}
  MaxIncoming = 2
  None = None
  Env = {"unreachable", "closed"}
SPECIFICATION FairSpec
INVARIANTS
  KeptOrSent
  OrderKept
  ResultToCaller
PROPERTIES
  EveryMessageSent
CHECK_DEADLOCK FALSE
