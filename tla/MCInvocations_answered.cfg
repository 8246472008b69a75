\* Requests that come when no process is being allocated, and containers that end.
CONSTANTS
  Reqs = {r1, r2, r3}
  Procs = {p1, p2, p3}
  None = None
  Env = {"crash"}
SPECIFICATION FairSpec
PROPERTIES
  EveryInvocationAnswered
CHECK_DEADLOCK FALSE
