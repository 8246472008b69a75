\* A process and three requests, containers that end, a daemon that fails, or cannot be reached.
CONSTANTS
  Names = {n1}
  Requests = {r1, r2, r3}
  Env = {"ends", "fails", "unreachable"}
SPECIFICATION FairSpec
INVARIANTS
  TableExact
  FaultsExplained
  ShutdownKillsAll
PROPERTIES
  EveryRequestAnswered
CHECK_DEADLOCK FALSE
