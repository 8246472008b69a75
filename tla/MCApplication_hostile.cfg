\* Every misbehaviour of containers and backend at once.
CONSTANTS
  Procs = {p1, p2}
  Names = {n1, n2}
  NoProc = NoProc
  Env = {"refused", "late", "crash", "closure"}
SPECIFICATION FairSpec
INVARIANTS
  Consistent
PROPERTIES
  OperationsFinish
CHECK_DEADLOCK FALSE
