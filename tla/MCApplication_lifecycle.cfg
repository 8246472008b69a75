\* Processes that crash, a backend that works: three objects, two names.
CONSTANTS
  Procs = {p1, p2, p3}
  Names = {n1, n2}
  NoProc = NoProc
  Env = {"crash"}
SPECIFICATION Spec
SYMMETRY Symmetry
INVARIANTS
  ActiveIsUsable
  LiveIsActive
  NoFault
  CountersExact
PROPERTIES
  ClosedRemovesItself
CHECK_DEADLOCK FALSE
