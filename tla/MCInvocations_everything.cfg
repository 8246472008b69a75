\* Everything at once: requests that overlap, races, failures and crashes.
CONSTANTS
  Reqs = {r1, r2, r3}
  Procs = {p1, p2}
  None = None
  Env = {"overlap", "simultaneous", "early", "refused", "late", "crash"}
SPECIFICATION Spec
SYMMETRY Symmetry
INVARIANTS
  KeptOrAnswered
  CountExact
  NoneLeftBehind
  SentOnce
CHECK_DEADLOCK FALSE
