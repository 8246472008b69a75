\* Three requests about a process, on both backends.
CONSTANTS
  Requests = {r1, r2, r3}
  MaxCreates = 1
  Names = {n1}
  Backends = {"docker", "fargate"}
  None = None
  Env = {"fails", "crash"}
SPECIFICATION FairSpec
INVARIANTS
  AnsweredOnce
  ProcessHasAddress
PROPERTIES
  ListExact
  EveryRequestAnswered
CHECK_DEADLOCK FALSE
