\* Queues of one piece; messages of one and of two.
CONSTANTS
  NumWorkers = 2
  Capacity = 1
  Lens = {1}
  Asks <- SomeAsks
  MaxInvocs = 2
  MaxUpdates = 2
  MaxCalls = 2
  Procs = {p1}
  Self = p0
  None = None
  Env = {"missing", "crash"}
SPECIFICATION FairSpec
INVARIANTS
  OnlyUpdatesDisturb
  ViewsAgree
PROPERTIES
  ChannelsArePipes
  WorkersComeBack
CHECK_DEADLOCK FALSE
