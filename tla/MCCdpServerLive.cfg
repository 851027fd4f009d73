SPECIFICATION FairSpec
CONSTANTS
  c1 = c1
  c2 = c2
  Clients = {c1, c2}
  Nobody = Nobody
  Heads = {"ws"}
  MaxConnections = 1
  HandoffCap = 1
  MaxPending = 1
  PromptThreads = FALSE
INVARIANTS SlotsExact DrainedMeansMerged
PROPERTIES ConnectionDecided SlotComesBack NextConnectionEndsShutdown
CHECK_DEADLOCK FALSE
