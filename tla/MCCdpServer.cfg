SPECIFICATION Spec
CONSTANTS
  c1 = c1
  c2 = c2
  c3 = c3
  Clients = {c1, c2, c3}
  Nobody = Nobody
  Heads = {"partial", "http", "ws"}
  MaxConnections = 1
  HandoffCap = 1
  MaxPending = 2
  PromptThreads = FALSE
SYMMETRY Symmetric
INVARIANTS TypeOK SlotsExact HeldOnce QueuesBounded DrainedMeansMerged
CHECK_DEADLOCK FALSE
