SPECIFICATION Spec
CONSTANTS
  c1 = c1
  Clients = {c1}
  Nobody = Nobody
  Heads = {"ws"}
  MaxConnections = 1
  HandoffCap = 1
  MaxPending = 1
  PromptThreads = TRUE
INVARIANTS DeadlineOnlyForWedged
CHECK_DEADLOCK FALSE
