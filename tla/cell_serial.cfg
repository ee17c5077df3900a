SPECIFICATION Spec
CONSTANTS
  None = None
  r1 = r1
  g1 = g1
  g2 = g2
  a1 = a1
  a2 = a2
  b1 = b1
  b2 = b2
  c1 = c1
  h1 = h1
  h2 = h2
  Runs = {r1}
  Goals = {g1}
  Actions = {a1}
  Bodies = {b1, b2}
  Handlers = {h1}
  ClientEvents <- SerialClientEvents
  Decisions <- SerialDecisions
  MaxEventAttempts = 2
  MaxActionAttempts = 2
  EventLease = 1
  ActionLease = 1
  RetryBase = 1
  RetryMax = 1
  CheckpointsThrow = TRUE
  LeasesOutlastWork = FALSE
  MaxClaims = 2
  MaxCrashes = 1
INVARIANTS
  ReceiptHasOutcomeEvent
  RunHasItsRequest
CHECK_DEADLOCK FALSE
