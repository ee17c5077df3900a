SPECIFICATION FairSpec
CONSTANTS
  None = None
  r1 = r1
  g1 = g1
  g2 = g2
  a1 = a1
  a2 = a2
  b1 = b1
  b2 = b2
  c1 = c1
  h1 = h1
  h2 = h2
  Runs = {r1}
  Goals = {g1}
  Actions = {a1}
  Bodies = {b1, b2}
  Handlers = {h1, h2}
  ClientEvents <- CoreClientEvents
  Decisions <- CoreDecisions
  MaxEventAttempts = 2
  MaxActionAttempts = 2
  EventLease = 2
  ActionLease = 2
  RetryBase = 1
  RetryMax = 1
  CheckpointsThrow = FALSE
  LeasesOutlastWork = TRUE
  MaxClaims = 4
  MaxCrashes = 1
PROPERTIES
  EventsSettle
  ActionsSettle
CHECK_DEADLOCK FALSE
