SPECIFICATION FairSpec
CONSTANTS
  None = None
  n1 = n1
  n2 = n2
  h1 = h1
  h2 = h2
  Nodes = {n1, n2}
  Handlers = {h1, h2}
  Safeties = {"idempotent", "reconcilable", "unsafe"}
  MaxAttempts = 2
  OrphansDrop = TRUE
  DualOwners = FALSE
  MaxExpiries = 0
  MaxRestores = 2
PROPERTIES
  Converges
  NoRedispatchAfterAcceptance
CHECK_DEADLOCK FALSE
