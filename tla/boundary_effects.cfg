SPECIFICATION Spec
SYMMETRY Interchangeable
CONSTANTS
  None = None
  n1 = n1
  n2 = n2
  h1 = h1
  h2 = h2
  Nodes = {n1, n2}
  Handlers = {h1, h2}
  Safeties = {"idempotent", "reconcilable", "unsafe"}
  MaxAttempts = 1
  OrphansDrop = FALSE
  DualOwners = TRUE
  MaxExpiries = 1
  MaxRestores = 2
INVARIANTS
  ReceiptHasEffect
  UnsafeRepeatsLostMarker
CHECK_DEADLOCK FALSE
