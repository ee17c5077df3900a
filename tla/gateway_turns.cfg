SPECIFICATION Spec
SYMMETRY SlotSymmetry
CONSTANTS
  None = None
  o1 = o1
  o2 = o2
  MaxTurns = 3
  Slots = {o1, o2}
  MaxProviderAttempts = 2
  MaxCalls = 4
  MaxRetries = 2
  MaxCrashes = 2
INVARIANTS
  AnswersAreKept
  LegalTurnsAreServed
  CostIsAccounted
CHECK_DEADLOCK FALSE
