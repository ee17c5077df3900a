SPECIFICATION Spec
CONSTANTS
  None = None
  Seed = Seed
  a1 = a1
  a2 = a2
  b1 = b1
  A = A
  B = B
  seed0 = seed0
  own1 = own1
  Actions = {a1, a2, b1}
  Evaluated <- MCEvaluated
  SeedClaim <- MCSeedClaim
  Payload <- MCPayload
  Expectations <- MCExpectations
  MaxFaults = 1
INVARIANTS
  AnswersAreKept
PROPERTIES
  KeepsContract
  Settles
CHECK_DEADLOCK FALSE
