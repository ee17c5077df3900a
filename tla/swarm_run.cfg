SPECIFICATION Spec
CONSTANTS
  None = None
  Seed = 0
  Agents = {1, 2}
  Neighbours <- MCNeighbours
  Generations = 2
  CreditsPerCell = 5
  Drafts = {1, 2}
  ScoreOf <- MCScoreOf
  MaxModelTurns = 2
  MaxToolCalls = 1
  Modes = {"live", "mock"}
  Rechecks = 2
  BlockSize = 2
  MaxFaults = 1
INVARIANTS
  NobodyWaitsInVain
  AssertionsHold
  FrozenNeighbourhood
  CreditsAreSpentOnce
  ValidMeansComplete
PROPERTY
  RunEnds
CHECK_DEADLOCK FALSE
