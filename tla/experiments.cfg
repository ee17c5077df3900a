SPECIFICATION Spec
SYMMETRY AnySource
CONSTANTS
  None = None
  A = A
  B = B
  explore = explore
  review = review
  reviewB = reviewB
  AgentRuns = {explore, review, reviewB}
  Agents = {A, B}
  AgentOf <- MCAgentOf
  PhaseOf <- MCPhaseOf
  RestartAfter = 1
  NReports = 2
  Sources = {one, other}
  DeniedReport = 1
  MaxModelCalls = 6
  RunsFitLeases = FALSE
  CapabilitiesFitLeases = TRUE
  MaxRunClaims = 2
  MaxCapabilityClaims = 3
  MaxAttempts = 2
  MaxFaults = 1
INVARIANTS
  BooksAgree
  NobodyIsBusy
  AcceptedIsVerified
  BudgetHolds
  AssertionsHold
