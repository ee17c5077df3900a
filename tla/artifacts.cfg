SPECIFICATION Spec
CONSTANTS
  None = None
  c1 = c1
  c2 = c2
  r1 = r1
  e1 = e1
  x = x
  Checks = {c1, c2}
  Seeds = {c1}
  Reads = {r1}
  Evaluations = {e1}
  SourceOf <- MCSourceOf
  Verdicts = {0, 1}
  MaxFaults = 1
INVARIANTS
  AnswersAgree
  RegistryIsBacked
PROPERTIES
  AnsweredCandidatesExist
  Settles
CHECK_DEADLOCK FALSE
