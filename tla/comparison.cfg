SPECIFICATION Spec
SYMMETRY Upgrades
CONSTANTS
  None = None
  A = A
  B = B
  e1 = e1
  e2 = e2
  Comparisons = {A, B}
  Environments = {e1, e2}
  Trials <- MCTrials
  Targets <- MCTargets
  Usual <- MCUsual
  MaxAttempts <- MCAttempts
  MinComparable = 1
  Band = 5
  Alpha = 30
  MaxFaults = 1
INVARIANTS
  PairsAreOwn
  ControlsStayFrozen
  
CHECK_DEADLOCK FALSE
