CONSTANTS
  Workers = {w1, w2}
  External = {"email"}
  MaxAttempts = 2
  MaxFaults = 2
  None = None
CHECK_DEADLOCK FALSE
SPECIFICATION Spec
SYMMETRY Symmetry
INVARIANTS
  SkippedIsUnsent
