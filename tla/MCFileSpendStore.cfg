CONSTANTS
  Calls = {c1, c2, c3}
  Nobody = Nobody
  MaxFaults = 2
  MaxSuspensions = 2
  Prompt = TRUE
SPECIFICATION Spec
INVARIANTS LockNotLeftBehind
PROPERTIES UpdatesAreAtomic
SYMMETRY MCSymmetry
CHECK_DEADLOCK FALSE
