CONSTANTS
  Calls = {c1, c2, c3}
  Nobody = Nobody
  MaxFaults = 2
  MaxSuspensions = 2
  Prompt = FALSE
SPECIFICATION Spec
PROPERTIES UpdatesAreAtomic
SYMMETRY MCSymmetry
CHECK_DEADLOCK FALSE
