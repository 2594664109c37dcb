SPECIFICATION Spec
CONSTANTS
  i1 = i1
  i2 = i2
  None = None
  Installs = {i1, i2}
  Mortal = {i1, i2}
  MaxEdits = 1
INVARIANT NeverDangling
PROPERTY FailureRestores
SYMMETRY InstallSymmetry
CHECK_DEADLOCK FALSE
