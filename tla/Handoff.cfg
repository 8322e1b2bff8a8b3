SPECIFICATION Spec
SYMMETRY Symmetry
CONSTANTS
  None = None
  i1 = i1
  i2 = i2
  i3 = i3
  Instances <- Three
  Archived = {1}
  MaxParked = 1
  MaxWritten = 2
  MayFail = FALSE
INVARIANTS
  NewestInBox
PROPERTIES
  NothingVanishes
CHECK_DEADLOCK FALSE
