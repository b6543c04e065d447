SPECIFICATION Spec
CONSTANTS
  Users = {ana, budi}
  None = none
  MaxEdits = 2
  MaxMounts = 2
  MaxNet = 2
  MaxFaults = 2
SYMMETRY Symmetry
INVARIANTS TypeOK OnlyOwnWidgets NothingForgotten
CHECK_DEADLOCK FALSE
