SPECIFICATION Spec
CONSTANTS
  Users = {ana, budi}
  None = none
  MaxEdits = 2
  MaxMounts = 3
  MaxNet = 2
  MaxFaults = 0
SYMMETRY Symmetry
INVARIANTS NeverCarriedOver
CHECK_DEADLOCK FALSE
