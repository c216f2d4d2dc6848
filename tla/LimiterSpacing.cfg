\* How far apart overlapping Checks are admitted when nothing is ever late.
SPECIFICATION MCSpec
CONSTANTS
  Slot = {s1, s2}
  Interval = 6
  Grace = 2
  Prompt = TRUE
  MaxTime = 10
SYMMETRY SlotSymmetry
PROPERTY AdmissionSpacing
CHECK_DEADLOCK FALSE
