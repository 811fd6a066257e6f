SPECIFICATION Spec
CONSTANTS
  Devices = {d1}
  Names = {n1}
  Slots = {s1, s2}
  MaxDay = 1
  MaxTaps = 2
  None = None
CHECK_DEADLOCK FALSE
INVARIANT SecondReviewRefused
