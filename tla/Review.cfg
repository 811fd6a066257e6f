SPECIFICATION FairSpec
CONSTANTS
  Devices = {d1, d2}
  Names = {n1}
  Slots = {s1, s2}
  MaxDay = 2
  MaxTaps = 2
  None = None
CHECK_DEADLOCK FALSE
INVARIANTS
  TypeOK
  ConfirmedOnFile
PROPERTIES
  SubmissionAnswered
