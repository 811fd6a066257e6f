SPECIFICATION SpecTold
CONSTANTS
  MaxDay = 1
  Texts <- MCTexts
  Empty = ""
  BlankTexts <- MCBlankTexts
  Cleaned <- MCCleaned
  CorrectAnswer <- MCCorrectAnswer
  None = None
  Devices = {d1}
  Players = {p1}
  LoginSlots = {l1}
  LoadSlots = {o1}
  SubmitSlots = {s1}
  Buttons = {"signIn"}
  MaxSignIns = 1
  MaxOpens = 2
  MaxTaps = 1
  MayCrash = TRUE
  MaxOutbox = 2
SYMMETRY Symmetry
CHECK_DEADLOCK FALSE
INVARIANT NotAskedAgain
