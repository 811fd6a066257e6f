SPECIFICATION Spec
CONSTANTS
  MaxDay = 1
  Texts <- MCTexts
  Empty = ""
  BlankTexts <- MCBlankTexts
  Cleaned <- MCCleaned
  CorrectAnswer <- MCCorrectAnswer
  None = None
  Devices = {d1}
  Players = {p1}
  LoginSlots = {l1}
  LoadSlots = {o1}
  SubmitSlots = {s1, s2}
  Buttons = {"signIn"}
  MaxSignIns = 1
  MaxOpens = 3
  MaxTaps = 2
  MayCrash = TRUE
  MaxOutbox = 2
SYMMETRY Symmetry
CHECK_DEADLOCK FALSE
INVARIANT StreakCountsDays
