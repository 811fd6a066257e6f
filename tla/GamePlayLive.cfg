SPECIFICATION FairSpec
CONSTANTS
  MaxDay = 2
  Texts <- MCShort
  Empty = ""
  BlankTexts <- MCBlankTexts
  Cleaned <- MCCleaned
  CorrectAnswer <- MCCorrectAnswer
  None = None
  Devices = {d1}
  Players = {p1}
  LoginSlots = {l1}
  LoadSlots = {o1, o2}
  SubmitSlots = {s1}
  Buttons = {"google"}
  MaxSignIns = 1
  MaxOpens = 2
  MaxTaps = 1
  MayCrash = FALSE
  MaxOutbox = 2
CHECK_DEADLOCK FALSE
PROPERTIES
  SpinnerStops
  SpinnerOwned
