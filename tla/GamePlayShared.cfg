SPECIFICATION Spec
CONSTANTS
  MaxDay = 1
  Texts <- MCShort
  Empty = ""
  BlankTexts <- MCBlankTexts
  Cleaned <- MCCleaned
  CorrectAnswer <- MCCorrectAnswer
  None = None
  Devices = {d1}
  Players = {p1, p2}
  LoginSlots = {l1, l2}
  LoadSlots = {o1}
  SubmitSlots = {s1}
  Buttons = {"signIn"}
  MaxSignIns = 2
  MaxOpens = 2
  MaxTaps = 1
  MayCrash = FALSE
  MaxOutbox = 1
SYMMETRY Symmetry
CONSTRAINT SignOutWorks
CHECK_DEADLOCK FALSE
INVARIANTS
  AnswerBeforeStreak
  StreakEarned
