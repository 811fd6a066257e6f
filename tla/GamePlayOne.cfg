SPECIFICATION Spec
CONSTANTS
  MaxDay = 2
  Texts <- MCShort
  Empty = ""
  BlankTexts <- MCBlankTexts
  Cleaned <- MCCleaned
  CorrectAnswer <- MCNoSecondQuestion
  None = None
  Devices = {d1}
  Players = {p1}
  LoginSlots = {l1}
  LoadSlots = {o1}
  SubmitSlots = {s1, s2}
  Buttons = {"signIn"}
  MaxSignIns = 1
  MaxOpens = 2
  MaxTaps = 2
  MayCrash = TRUE
  MaxOutbox = 2
SYMMETRY Symmetry
CHECK_DEADLOCK FALSE
INVARIANTS
  TypeOK
  GradedAndFiled
  AnswerBeforeStreak
  QuestionOfLastSeenDay
PROPERTY
  ImplementsBook
