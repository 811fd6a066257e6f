SPECIFICATION FairSpec
CONSTANTS
  MaxDay = 2
  Texts = {"Paris", ""}
  Empty = ""
  BlankTexts = {""}
  Cleaned <- MCCleaned
  CorrectAnswer <- MCCorrectAnswer
  None = None
  Players = {p1, p2}
  Calls = {c1}
  UnknownDay = 0
  MaxStored = 2
  MaxFiled = 1
CHECK_DEADLOCK FALSE
INVARIANTS
  TypeOK
  MostCorrectEmpty
  StreakBoardListed
  AnsweredRecorded
PROPERTY
  LoadingStops
