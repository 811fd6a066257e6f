CONSTANTS
  Users = {A, B}
  Docs = {"streak", "response"}
  MaxWrites = 3
  Target <- MCTarget
  MaxPendingWrites = 2
  MaxFaults = 3
  None = None
SPECIFICATION Spec
INVARIANTS TypeOK AnswersInStep SentAsOwner HardAsserts CallbacksMatch LastAckedKept
PROPERTY KeepsPromise
CHECK_DEADLOCK FALSE
SYMMETRY Symmetry
VIEW View
