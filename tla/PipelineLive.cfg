CONSTANTS
  Users = {A, B}
  Docs = {"streak", "response"}
  MaxWrites = 2
  Target <- MCTarget
  MaxPendingWrites = 1
  MaxFaults = 2
  None = None
SPECIFICATION FairSpec
PROPERTY QueueDrains
CHECK_DEADLOCK FALSE
