SPECIFICATION Spec
CONSTANTS
  Devices = {d1}
  Emails = {e1}
  Docs = {k1}
  Key <- MCKey
  Names = {n1}
  Slots = {s1}
  Taps = {t1}
  MaxAttempts = 1
  MaxOutbox = 2
  None = None
SYMMETRY Symmetry
CHECK_DEADLOCK FALSE
INVARIANT UsernameKept
