SPECIFICATION Spec
CONSTANTS
  Devices = {d1}
  Emails = {e1, e2}
  Docs = {k1, k2}
  Key <- MCKey
  Names = {n1, n2}
  Slots = {s1, s2}
  Taps = {t1}
  MaxAttempts = 2
  MaxOutbox = 2
  None = None
SYMMETRY Symmetry
CHECK_DEADLOCK FALSE
INVARIANTS
  TypeOK
  NameReachedFirst
PROPERTIES
  SignInAnswered
