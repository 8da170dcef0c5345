SPECIFICATION Spec
CONSTANTS
  Emails = {e1, e2}
  Requests = {r1}
  Tokens = {t1, t2, t3}
  Secrets = {s1, s2}
  RowIds = {i1, i2}
  MaxRate = 1
  MaxTries = 1
  MaxFaults = 0
  None = None
  Blank = Blank
SYMMETRY Interchangeable
PROPERTY LinkCreates
CHECK_DEADLOCK FALSE
