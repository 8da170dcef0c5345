SPECIFICATION Spec
CONSTANTS
  Emails = {e1}
  Requests = {r1, r2}
  Tokens = {t1, t2}
  Secrets = {s1, s2}
  RowIds = {i1, i2}
  MaxRate = 1
  MaxTries = 1
  MaxFaults = 1
  None = None
  Blank = Blank
SYMMETRY Interchangeable
INVARIANTS
  TypeOK
  SecretProven
  
  RateBounded
  TriesBounded
PROPERTY SuccessMeansSecret
CHECK_DEADLOCK FALSE
