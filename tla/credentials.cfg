SPECIFICATION Spec
CONSTANTS
  Requests = {r1, r2}
  Passkeys = {p1, p2}
  Secrets = {s1, s2}
  Tolerance = 1
  ReplayTtl = 3
  Shown = {1}
  MaxCounter = 1
  MaxTime = 3
  None = None
  NoRow = NoRow
SYMMETRY Interchangeable
INVARIANTS
  TypeOK
  ReplayRefused
  RotationProven
PROPERTIES
  MethodRemains
  CounterLoweredOnlyByOverlap
  ResetAllOrNothing
CHECK_DEADLOCK FALSE
