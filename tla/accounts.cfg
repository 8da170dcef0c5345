SPECIFICATION Spec
CONSTANTS
  Requests = {r1, r2}
  Versions = {v1, v2}
  Null = Null
SYMMETRY Interchangeable
INVARIANTS
  TypeOK
  ErasureComplete
  ConsentBacked
  ApprovedApplied
PROPERTY StatusRespected
