SPECIFICATION Spec
CONSTANTS
  Requests = {r1, r2}
  Versions = {v1, v2}
  Null = Null
SYMMETRY Interchangeable
INVARIANT ErasureClearsEncrypted
