SPECIFICATION Spec
CONSTANTS
  Users = {u1, u2}
  Sids = {s1, s2}
  Requests = {r1, r2}
  Handlers = {"csrfToken", "login", "revokeById", "bulkRevoke", "revokeAll"}
  Faults = {"crash"}
  MaxSessions = 1
  Anon = Anon
  Absent = Absent
  All = All
  Some = Some
SYMMETRY IdSymmetry
INVARIANTS
  TypeOK
  OwnershipInv
PROPERTIES
  SessionsLostByTarget
  ImplementsRegistry
