SPECIFICATION Spec
CONSTANTS
  Users = {u1}
  Sids = {s1, s2}
  Requests = {r1, r2}
  Handlers = {"login", "visit", "logout", "list", "revokeOthers", "revokeAll"}
  Faults = {"throw", "crash", "expiry"}
  MaxSessions = 1
  Anon = Anon
  Absent = Absent
  All = All
  Some = Some
SYMMETRY IdSymmetry
INVARIANTS
  RevokeAllSweeps
  RevokeOthersSweeps
  LoginKeepsLimit
  OverviewComplete
