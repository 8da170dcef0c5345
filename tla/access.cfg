SPECIFICATION Spec
CONSTANTS
  Users = {u1}
  Sids = {s1}
  Requests = {r1, r2}
  Kinds = {"queues", "stepUp", "meSensitive", "adminSensitive"}
  Roles = {"USER", "ADMIN"}
  Statuses = {"VERIFIED", "BLOCKED", "DELETED"}
  NoSession = NoSession
  VerifyInterval = 1
  AbsoluteTtl = 2
  StepUpWindow = 1
  Latency = 1
  Epoch = 2
  MaxTime = 6
SYMMETRY Interchangeable
VIEW Distinguished
INVARIANTS
  TypeOK
  BlockedExposureBounded
  DemotedExposureBounded
  LifetimeBounded
  StepUpFresh
