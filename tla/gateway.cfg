SPECIFICATION Spec
CONSTANTS
  Requests = {r1, r2}
  Clients = {c1}
  Servers = {p1}
  Kinds = {"api", "auth"}
  LimitOf <- SmallLimits
  WindowOf <- SmallWindows
  CacheTtl = 1
  Latency = 1
  Epoch = 2
  MaxTime = 6
SYMMETRY Interchangeable
INVARIANT TypeOK
PROPERTIES
  ImplementsWindow
  MaintenanceEffective
  MaintenanceLifted
