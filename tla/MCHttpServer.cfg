CONSTANTS
  c1 = c1
  c2 = c2
  c3 = c3
  Clients = {c1, c2, c3}
  MaxConnections = 2
  IdleTimeout = 2
  RequestTimeout = 2
SPECIFICATION Spec
SYMMETRY AnyClient
INVARIANTS TableMatchesSockets SweepIsThorough SlotsComeBack ShutdownInTime
