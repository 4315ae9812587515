SPECIFICATION Spec
CONSTANTS
  w1 = w1
  c1 = c1
  c2 = c2
  Workers = {w1}
  Conns = {c1, c2}
  Owner <- Reconnects
  Jobs = 2
  Limits = {1, 2}
  ConfigLimit = 2
  MaxControl = 1
  NoConn = NoConn
  Elsewhere = Elsewhere
INVARIANTS
  TypeOK
  LimitAgrees
  CountIsBacked
  OpenIsRegistered
PROPERTIES
  LiveIsRegistered
  ClosedIsRemoved
  CapacityReturns
  JobsAreLeased
