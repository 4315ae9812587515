SPECIFICATION Spec
CONSTANTS
  Jobs = {j1}
  Workers = {w1, w2}
  Slots = {s1, s2}
  Clients = {c1}
  AnswerTypes = {"result", "reject"}
  MaxToken = 3
  NoLease = NoLease
  Idle = Idle
  NoJob = NoJob
SYMMETRY Symmetry
PROPERTY LiveLeaseIsFenced
CHECK_DEADLOCK FALSE
