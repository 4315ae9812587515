SPECIFICATION Spec
CONSTANTS
  Jobs = {j1, j2}
  Workers = {w1, w2}
  Slots = {s1, s2}
  Clients = {c1}
  AnswerTypes = {"result", "reject", "failure"}
  MaxToken = 3
  NoLease = NoLease
  Idle = Idle
  NoJob = NoJob
SYMMETRY Symmetry
INVARIANTS
  TypeOK
  DispatchedIsRecoverable
  LeaseIsNewest
  CommittedOnce
  CommitIsNewest
  OpenHistoryIsCurrent
  AckedIsCommitted
  AuditFollowsStatus
PROPERTIES
  FinishedStaysFinished
  KeepsPromise
  ServesWorkers
CHECK_DEADLOCK FALSE
