SPECIFICATION Spec
CONSTANTS
  Jobs = {j1, j2}
  MaxToken = 3
  MaxRetries = 2
  Limits = {1, 2}
  ConfigLimit = 2
  NoEntry = NoEntry
INVARIANTS
  TypeOK
  OneExecution
  HeartbeatIsOwned
  RefusedIsOver
PROPERTIES
  EntryLeaves
  KeepsContract
