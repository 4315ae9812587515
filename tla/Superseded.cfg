SPECIFICATION WatchedSpec
CONSTANTS
  j1 = j1
  Jobs = {j1}
  MaxToken = 3
  MaxRetries = 2
  Limits = {1, 2}
  ConfigLimit = 2
  NoEntry = NoEntry
INVARIANT
  SupersededIsDiscarded
