SPECIFICATION FairSpec
CONSTANTS
  Workers = {server}
  Operators = {operator}
  NoActor = NoActor
  NoTime = NoTime
  MinInterval = 1
  Interval = 2
  MaxAge = 2
  MaxHistory = 2
  MaxTime = 3
  MaxBack = 1
  MaxAttempts = 3
INVARIANTS
  LedgerAccounts
  RecordedSpaced
  OverlaysBackLedger
PROPERTIES
  WorkersReturn
  WorkerPaced
