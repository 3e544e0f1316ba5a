\* One consumer with the hook set, one failure.
SPECIFICATION Spec
CONSTANTS
  Consumers = {c1}
  Keys = {k1, k2}
  Times = {3}
  Amounts = {1}
  WellFormed = {TRUE}
  Bids <- MCBids
  BatchSize = 1
  RecoveryBatchSize = 1
  ScanLimit = 1
  Patient = {}
  Validating = TRUE
  Increment = 1
  RestartAfterIdle = TRUE
  MaxEntries = 2
  MaxFailures = 1
  InitialClose = 4
  ExtensionWindow = 2
  ExtensionInterval = 2
  MaxExtensions = 1
INVARIANTS ReplayIsSafe
