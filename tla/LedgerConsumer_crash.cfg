\* Two consumers without the hook, every kind of entry, one failure.
SPECIFICATION Spec
CONSTANTS
  Consumers = {c1, c2}
  Keys = {k1, k2}
  Times = {3, 4}
  Amounts = {1}
  WellFormed = {TRUE, FALSE}
  Bids <- MCBids
  BatchSize = 2
  RecoveryBatchSize = 1
  ScanLimit = 1
  Patient = {}
  Validating = FALSE
  Increment = 1
  RestartAfterIdle = FALSE
  MaxEntries = 3
  MaxFailures = 1
  InitialClose = 4
  ExtensionWindow = 2
  ExtensionInterval = 2
  MaxExtensions = 1
SYMMETRY MCSymmetry
INVARIANTS TypeOK AckedIsDurable BidsBeforeClose
