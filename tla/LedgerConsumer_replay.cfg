\* One consumer with the hook that stays down for RecoveryMinIdle after it stopped;
\* bids before the window, in it, and on the close.
SPECIFICATION Spec
CONSTANTS
  Consumers = {c1}
  Keys = {k1, k2, k3}
  Times = {1, 2, 4}
  Amounts = {1, 2}
  WellFormed = {TRUE, FALSE}
  Bids <- MCBids
  BatchSize = 2
  RecoveryBatchSize = 1
  ScanLimit = 2
  Patient = {}
  Validating = TRUE
  Increment = 1
  RestartAfterIdle = TRUE
  MaxEntries = 3
  MaxFailures = 2
  InitialClose = 4
  ExtensionWindow = 2
  ExtensionInterval = 1
  MaxExtensions = 1
SYMMETRY MCSymmetry
INVARIANTS LedgerIsReplay PriceRises ExtensionLaw
PROPERTIES CloseNeverMovesBack
