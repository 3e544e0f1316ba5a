\* One consumer, no failure, a bidder that is not a UUID.
SPECIFICATION FairSpec
CONSTANTS
  Consumers = {c1}
  Keys = {k1, k2}
  Times = {3}
  Amounts = {1}
  WellFormed = {TRUE, FALSE}
  Bids <- MCBids
  BatchSize = 2
  RecoveryBatchSize = 2
  ScanLimit = 1
  Patient = {}
  Validating = FALSE
  Increment = 1
  RestartAfterIdle = FALSE
  MaxEntries = 2
  MaxFailures = 0
  InitialClose = 4
  ExtensionWindow = 2
  ExtensionInterval = 2
  MaxExtensions = 1
PROPERTIES GoodBidsRecorded
