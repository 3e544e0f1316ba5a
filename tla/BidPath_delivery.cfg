\* Two consumers, one of which waits for new entries without limit, and one
\* relay, which waits for the lock that a dead predecessor may leave behind;
\* one failure on either side (no symmetry: liveness).
SPECIFICATION PathSpec
CONSTANTS
  Consumers = {c1, c2}
  Keys = {k1, k2}
  Times = {3}
  Amounts = {1}
  WellFormed = {TRUE}
  Bids <- MCBids
  BatchSize = 1
  RecoveryBatchSize = 1
  ScanLimit = 1
  Patient = {c2}
  Validating = FALSE
  Increment = 1
  RestartAfterIdle = FALSE
  MaxEntries = 2
  MaxFailures = 1
  Relays = {r1}
  LingeringLocks = TRUE
  RestartAfterRelease = TRUE
  MaxRelayFailures = 1
  InitialClose = 4
  ExtensionWindow = 2
  ExtensionInterval = 2
  MaxExtensions = 1
PROPERTIES ImplementsBidFeed FeedKeepsUp EveryBidRecorded EveryBidAnnounced
