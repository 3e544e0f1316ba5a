\* Two relays, two auctions, crashes with lingering locks (no symmetry: liveness).
SPECIFICATION FairSpec
CONSTANTS
  Auctions = {a1, a2}
  Relays = {r1, r2}
  LingeringLocks = TRUE
  RestartAfterRelease = FALSE
  MaxRows = 3
  MaxFailures = 1
INVARIANTS TypeOK AnnouncedAndMarked RepeatedOnlyByFailure PassesOnlyLockedRows
PROPERTIES EveryEventAnnounced
