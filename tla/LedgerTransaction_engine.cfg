\* The engine's path: two sessions, two logical bids, one extension allowed
\* (no symmetry: liveness).
SPECIFICATION FairSpec
CONSTANTS
  Sessions = {s1, s2}
  Keys = {k1, k2}
  Times <- MCTimes
  Paths = {"antiSnipe"}
  NoSession = NoSession
  InitialClose = 4
  ExtensionWindow = 2
  ExtensionInterval = 2
  MaxExtensions = 1
INVARIANTS TypeOK EventPerBid AuctionDiscipline NoWaitCycle
PROPERTIES ImplementsAuctionLedger EveryCallReturns
