\* Both append functions on one auction: who waits for whom.
SPECIFICATION Spec
CONSTANTS
  Sessions = {s1, s2}
  Keys = {k1, k2}
  Times <- MCTimes
  Paths = {"antiSnipe", "rowLock"}
  NoSession = NoSession
  InitialClose = 4
  ExtensionWindow = 2
  ExtensionInterval = 2
  MaxExtensions = 1
SYMMETRY MCSymmetry
INVARIANTS NoWaitCycle
