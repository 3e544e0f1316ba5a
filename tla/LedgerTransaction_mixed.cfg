\* Both append functions on one auction: three sessions, two logical bids, one
\* submission time before the close and one on it.
SPECIFICATION Spec
CONSTANTS
  Sessions = {s1, s2, s3}
  Keys = {k1, k2}
  Times = {3, 4}
  Paths = {"antiSnipe", "rowLock"}
  NoSession = NoSession
  InitialClose = 4
  ExtensionWindow = 2
  ExtensionInterval = 2
  MaxExtensions = 0
SYMMETRY MCSymmetry
INVARIANTS GapFree OneRowPerKey ReplyNamesItsBid CounterDiscipline
PROPERTIES LedgerImmutable
