\* Two consumers, four entries, two failures.
SPECIFICATION Spec
CONSTANTS
  Consumers = {c1, c2}
  BatchSize = 2
  MaxEntries = 4
  MaxFailures = 2
SYMMETRY MCSymmetry
INVARIANTS TypeOK AckedWasLogged LoggedOnce
PROPERTIES StrandedForever
