\* All attempts and snapshots in three-bit integers.
SPECIFICATION Spec
CONSTANTS
  MaxInt = 3
  Times <- MCTimes
  States <- MCStates
INVARIANTS TypeOK AcceptedIffValid MinimumIsTrue
PROPERTIES PriceNeverFalls
