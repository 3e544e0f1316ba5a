\* Three sessions of the native path beside the engine's path, three keys.
SPECIFICATION Spec
CONSTANTS
  Sessions = {s1, s2, s3}
  Keys = {k1, k2, k3}
  MaxNumber = 4
SYMMETRY MCSymmetry
INVARIANTS TypeOK GapsArePaid RepliesAreTrue CounterBelowNative
