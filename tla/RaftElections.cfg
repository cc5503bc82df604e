\* Four peers, so that a bare half is no majority, in two terms; no restarts.
SPECIFICATION Spec
CONSTANTS
  Server = {s1, s2, s3, s4}
  Command = {}
  Nil = Nil
  MaxTerm = 2
  MaxLog = 0
  MaxInFlight = 1
  MaxRpcs = 2
  MaxRestart = 0
  Preempt = FALSE
SYMMETRY Symmetry
INVARIANTS ElectionSafety
PROPERTY VoteOnce
CHECK_DEADLOCK FALSE
