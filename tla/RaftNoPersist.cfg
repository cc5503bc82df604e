\* A restarted peer votes again.
SPECIFICATION Spec
CONSTANTS
  Server = {s1, s2, s3}
  Command = {}
  Nil = Nil
  MaxTerm = 1
  MaxLog = 0
  MaxInFlight = 1
  MaxRpcs = 2
  MaxRestart = 1
  Preempt = FALSE
SYMMETRY Symmetry
INVARIANTS ElectionSafety
CHECK_DEADLOCK FALSE
