\* A heartbeat goroutine gets the lock after its peer was deposed.
SPECIFICATION Spec
CONSTANTS
  Server = {s1, s2, s3}
  Command = {}
  Nil = Nil
  MaxTerm = 3
  MaxLog = 0
  MaxInFlight = 1
  MaxRpcs = 2
  MaxRestart = 0
  Preempt = TRUE
SYMMETRY Symmetry
INVARIANTS ElectionSafety
CONSTRAINT QuietPeer
CHECK_DEADLOCK FALSE
