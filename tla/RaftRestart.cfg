\* Three peers, one of which is restarted, with preemption.
SPECIFICATION Spec
CONSTANTS
  Server = {s1, s2, s3}
  Command = {a}
  Nil = Nil
  MaxTerm = 1
  MaxLog = 1
  MaxInFlight = 1
  MaxRpcs = 2
  MaxRestart = 1
  Preempt = TRUE
SYMMETRY Symmetry
INVARIANTS TypeOK CommitInLog
CHECK_DEADLOCK FALSE
