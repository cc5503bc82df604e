\* Two rejections of one follower lower nextIndex twice.
SPECIFICATION Spec
CONSTANTS
  Server = {s1, s2, s3}
  Command = {a}
  Nil = Nil
  MaxTerm = 2
  MaxLog = 1
  MaxInFlight = 2
  MaxRpcs = 2
  MaxRestart = 0
  Preempt = FALSE
SYMMETRY Symmetry
INVARIANTS ApplyAgree
CONSTRAINT QuietPeer
CHECK_DEADLOCK FALSE
