\* Three peers, two commands, two terms; two AppendEntries per pair and term, so that
\* a beat overlaps with the calls of the one before.  States where overlapping
\* rejections brought nextIndex to 0 (RaftDoubleBackoff.cfg) are not looked at.
SPECIFICATION Spec
CONSTANTS
  Server = {s1, s2, s3}
  Command = {a, b}
  Nil = Nil
  MaxTerm = 2
  MaxLog = 1
  MaxInFlight = 2
  MaxRpcs = 2
  MaxRestart = 0
  Preempt = FALSE
SYMMETRY Symmetry
INVARIANTS LeaderCompleteness ApplyAgree
CONSTRAINTS NextIndexPositive OneRound
CHECK_DEADLOCK FALSE
