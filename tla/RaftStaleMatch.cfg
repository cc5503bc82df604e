\* Two peers of five take turns as leader; matchIndex of the first survives.
SPECIFICATION Spec
CONSTANTS
  Server = {1, 2, 3, 4, 5}
  Command = {1, 3}
  Nil = Nil
  MaxTerm = 4
  MaxLog = 2
  MaxInFlight = 1
  MaxRpcs = 2
  MaxRestart = 0
  Preempt = FALSE
INVARIANTS ApplyAgree
CONSTRAINTS Links Turns Asked
CHECK_DEADLOCK FALSE
