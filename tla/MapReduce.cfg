\* Two workers, either of which may crash, two inputs and three partitions,
\* one of them without keys.
SPECIFICATION FairSpec
CONSTANTS
  f1 = f1
  f2 = f2
  File = {f1, f2}
  NReduce = 3
  HasKeys <- Keys
  Worker = {w1, w2}
INVARIANTS TypeOK MapFinishedHasFiles SameOutput
PROPERTIES JobSpec Terminates
CHECK_DEADLOCK FALSE
