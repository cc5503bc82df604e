---------------------------- MODULE MapReduceJob ----------------------------
(***************************************************************************)
(* What the MapReduce framework of mr/ promises to whoever submits a job:  *)
(* an output file appears whole and correct or not at all, is never taken  *)
(* back or changed, and Done() says so only when all of them are there.    *)
(***************************************************************************)
EXTENDS Integers

CONSTANTS
    File,      \* the input files, one map task each
    NReduce,   \* the number of output partitions
    HasKeys    \* <<f, r>>: the map function emits keys of partition r for f

VARIABLES
    result,    \* what went into mr-out-r; {}: there is no such file
    done       \* Done() has become true

Partition == 0..(NReduce - 1)

\* The inputs that the correct mr-out-r is computed from.
Expected(r) == {f \in File : <<f, r>> \in HasKeys}

Init ==
    /\ result = [r \in Partition |-> {}]
    /\ done = FALSE

Publish(r) ==
    /\ result[r] = {}
    /\ result' = [result EXCEPT ![r] = Expected(r)]
    /\ UNCHANGED done

Finish ==
    /\ \A r \in Partition : result[r] = Expected(r)
    /\ done' = TRUE
    /\ UNCHANGED result

Next == (\E r \in Partition : Publish(r)) \/ Finish

Spec == Init /\ [][Next]_<<result, done>>

=============================================================================
