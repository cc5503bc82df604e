----------------------------- MODULE MapReduce -----------------------------
(***************************************************************************)
(* The master (mr/master.go) and the workers (mr/worker.go) of a MapReduce *)
(* job, with main/mrmaster.go, which ends the master when the job is done. *)
(*                                                                         *)
(* An RPC handler of the master is one critical section of m.lock, so one  *)
(* action.  A worker is a sequential process; its steps are the points     *)
(* where others can see it: the RPCs, each os.Rename and the reading of    *)
(* the intermediate files.  It may crash at every point.  An RPC that      *)
(* fails ends the worker, so a lost request or reply is a crash too.       *)
(*                                                                         *)
(* Data: the map function is deterministic, so an intermediate file        *)
(* mr-f-r is there or not; an output mr-out-r is the set of inputs whose   *)
(* records were read for it.                                               *)
(***************************************************************************)
EXTENDS Integers

CONSTANTS
    File,      \* the input files, one map task each
    NReduce,   \* number of reduce tasks
    HasKeys,   \* <<f, r>>: the map function emits keys of partition r for f
    Worker     \* the worker processes of the job

ASSUME NReduceAssumption == NReduce \in Nat \ {0}
ASSUME HasKeysAssumption == HasKeys \subseteq File \X (0..(NReduce - 1))

VARIABLES
    mmap, rtask,      \* per task: -1 not started, 1 started, 2 finished
    mstart, rstart,   \* per task: when it was given out
    mdone, rdone,
    nextId,
    masterUp,         \* the master process runs
    files,            \* <<f, r>>: the intermediate file mr-f-r exists
    outputs,          \* what went into mr-out-r; {}: there is no such file
    id,               \* per worker: its WorkerId, 0 before the first reply
    pc,               \* per worker: where it is
    task,             \* per worker: the file or partition it works on
    next,             \* per worker: the partition it renames next (doMap)
    kvbox             \* per worker: the inputs it has read records of (doReduce)

masterVars == <<mmap, rtask, mstart, rstart, mdone, rdone, nextId, masterUp>>
workerVars == <<id, pc, task, next, kvbox>>
vars == <<masterVars, files, outputs, workerVars>>

Partition == 0..(NReduce - 1)
Status == {-1, 1, 2}

\* A start time is zero, less than 5 seconds ago, or longer ago.
Age == {"zero", "fresh", "old"}

\* "idle": at the top of the worker's loop; "map", "read", "write": in doMap and
\* doReduce; "mapped", "reduced": about to report; "gone": exited or crashed.
Pc == {"idle", "map", "mapped", "read", "write", "reduced", "gone"}

Expected(r) == {f \in File : <<f, r>> \in HasKeys}

Init ==
    /\ mmap = [f \in File |-> -1]
    /\ rtask = [r \in Partition |-> -1]
    /\ mstart = [f \in File |-> "zero"]
    /\ rstart = [r \in Partition |-> "zero"]
    /\ mdone = FALSE
    /\ rdone = FALSE
    /\ nextId = 1
    /\ masterUp = TRUE
    /\ files = {}
    /\ outputs = [r \in Partition |-> {}]
    /\ id = [w \in Worker |-> 0]
    /\ pc = [w \in Worker |-> "idle"]
    /\ task = [w \in Worker |-> 0]
    /\ next = [w \in Worker |-> 0]
    /\ kvbox = [w \in Worker |-> {}]

Goto(w, l) == pc' = [pc EXCEPT ![w] = l]

----------------------------------------------------------------------------
(* GiveTask: a worker asks for work.                                       *)

\* The first call of a worker gets it an id.
AssignId(w) ==
    /\ id' = [id EXCEPT ![w] = IF @ = 0 THEN nextId ELSE @]
    /\ nextId' = IF id[w] = 0 THEN nextId + 1 ELSE nextId

Asks(w) == masterUp /\ pc[w] = "idle" /\ AssignId(w)

GiveMap(w) ==
    /\ Asks(w)
    /\ ~mdone
    /\ \E f \in File :
          /\ mmap[f] = -1
          /\ mmap' = [mmap EXCEPT ![f] = 1]
          /\ mstart' = [mstart EXCEPT ![f] = "fresh"]
          /\ task' = [task EXCEPT ![w] = f]
    /\ next' = [next EXCEPT ![w] = 0]
    /\ Goto(w, "map")
    /\ UNCHANGED <<rtask, rstart, mdone, rdone, masterUp, files, outputs, kvbox>>

\* Mutant: a task that was given out counts as finished.
StartedIsDone ==
    /\ mdone' = \A f \in File : mmap[f] # -1
    /\ UNCHANGED <<mmap, mstart>>

\* Mutant: a task that was given out is never given out again.
NoTimeout ==
    /\ mdone' = \A f \in File : mmap[f] = 2
    /\ UNCHANGED <<mmap, mstart>>

\* The range over the map m.mmap starts anywhere and ends at the first task that
\* is not finished; if that one was given out long ago, it is up for grabs again.
mIsFinished ==
    \/ /\ \A f \in File : mmap[f] = 2
       /\ mdone' = TRUE
       /\ UNCHANGED <<mmap, mstart>>
    \/ /\ \E f \in File :
             /\ mmap[f] # 2
             /\ IF mmap[f] = 1 /\ mstart[f] = "old"
                THEN /\ mmap' = [mmap EXCEPT ![f] = -1]
                     /\ mstart' = [mstart EXCEPT ![f] = "zero"]
                ELSE UNCHANGED <<mmap, mstart>>
       /\ UNCHANGED mdone

NoMapLeft(w) ==
    /\ Asks(w)
    /\ ~mdone
    /\ \A f \in File : mmap[f] # -1
    /\ mIsFinished
    /\ UNCHANGED <<rtask, rstart, rdone, masterUp, files, outputs, pc, task, next, kvbox>>

\* The range over the slice m.rtask goes in order.
GiveReduce(w) ==
    /\ Asks(w)
    /\ mdone /\ ~rdone
    /\ \E r \in Partition :
          /\ rtask[r] = -1
          /\ \A q \in 0..(r - 1) : rtask[q] # -1
          /\ rtask' = [rtask EXCEPT ![r] = 1]
          /\ rstart' = [rstart EXCEPT ![r] = "fresh"]
          /\ task' = [task EXCEPT ![w] = r]
    /\ Goto(w, "read")
    /\ UNCHANGED <<mmap, mstart, mdone, rdone, masterUp, files, outputs, next, kvbox>>

rIsFinished ==
    \/ /\ \A r \in Partition : rtask[r] = 2
       /\ rdone' = TRUE
       /\ UNCHANGED <<rtask, rstart>>
    \/ /\ \E r \in Partition :
             /\ rtask[r] # 2
             /\ \A q \in 0..(r - 1) : rtask[q] = 2
             /\ IF rtask[r] = 1 /\ rstart[r] = "old"
                THEN /\ rtask' = [rtask EXCEPT ![r] = -1]
                     /\ rstart' = [rstart EXCEPT ![r] = "zero"]
                ELSE UNCHANGED <<rtask, rstart>>
       /\ UNCHANGED rdone

NoReduceLeft(w) ==
    /\ Asks(w)
    /\ mdone /\ ~rdone
    /\ \A r \in Partition : rtask[r] # -1
    /\ rIsFinished
    /\ UNCHANGED <<mmap, mstart, mdone, masterUp, files, outputs, pc, task, next, kvbox>>

NothingLeft(w) ==
    /\ Asks(w)
    /\ mdone /\ rdone
    /\ UNCHANGED <<mmap, rtask, mstart, rstart, mdone, rdone, masterUp, files, outputs,
                   pc, task, next, kvbox>>

GiveTask(w) ==
    GiveMap(w) \/ NoMapLeft(w) \/ GiveReduce(w) \/ NoReduceLeft(w) \/ NothingLeft(w)

----------------------------------------------------------------------------
(* The worker.                                                             *)

\* Mutant: the last rename is left out.
ForgetsLast(n) == n + 2 >= NReduce

\* Mutant: one rename too many.
OneTooMany(n) == n = NReduce

\* Has doMap renamed all its files once it has renamed the n-th?
IsLast(n) == n + 1 = NReduce

\* doMap renames its temporary files to mr-f-0, mr-f-1, ... one by one.
doMap(w) ==
    /\ pc[w] = "map"
    /\ files' = files \cup {<<task[w], next[w]>>}
    /\ next' = [next EXCEPT ![w] = @ + 1]
    /\ Goto(w, IF IsLast(next[w]) THEN "mapped" ELSE "map")
    /\ UNCHANGED <<masterVars, outputs, id, task, kvbox>>

\* doReduce reads the files mr-*-r that are there.  If they hold no record at all
\* it returns without an output.  The pattern also matches an mr-out-r left by an
\* earlier execution; its lines "key value" are no JSON, so it adds no record.
doReduceReads(w) ==
    LET found == {f \in File : <<f, task[w]>> \in files \cap HasKeys}
    IN  /\ pc[w] = "read"
        /\ kvbox' = [kvbox EXCEPT ![w] = found]
        /\ Goto(w, IF found = {} THEN "reduced" ELSE "write")
        /\ UNCHANGED <<masterVars, files, outputs, id, task, next>>

doReduceRenames(w) ==
    /\ pc[w] = "write"
    /\ outputs' = [outputs EXCEPT ![task[w]] = kvbox[w]]
    /\ Goto(w, "reduced")
    /\ UNCHANGED <<masterVars, files, id, task, next, kvbox>>

\* The worker reports its task, which may be given to another by now.
TaskFinish(w) ==
    /\ masterUp
    /\ \/ /\ pc[w] = "mapped"
          /\ mmap' = [mmap EXCEPT ![task[w]] = 2]
          /\ UNCHANGED rtask
       \/ /\ pc[w] = "reduced"
          /\ rtask' = [rtask EXCEPT ![task[w]] = 2]
          /\ UNCHANGED mmap
    /\ Goto(w, "idle")
    /\ UNCHANGED <<mstart, rstart, mdone, rdone, nextId, masterUp, files, outputs,
                   id, task, next, kvbox>>

\* An RPC to a master that is gone ends the worker.
WorkerExits(w) ==
    /\ ~masterUp
    /\ pc[w] \in {"idle", "mapped", "reduced"}
    /\ Goto(w, "gone")
    /\ UNCHANGED <<masterVars, files, outputs, id, task, next, kvbox>>

Crash(w) ==
    /\ pc[w] # "gone"
    /\ Goto(w, "gone")
    /\ UNCHANGED <<masterVars, files, outputs, id, task, next, kvbox>>

----------------------------------------------------------------------------
\* Five seconds pass since a task was given out.
MapAges(f) ==
    /\ mmap[f] = 1 /\ mstart[f] = "fresh"
    /\ mstart' = [mstart EXCEPT ![f] = "old"]
    /\ UNCHANGED <<mmap, rtask, rstart, mdone, rdone, nextId, masterUp, files, outputs,
                   workerVars>>

ReduceAges(r) ==
    /\ rtask[r] = 1 /\ rstart[r] = "fresh"
    /\ rstart' = [rstart EXCEPT ![r] = "old"]
    /\ UNCHANGED <<mmap, rtask, mstart, mdone, rdone, nextId, masterUp, files, outputs,
                   workerVars>>

Done == mdone /\ rdone

\* main() polls Done(), sleeps a second and returns.
MasterExits ==
    /\ masterUp
    /\ Done
    /\ masterUp' = FALSE
    /\ UNCHANGED <<mmap, rtask, mstart, rstart, mdone, rdone, nextId, files, outputs,
                   workerVars>>

Work(w) ==
    \/ GiveTask(w)
    \/ doMap(w)
    \/ doReduceReads(w)
    \/ doReduceRenames(w)
    \/ TaskFinish(w)
    \/ WorkerExits(w)

Next ==
    \/ \E w \in Worker : Work(w) \/ Crash(w)
    \/ \E f \in File : MapAges(f)
    \/ \E r \in Partition : ReduceAges(r)
    \/ MasterExits

Spec == Init /\ [][Next]_vars

\* A worker that has not crashed goes on, the clock runs and main() polls.
Fairness ==
    /\ \A w \in Worker : WF_vars(Work(w))
    /\ \A f \in File : WF_vars(MapAges(f))
    /\ \A r \in Partition : WF_vars(ReduceAges(r))
    /\ WF_vars(MasterExits)

FairSpec == Spec /\ Fairness

----------------------------------------------------------------------------
(* What the framework promises.                                            *)

TypeOK ==
    /\ mmap \in [File -> Status]
    /\ rtask \in [Partition -> Status]
    /\ mstart \in [File -> Age]
    /\ rstart \in [Partition -> Age]
    /\ mdone \in BOOLEAN
    /\ rdone \in BOOLEAN
    /\ nextId \in Nat \ {0}
    /\ masterUp \in BOOLEAN
    /\ files \subseteq File \X Partition
    /\ outputs \in [Partition -> SUBSET File]
    /\ id \in [Worker -> Nat]
    /\ pc \in [Worker -> Pc]
    /\ task \in [Worker -> File \cup Partition]
    /\ next \in [Worker -> 0..NReduce]
    /\ kvbox \in [Worker -> SUBSET File]
    /\ \A w \in Worker : pc[w] \in {"map", "mapped"} => task[w] \in File
    /\ \A w \in Worker : pc[w] \in {"read", "write", "reduced"} => task[w] \in Partition

\* When the master holds a map task for finished, all its intermediate files are
\* there, whichever of the workers it was given to did which renames and
\* reported it (master.go:37-46, worker.go:74-81).
MapFinishedHasFiles ==
    \A f \in File : mmap[f] = 2 => \A r \in Partition : <<f, r>> \in files

\* A map worker has renamed the files below next, one that reports all of them.
MapProgress ==
    \A w \in Worker :
        /\ pc[w] = "map" => /\ next[w] \in Partition
                            /\ \A q \in 0..(next[w] - 1) : <<task[w], q>> \in files
        /\ pc[w] = "mapped" => \A r \in Partition : <<task[w], r>> \in files

\* Reduce work starts when the map phase is over, so that it reads all there is.
ReduceProgress ==
    /\ mdone => \A f \in File : mmap[f] = 2
    /\ \A w \in Worker : pc[w] \in {"read", "write", "reduced"} => mdone
    /\ \A w \in Worker : pc[w] = "write" => kvbox[w] = Expected(task[w])
    /\ \A w \in Worker : pc[w] = "reduced" => outputs[task[w]] = Expected(task[w])
    /\ \A r \in Partition : rtask[r] = 2 => outputs[r] = Expected(r)
    /\ \A r \in Partition : outputs[r] \in {{}, Expected(r)}
    /\ rdone => mdone /\ \A r \in Partition : rtask[r] = 2

\* The inductive invariant.
Inv ==
    /\ TypeOK
    /\ MapFinishedHasFiles
    /\ MapProgress
    /\ ReduceProgress

Job == INSTANCE MapReduceJob WITH result <- outputs, done <- mdone /\ rdone

\* The job as its submitter sees it: each mr-out-r appears complete or not at all,
\* never changes again, and Done() (master.go:152-162) is true only after the last.
JobSpec == Job!Spec

\* If one worker does not crash while the master is up, the job gets done, the
\* master exits and no worker is left waiting (master.go:95-130,
\* worker.go:171-207).
Terminates == \A v \in Worker :
    [](masterUp => pc[v] # "gone") =>
        <>(Done /\ ~masterUp /\ \A w \in Worker : pc[w] = "gone")

============================================================================
