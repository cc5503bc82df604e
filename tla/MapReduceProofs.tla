-------------------------- MODULE MapReduceProofs --------------------------
(***************************************************************************)
(* Proofs about MapReduce, for all inputs, partitions and workers: the     *)
(* inductive invariant Inv, its consequences, and the refinement of        *)
(* MapReduceJob.                                                           *)
(***************************************************************************)
EXTENDS MapReduce, TLAPS

LEMMA PartitionFact == 0 \in Partition /\ Partition \subseteq Nat
BY NReduceAssumption DEF Partition

\* The master and the workers start in a state that satisfies Inv.
LEMMA InitInv == Init => Inv
<1> SUFFICES ASSUME Init PROVE Inv
    OBVIOUS
<1> USE PartitionFact, NReduceAssumption DEF Init
<1>1. TypeOK
    <2>1. mmap \in [File -> Status] /\ rtask \in [Partition -> Status]
        BY DEF Status
    <2>2. mstart \in [File -> Age] /\ rstart \in [Partition -> Age]
        BY DEF Age
    <2>3. pc \in [Worker -> Pc] /\ task \in [Worker -> File \cup Partition]
        BY DEF Pc
    <2>4. next \in [Worker -> 0..NReduce] /\ id \in [Worker -> Nat]
        OBVIOUS
    <2>5. mdone \in BOOLEAN /\ rdone \in BOOLEAN /\ masterUp \in BOOLEAN
        BY Zenon
    <2>6. nextId \in Nat \ {0} /\ files \subseteq File \X Partition
        OBVIOUS
    <2>7. outputs \in [Partition -> SUBSET File] /\ kvbox \in [Worker -> SUBSET File]
        OBVIOUS
    <2>8. \A w \in Worker : pc[w] = "idle"
        OBVIOUS
    <2> QED
        BY <2>1, <2>2, <2>3, <2>4, <2>5, <2>6, <2>7, <2>8 DEF TypeOK
<1>2. MapFinishedHasFiles /\ MapProgress
    BY DEF MapFinishedHasFiles, MapProgress
<1>3. ReduceProgress
    BY DEF ReduceProgress
<1> QED
    BY <1>1, <1>2, <1>3 DEF Inv

\* Each step keeps the variables in their types.
LEMMA TypeStep == Inv /\ [Next]_vars => TypeOK'
<1> SUFFICES ASSUME Inv, [Next]_vars PROVE TypeOK'
    OBVIOUS
<1> USE PartitionFact, NReduceAssumption DEF TypeOK, Status, Age, Pc, Goto, AssignId, Asks
<1>t. TypeOK /\ MapProgress
    BY DEF Inv
<1>1. ASSUME NEW w \in Worker, GiveMap(w) PROVE TypeOK'
    BY <1>t, <1>1 DEF GiveMap
<1>2. ASSUME NEW w \in Worker, NoMapLeft(w) PROVE TypeOK'
    <2>1. mdone' \in BOOLEAN
        BY <1>t, <1>2, Zenon DEF NoMapLeft, mIsFinished
    <2>2. mmap' \in [File -> Status] /\ mstart' \in [File -> Age]
        BY <1>t, <1>2 DEF NoMapLeft, mIsFinished
    <2> QED
        BY <1>t, <1>2, <2>1, <2>2 DEF NoMapLeft
<1>3. ASSUME NEW w \in Worker, GiveReduce(w) PROVE TypeOK'
    BY <1>t, <1>3 DEF GiveReduce
<1>4. ASSUME NEW w \in Worker, NoReduceLeft(w) PROVE TypeOK'
    <2>1. rdone' \in BOOLEAN
        BY <1>t, <1>4, Zenon DEF NoReduceLeft, rIsFinished
    <2>2. rtask' \in [Partition -> Status] /\ rstart' \in [Partition -> Age]
        BY <1>t, <1>4 DEF NoReduceLeft, rIsFinished
    <2> QED
        BY <1>t, <1>4, <2>1, <2>2 DEF NoReduceLeft
<1>5. ASSUME NEW w \in Worker, NothingLeft(w) PROVE TypeOK'
    BY <1>t, <1>5 DEF NothingLeft
<1>6. ASSUME NEW w \in Worker, doMap(w) PROVE TypeOK'
    BY <1>t, <1>6 DEF doMap, MapProgress, IsLast, masterVars, Partition
<1>7. ASSUME NEW w \in Worker, doReduceReads(w) PROVE TypeOK'
    BY <1>t, <1>7 DEF doReduceReads, masterVars
<1>8. ASSUME NEW w \in Worker, doReduceRenames(w) PROVE TypeOK'
    BY <1>t, <1>8 DEF doReduceRenames, masterVars
<1>9. ASSUME NEW w \in Worker, TaskFinish(w) PROVE TypeOK'
    BY <1>t, <1>9 DEF TaskFinish
<1>10. ASSUME NEW w \in Worker, WorkerExits(w) \/ Crash(w) PROVE TypeOK'
    BY <1>t, <1>10 DEF WorkerExits, Crash, masterVars
<1>11. ASSUME NEW f \in File, MapAges(f) PROVE TypeOK'
    BY <1>t, <1>11 DEF MapAges, workerVars
<1>12. ASSUME NEW r \in Partition, ReduceAges(r) PROVE TypeOK'
    BY <1>t, <1>12 DEF ReduceAges, workerVars
<1>13. CASE MasterExits
    BY <1>t, <1>13 DEF MasterExits, workerVars
<1>14. CASE UNCHANGED vars
    BY <1>t, <1>14 DEF vars, masterVars, workerVars
<1> QED
    BY <1>1, <1>2, <1>3, <1>4, <1>5, <1>6, <1>7, <1>8, <1>9, <1>10, <1>11, <1>12,
       <1>13, <1>14 DEF Next, Work, GiveTask

\* Each step keeps the intermediate files complete that the master counts on.
LEMMA MapStep == Inv /\ [Next]_vars => MapFinishedHasFiles' /\ MapProgress'
<1> SUFFICES ASSUME Inv, [Next]_vars PROVE MapFinishedHasFiles' /\ MapProgress'
    OBVIOUS
<1> USE PartitionFact, NReduceAssumption DEF MapFinishedHasFiles, MapProgress, Goto, Asks
<1>t. TypeOK /\ MapFinishedHasFiles /\ MapProgress
    BY DEF Inv
<1> USE DEF TypeOK
<1>1. ASSUME NEW w \in Worker, GiveMap(w) PROVE MapFinishedHasFiles' /\ MapProgress'
    BY <1>t, <1>1 DEF GiveMap
<1>2. ASSUME NEW w \in Worker, NoMapLeft(w) PROVE MapFinishedHasFiles' /\ MapProgress'
    BY <1>t, <1>2 DEF NoMapLeft, mIsFinished
<1>3. ASSUME NEW w \in Worker, GiveReduce(w) PROVE MapFinishedHasFiles' /\ MapProgress'
    BY <1>t, <1>3 DEF GiveReduce
<1>4. ASSUME NEW w \in Worker, NoReduceLeft(w) PROVE MapFinishedHasFiles' /\ MapProgress'
    BY <1>t, <1>4 DEF NoReduceLeft
<1>5. ASSUME NEW w \in Worker, NothingLeft(w) PROVE MapFinishedHasFiles' /\ MapProgress'
    BY <1>t, <1>5 DEF NothingLeft
<1>6. ASSUME NEW w \in Worker, doMap(w) PROVE MapFinishedHasFiles' /\ MapProgress'
    <2>1. files \subseteq files' /\ <<task[w], next[w]>> \in files'
        BY <1>6 DEF doMap
    <2>2. MapFinishedHasFiles'
        BY <1>t, <1>6, <2>1 DEF doMap, masterVars
    <2>3. ASSUME NEW v \in Worker, v # w
          PROVE /\ pc'[v] = "map" => /\ next'[v] \in Partition
                                     /\ \A q \in 0..(next'[v] - 1) : <<task'[v], q>> \in files'
                /\ pc'[v] = "mapped" => \A r \in Partition : <<task'[v], r>> \in files'
        BY <1>t, <1>6, <2>1, <2>3 DEF doMap
    <2>4. next[w] \in Partition /\ \A q \in 0..(next[w] - 1) : <<task[w], q>> \in files
        BY <1>t, <1>6 DEF doMap
    <2>5. \A q \in 0..next[w] : <<task[w], q>> \in files'
        BY <2>1, <2>4 DEF Partition
    <2>6. next'[w] = next[w] + 1 /\ task'[w] = task[w]
        BY <1>t, <1>6 DEF doMap
    <2>7. pc'[w] = IF next[w] + 1 = NReduce THEN "mapped" ELSE "map"
        BY <1>t, <1>6 DEF doMap, IsLast
    <2>8. CASE next[w] + 1 = NReduce
        <3>1. pc'[w] = "mapped" /\ pc'[w] # "map"
            BY <2>7, <2>8
        <3>2. \A r \in Partition : <<task'[w], r>> \in files'
            BY <2>4, <2>5, <2>6, <2>8 DEF Partition
        <3> QED
            BY <2>2, <2>3, <3>1, <3>2
    <2>9. CASE next[w] + 1 # NReduce
        <3>1. pc'[w] = "map" /\ pc'[w] # "mapped"
            BY <2>7, <2>9
        <3>2. next'[w] \in Partition /\ \A q \in 0..(next'[w] - 1) : <<task'[w], q>> \in files'
            BY <2>4, <2>5, <2>6, <2>9 DEF Partition
        <3> QED
            BY <2>2, <2>3, <3>1, <3>2
    <2> QED
        BY <2>8, <2>9
<1>7. ASSUME NEW w \in Worker, doReduceReads(w) PROVE MapFinishedHasFiles' /\ MapProgress'
    BY <1>t, <1>7 DEF doReduceReads, masterVars
<1>8. ASSUME NEW w \in Worker, doReduceRenames(w) PROVE MapFinishedHasFiles' /\ MapProgress'
    BY <1>t, <1>8 DEF doReduceRenames, masterVars
<1>9. ASSUME NEW w \in Worker, TaskFinish(w) PROVE MapFinishedHasFiles' /\ MapProgress'
    BY <1>t, <1>9 DEF TaskFinish
<1>10. ASSUME NEW w \in Worker, WorkerExits(w) \/ Crash(w)
       PROVE MapFinishedHasFiles' /\ MapProgress'
    BY <1>t, <1>10 DEF WorkerExits, Crash, masterVars
<1>11. ASSUME NEW f \in File, MapAges(f) PROVE MapFinishedHasFiles' /\ MapProgress'
    BY <1>t, <1>11 DEF MapAges, workerVars
<1>12. ASSUME NEW r \in Partition, ReduceAges(r) PROVE MapFinishedHasFiles' /\ MapProgress'
    BY <1>t, <1>12 DEF ReduceAges, workerVars
<1>13. CASE MasterExits
    BY <1>t, <1>13 DEF MasterExits, workerVars
<1>14. CASE UNCHANGED vars
    BY <1>t, <1>14 DEF vars, masterVars, workerVars
<1> QED
    BY <1>1, <1>2, <1>3, <1>4, <1>5, <1>6, <1>7, <1>8, <1>9, <1>10, <1>11, <1>12,
       <1>13, <1>14, ZenonT(60) DEF Next, Work, GiveTask

\* Once the map phase is over, the files that a reduce task finds are all the
\* inputs with keys of its partition.
LEMMA ReadsAll ==
    ASSUME Inv, mdone, NEW r \in Partition
    PROVE  {f \in File : <<f, r>> \in files \cap HasKeys} = Expected(r)
BY DEF Inv, ReduceProgress, MapFinishedHasFiles, Expected

\* Each step keeps the outputs whole and the phases in order.
LEMMA ReduceStep == Inv /\ [Next]_vars => ReduceProgress'
<1> SUFFICES ASSUME Inv, [Next]_vars PROVE ReduceProgress'
    OBVIOUS
<1> USE PartitionFact, NReduceAssumption DEF ReduceProgress, Goto, Asks
<1>t. TypeOK /\ ReduceProgress
    BY DEF Inv
<1> USE DEF TypeOK
<1>1. ASSUME NEW w \in Worker, GiveMap(w) PROVE ReduceProgress'
    BY <1>t, <1>1 DEF GiveMap
<1>2. ASSUME NEW w \in Worker, NoMapLeft(w) PROVE ReduceProgress'
    BY <1>t, <1>2 DEF NoMapLeft, mIsFinished
<1>3. ASSUME NEW w \in Worker, GiveReduce(w) PROVE ReduceProgress'
    BY <1>t, <1>3 DEF GiveReduce
<1>4. ASSUME NEW w \in Worker, NoReduceLeft(w) PROVE ReduceProgress'
    BY <1>t, <1>4 DEF NoReduceLeft, rIsFinished
<1>5. ASSUME NEW w \in Worker, NothingLeft(w) PROVE ReduceProgress'
    BY <1>t, <1>5 DEF NothingLeft
<1>6. ASSUME NEW w \in Worker, doMap(w) PROVE ReduceProgress'
    BY <1>t, <1>6 DEF doMap, masterVars
<1>7. ASSUME NEW w \in Worker, doReduceReads(w) PROVE ReduceProgress'
    <2>1. task[w] \in Partition /\ mdone
        BY <1>t, <1>7 DEF doReduceReads
    <2>2. kvbox' = [kvbox EXCEPT ![w] = Expected(task[w])]
        BY <1>7, <2>1, ReadsAll DEF doReduceReads
    <2>3. pc' = [pc EXCEPT ![w] = IF Expected(task[w]) = {} THEN "reduced" ELSE "write"]
        BY <1>7, <2>1, ReadsAll DEF doReduceReads
    <2>4. UNCHANGED <<mmap, rtask, mdone, rdone, outputs, task>>
        BY <1>7 DEF doReduceReads, masterVars
    <2> QED
        BY <1>t, <2>1, <2>2, <2>3, <2>4
<1>8. ASSUME NEW w \in Worker, doReduceRenames(w) PROVE ReduceProgress'
    <2>1. task[w] \in Partition /\ kvbox[w] = Expected(task[w]) /\ mdone
        BY <1>t, <1>8 DEF doReduceRenames
    <2> QED
        BY <1>t, <1>8, <2>1 DEF doReduceRenames, masterVars
<1>9. ASSUME NEW w \in Worker, TaskFinish(w) PROVE ReduceProgress'
    BY <1>t, <1>9 DEF TaskFinish
<1>10. ASSUME NEW w \in Worker, WorkerExits(w) \/ Crash(w) PROVE ReduceProgress'
    BY <1>t, <1>10 DEF WorkerExits, Crash, masterVars
<1>11. ASSUME NEW f \in File, MapAges(f) PROVE ReduceProgress'
    BY <1>t, <1>11 DEF MapAges, workerVars
<1>12. ASSUME NEW r \in Partition, ReduceAges(r) PROVE ReduceProgress'
    BY <1>t, <1>12 DEF ReduceAges, workerVars
<1>13. CASE MasterExits
    BY <1>t, <1>13 DEF MasterExits, workerVars
<1>14. CASE UNCHANGED vars
    BY <1>t, <1>14 DEF vars, masterVars, workerVars
<1> QED
    BY <1>1, <1>2, <1>3, <1>4, <1>5, <1>6, <1>7, <1>8, <1>9, <1>10, <1>11, <1>12,
       <1>13, <1>14 DEF Next, Work, GiveTask

\* Inv holds in every state the master, the workers and the directory can be in.
THEOREM Invariance == Spec => []Inv
<1>1. Inv /\ [Next]_vars => Inv'
    BY TypeStep, MapStep, ReduceStep DEF Inv
<1> QED
    BY InitInv, <1>1, PTL DEF Spec

\* The variables keep their types: a worker that has a task has one of the
\* phase it works in (worker.go:171-207).
THEOREM TypeCorrect == Spec => []TypeOK
<1>1. Inv => TypeOK
    BY DEF Inv
<1> QED
    BY <1>1, Invariance, PTL

\* A map task that the master holds for finished has all its intermediate files.
THEOREM MapFinished == Spec => []MapFinishedHasFiles
<1>1. Inv => MapFinishedHasFiles
    BY DEF Inv
<1> QED
    BY Invariance, <1>1, PTL

\* A job starts like the job its submitter sees.
LEMMA JobInit == Init => Job!Init
BY DEF Init, Job!Init, Partition, Job!Partition

\* Every step of master and workers is a step of that job, or none of it.
LEMMA JobStep == Inv /\ [Next]_vars => [Job!Next]_<<outputs, mdone /\ rdone>>
<1> SUFFICES ASSUME Inv, [Next]_vars
             PROVE  Job!Next \/ UNCHANGED <<outputs, mdone /\ rdone>>
    OBVIOUS
<1>t. TypeOK /\ ReduceProgress
    BY DEF Inv
<1>p. Partition = Job!Partition /\ \A r \in Partition : Expected(r) = Job!Expected(r)
    BY DEF Partition, Job!Partition, Expected, Job!Expected
<1>1. ASSUME NEW w \in Worker, doReduceRenames(w)
      PROVE  Job!Next \/ UNCHANGED <<outputs, mdone /\ rdone>>
    <2>1. task[w] \in Partition /\ kvbox[w] = Expected(task[w])
        BY <1>t, <1>1 DEF doReduceRenames, TypeOK, ReduceProgress
    <2>2. outputs' = [outputs EXCEPT ![task[w]] = Expected(task[w])]
        BY <1>1, <2>1 DEF doReduceRenames
    <2>3. UNCHANGED (mdone /\ rdone)
        BY <1>1 DEF doReduceRenames, masterVars
    <2>4. CASE outputs[task[w]] = {}
        <3>1. Job!Publish(task[w])
            BY <1>p, <2>1, <2>2, <2>3, <2>4 DEF Job!Publish
        <3> QED
            BY <1>p, <2>1, <3>1 DEF Job!Next
    <2>5. CASE outputs[task[w]] = Expected(task[w])
        <3>1. outputs' = outputs
            BY <1>t, <2>1, <2>2, <2>5 DEF TypeOK
        <3> QED
            BY <2>3, <3>1
    <2> QED
        BY <1>t, <2>1, <2>4, <2>5 DEF ReduceProgress
<1>2. ASSUME NEW w \in Worker, NoMapLeft(w)
      PROVE  Job!Next \/ UNCHANGED <<outputs, mdone /\ rdone>>
    \* rdone is still false, so that mdone changes nothing for the submitter.
    <2>1. ~rdone /\ rdone' = rdone /\ outputs' = outputs
        BY <1>t, <1>2 DEF NoMapLeft, ReduceProgress
    <2> QED
        BY <2>1
<1>3. ASSUME NEW w \in Worker, NoReduceLeft(w)
      PROVE  Job!Next \/ UNCHANGED <<outputs, mdone /\ rdone>>
    <2>1. outputs' = outputs /\ mdone' = mdone /\ mdone
        BY <1>3 DEF NoReduceLeft
    <2>2. CASE \A r \in Partition : rtask[r] = 2
        <3>1. \A r \in Job!Partition : outputs[r] = Job!Expected(r)
            BY <1>t, <1>p, <2>2 DEF ReduceProgress
        <3>2. rdone'
            BY <1>3, <2>2 DEF NoReduceLeft, rIsFinished
        <3>3. Job!Finish
            BY <2>1, <3>1, <3>2 DEF Job!Finish
        <3> QED
            BY <3>3 DEF Job!Next
    <2>3. CASE ~ \A r \in Partition : rtask[r] = 2
        <3>1. rdone' = rdone
            BY <1>3, <2>3 DEF NoReduceLeft, rIsFinished
        <3> QED
            BY <2>1, <3>1
    <2> QED
        BY <2>2, <2>3
<1>4. ASSUME NEW w \in Worker,
             \/ GiveMap(w) \/ GiveReduce(w) \/ NothingLeft(w) \/ doMap(w)
             \/ doReduceReads(w) \/ TaskFinish(w) \/ WorkerExits(w) \/ Crash(w)
      PROVE  UNCHANGED <<outputs, mdone, rdone>>
    BY <1>4 DEF GiveMap, GiveReduce, NothingLeft, doMap, doReduceReads, TaskFinish,
                WorkerExits, Crash, masterVars
<1>5. ASSUME NEW f \in File, MapAges(f) PROVE UNCHANGED <<outputs, mdone, rdone>>
    BY <1>5 DEF MapAges
<1>6. ASSUME NEW r \in Partition, ReduceAges(r) PROVE UNCHANGED <<outputs, mdone, rdone>>
    BY <1>6 DEF ReduceAges
<1>7. CASE MasterExits \/ UNCHANGED vars
    BY <1>7 DEF MasterExits, vars, masterVars
<1> QED
    BY <1>1, <1>2, <1>3, <1>4, <1>5, <1>6, <1>7 DEF Next, Work, GiveTask

\* The framework implements the job its submitter sees: outputs appear whole and
\* correct, stay, and Done() becomes true only when all are there.
THEOREM Refinement == Spec => JobSpec
<1>1. Inv /\ [Next]_vars => [Job!Next]_<<outputs, mdone /\ rdone>>
    BY JobStep
<1> QED
    BY Invariance, JobInit, <1>1, PTL DEF Spec, JobSpec, Job!Spec

============================================================================
