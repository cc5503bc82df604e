-------------------------- MODULE RaftLoopsProofs --------------------------
(* Proofs about RaftLoops, for every number of goroutines. *)
EXTENDS RaftLoops, TLAPS

\* The goroutines of a peer keep their types.
THEOREM TypeCorrect == Spec => []TypeOK
<1> USE DEF TypeOK, Pc, Goto, Leader, Candidate, Follower
<1>1. Init => TypeOK
    BY DEF Init
<1>2. TypeOK /\ [Next]_vars => TypeOK'
    <2> SUFFICES ASSUME TypeOK, [Next]_vars PROVE TypeOK'
        OBVIOUS
    <2>1. ASSUME NEW g \in Loop, electionLoopCheck(g) PROVE TypeOK'
        BY <2>1 DEF electionLoopCheck
    <2>2. ASSUME NEW g \in Loop, electionLoopAct(g) PROVE TypeOK'
        BY <2>2 DEF electionLoopAct
    <2>3. ASSUME NEW g \in Loop, leaderBeatLoop(g) \/ leaderBeatLoopEnds(g) PROVE TypeOK'
        BY <2>3 DEF leaderBeatLoop, leaderBeatLoopEnds
    <2>4. ASSUME NEW g \in Loop, DeadlinePasses(g) \/ Wins(g) PROVE TypeOK'
        BY <2>4 DEF DeadlinePasses, Wins
    <2>5. CASE StepsDown \/ TimerReset \/ Kill \/ UNCHANGED vars
        BY <2>5 DEF StepsDown, TimerReset, Kill, vars
    <2> QED
        BY <2>1, <2>2, <2>3, <2>4, <2>5 DEF Next, Step
<1> QED
    BY <1>1, <1>2, PTL DEF Spec

\* A live peer always has a goroutine that drives it, in whatever order role
\* changes and the checks of its loops fall.
THEOREM AlwaysAlive == Spec => []LoopAlive
<1> USE DEF LoopAlive, TypeOK, Pc, Goto, Running, Leader, Candidate, Follower
<1>1. Init => LoopAlive
    BY DEF Init
<1>2. TypeOK /\ LoopAlive /\ [Next]_vars => LoopAlive'
    <2> SUFFICES ASSUME TypeOK, LoopAlive, [Next]_vars PROVE LoopAlive'
        OBVIOUS
    <2>1. ASSUME NEW g \in Loop, electionLoopCheck(g) PROVE LoopAlive'
        BY <2>1 DEF electionLoopCheck
    <2>2. ASSUME NEW g \in Loop, electionLoopAct(g) PROVE LoopAlive'
        BY <2>2 DEF electionLoopAct
    <2>3. ASSUME NEW g \in Loop, leaderBeatLoop(g) PROVE LoopAlive'
        BY <2>3 DEF leaderBeatLoop
    <2>4. ASSUME NEW g \in Loop, leaderBeatLoopEnds(g) PROVE LoopAlive'
        BY <2>4 DEF leaderBeatLoopEnds
    <2>5. ASSUME NEW g \in Loop, DeadlinePasses(g) \/ Wins(g) PROVE LoopAlive'
        BY <2>5 DEF DeadlinePasses, Wins
    <2>6. CASE StepsDown \/ TimerReset \/ Kill \/ UNCHANGED vars
        BY <2>6 DEF StepsDown, TimerReset, Kill, vars
    <2> QED
        BY <2>1, <2>2, <2>3, <2>4, <2>5, <2>6 DEF Next, Step
<1> QED
    BY <1>1, <1>2, TypeCorrect, PTL DEF Spec

============================================================================
