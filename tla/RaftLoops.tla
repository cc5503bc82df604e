----------------------------- MODULE RaftLoops -----------------------------
(***************************************************************************)
(* The long-running goroutines of one Raft peer (raft/raft.go): the        *)
(* electionLoop it starts with, the leaderBeatLoop every victory spawns,   *)
(* the electionLoop a leaderBeatLoop leaves behind, the one-place channel  *)
(* electionResetCh, and Kill().  The RPC handlers and the goroutines of    *)
(* RequestVote, which module Raft describes, appear here only through what *)
(* they do to rf.state and electionResetCh.                                *)
(*                                                                         *)
(* A loop looks at rf.state in one critical section (GetState) and acts on *)
(* it later, so that every role change may fall in between.                *)
(***************************************************************************)
EXTENDS Integers

CONSTANT Loop   \* goroutine slots; bound: a victory needs a free one

VARIABLES
    state,            \* rf.state
    killed,           \* rf.dead
    electionResetCh,  \* is there a token in the channel?
    pc,               \* what each goroutine does
    due               \* has the deadline of an electionLoop passed?

vars == <<state, killed, electionResetCh, pc, due>>

Leader    == 0
Candidate == 1
Follower  == 2

\* "check" and "act": the two halves of electionLoop's body; "beat": inside
\* leaderBeatLoop; "left": leaderBeatLoop after its break.
Pc == {"free", "check", "act", "beat", "left"}

Running(g) == pc[g] # "free"

Init ==
    /\ state = Follower
    /\ killed = FALSE
    /\ electionResetCh = FALSE
    /\ \E g \in Loop : pc = [h \in Loop |-> IF h = g THEN "check" ELSE "free"]
    /\ due = [g \in Loop |-> FALSE]

Goto(g, l) == pc' = [pc EXCEPT ![g] = l]

----------------------------------------------------------------------------
(* electionLoop.                                                           *)

\* Mutant: the loop does not ask killed().
NeverStops(g) ==
    /\ pc[g] = "check"
    /\ Goto(g, IF state = Leader THEN "free" ELSE "act")
    /\ UNCHANGED <<state, killed, electionResetCh, due>>

electionLoopCheck(g) ==
    /\ pc[g] = "check"
    /\ Goto(g, IF killed \/ state = Leader THEN "free" ELSE "act")
    /\ UNCHANGED <<state, killed, electionResetCh, due>>

\* A token renews the deadline; otherwise, if the deadline has passed,
\* startElection() makes the peer a candidate unless it leads by now.
electionLoopAct(g) ==
    /\ pc[g] = "act"
    /\ Goto(g, "check")
    /\ electionResetCh' = FALSE
    /\ due' = [due EXCEPT ![g] = FALSE]
    /\ state' = IF ~electionResetCh /\ due[g] /\ state # Leader THEN Candidate ELSE state
    /\ UNCHANGED killed

DeadlinePasses(g) ==
    /\ pc[g] \in {"check", "act"}
    /\ ~due[g]
    /\ due' = [due EXCEPT ![g] = TRUE]
    /\ UNCHANGED <<state, killed, electionResetCh, pc>>

----------------------------------------------------------------------------
(* leaderBeatLoop.                                                         *)

\* Mutant: the loop goes on until the peer is killed.
BeatsOn(g) ==
    /\ pc[g] = "beat"
    /\ killed
    /\ Goto(g, "left")
    /\ UNCHANGED <<state, killed, electionResetCh, due>>

leaderBeatLoop(g) ==
    /\ pc[g] = "beat"
    /\ killed \/ state # Leader
    /\ Goto(g, "left")
    /\ UNCHANGED <<state, killed, electionResetCh, due>>

\* Mutant: the loop ends without a successor.
JustEnds(g) ==
    /\ pc[g] = "left"
    /\ Goto(g, "free")
    /\ UNCHANGED <<state, killed, electionResetCh, due>>

\* It asks GetState() and killed() again and goes on as an electionLoop.
leaderBeatLoopEnds(g) ==
    /\ pc[g] = "left"
    /\ Goto(g, IF state # Leader /\ ~killed THEN "check" ELSE "free")
    /\ due' = [due EXCEPT ![g] = FALSE]
    /\ UNCHANGED <<state, killed, electionResetCh>>

----------------------------------------------------------------------------
(* What the handlers and the vote goroutines do to the peer.               *)

\* A majority has voted for the peer: a goroutine of RequestVote makes it
\* leader and spawns a leaderBeatLoop.  Nothing here asks killed().
Wins(g) ==
    /\ state = Candidate
    /\ pc[g] = "free"
    /\ state' = Leader
    /\ Goto(g, "beat")
    /\ UNCHANGED <<killed, electionResetCh, due>>

\* A request or an answer with a higher term, also after Kill().
StepsDown ==
    /\ state' = Follower
    /\ UNCHANGED <<killed, electionResetCh, pc, due>>

\* AppendEntries of a current leader, or a vote granted (in the peer's own term
\* only a follower has its vote left): resetElectionTimer() leaves a token,
\* unless there is one.
TimerReset ==
    /\ state' = Follower
    /\ electionResetCh' = TRUE
    /\ UNCHANGED <<killed, pc, due>>

Kill ==
    /\ ~killed
    /\ killed' = TRUE
    /\ UNCHANGED <<state, electionResetCh, pc, due>>

----------------------------------------------------------------------------
Step(g) ==
    \/ electionLoopCheck(g)
    \/ electionLoopAct(g)
    \/ leaderBeatLoop(g)
    \/ leaderBeatLoopEnds(g)

Next ==
    \/ \E g \in Loop : Step(g) \/ DeadlinePasses(g) \/ Wins(g)
    \/ StepsDown
    \/ TimerReset
    \/ Kill

Spec == Init /\ [][Next]_vars

\* A loop sleeps 5 ms and goes on: it is never starved, and time passes.
Fairness == \A g \in Loop : WF_vars(Step(g)) /\ WF_vars(DeadlinePasses(g))

FairSpec == Spec /\ Fairness

----------------------------------------------------------------------------
TypeOK ==
    /\ state \in {Leader, Candidate, Follower}
    /\ killed \in BOOLEAN
    /\ electionResetCh \in BOOLEAN
    /\ pc \in [Loop -> Pc]
    /\ due \in [Loop -> BOOLEAN]

\* No live peer is left without a goroutine that drives it: a leader has a
\* leaderBeatLoop to send heartbeats, any other peer has a loop that is or will
\* become an electionLoop, wherever a role change falls between the loops' checks
\* of GetState() (raft.go:492-496, 718-721, 750-766).
LoopAlive ==
    ~killed => IF state = Leader
               THEN \E g \in Loop : pc[g] = "beat"
               ELSE \E g \in Loop : Running(g)

\* A live follower that hears from no leader does not wait for ever: in the end it
\* runs for leader (raft.go:730-736), also after it has been deposed.
SilentFollowerRuns == []<>(killed \/ state # Follower \/ electionResetCh)

\* After Kill() the election and the beat loops of the peer come to an end, as the
\* comment on Kill() (raft.go:651-661) asks of every long-running loop, though a vote
\* goroutine may still win and spawn another.  (The applier, raft.go:768-792, is not
\* in this module.)
KillStops == killed ~> [](\A g \in Loop : ~Running(g))
============================================================================
