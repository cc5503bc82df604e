---------------------------- MODULE MCRaftStale -----------------------------
(***************************************************************************)
(* Five peers of Raft, of which 1 and 3 take turns as leader.  The whole   *)
(* state space is out of TLC's reach.  Three constraints leave a small     *)
(* part: Links says, term by term, which calls get onto the network (the   *)
(* others are lost), Turns when the next of the two runs for leader, Asked *)
(* who is given which command.  They only remove behaviours: what is found *)
(* is a behaviour of Raft.                                                 *)
(***************************************************************************)
EXTENDS Raft

\* <<term, caller, kind, callees>>
Schedule ==
  {<<1, 1, "vote", {4, 5}>>, <<1, 1, "append", {2}>>,
   <<2, 3, "vote", {4, 5}>>, <<2, 3, "append", {1}>>,
   <<3, 1, "vote", {4, 5}>>, <<3, 1, "append", {4}>>,
   <<4, 3, "vote", {2, 5}>>, <<4, 3, "append", {2, 5}>>}

Links ==
  \A m \in rpcs : \E c \in Schedule :
     c[1] = m.term /\ c[2] = m.from /\ c[3] = m.kind /\ m.to \in c[4]

Turns ==
  /\ \A s \in {2, 4, 5} : state[s] = Follower
  /\ currentTerm[3] > 0 => matchIndex[1][2] = 2  \* 2 acknowledged two entries of 1
  /\ currentTerm[1] = 2 => state[1] = Follower
  /\ currentTerm[1] = 3 => At(log[1], 1).term = 2  \* 1 lost them to 3
  /\ currentTerm[1] < 4
  /\ currentTerm[3] > 2 => lastApplied[1] = 2 /\ currentTerm[1] = 3
  /\ \A m \in rpcs : m.term >= currentTerm[m.from]

\* Commands are numbered for the peer that is asked to agree on them.
Asked ==
  \A s \in Server : \A i \in 2 .. Len(log[s]) :
     log[s][i].cmd = IF log[s][i].term % 2 = 1 THEN 1 ELSE 3
=============================================================================
