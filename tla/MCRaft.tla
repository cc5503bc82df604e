------------------------------- MODULE MCRaft -------------------------------
(* Small instances of Raft for TLC. *)
EXTENDS Raft, TLC

Symmetry == Permutations(Server) \cup Permutations(Command)

\* Prunes the search for a counterexample: some peer is not running for leader.
QuietPeer == \E s \in Server : state[s] = Follower /\ electing[s] = {} /\ led[s] = {}
                                  /\ \A m \in rpcs : m.kind = "vote" => m.from # s

\* Only one peer at a time is between startElection() and the lock of RequestVote.
OneRound == \A s, t \in Server : electing[s] # {} /\ electing[t] # {} => s = t

=============================================================================
