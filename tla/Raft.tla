-------------------------------- MODULE Raft --------------------------------
(***************************************************************************)
(* The Raft peers of raft/raft.go, the RPCs between them over the lossy    *)
(* network of labrpc, and the tester of raft/config.go that restarts peers *)
(* and collects what they apply.                                           *)
(*                                                                         *)
(* One action is one critical section of rf.mu (plus what the goroutine    *)
(* does to its own variables around it).  Time is abstracted: an election  *)
(* timeout, a heartbeat interval and an applier tick may fall anywhere, so *)
(* electionResetCh and the deadlines leave no trace in the state.          *)
(*                                                                         *)
(* rf.log starts with a dummy entry at Go index 0, which the code ships    *)
(* like any other entry when nextIndex is 0.  It is kept here: Go index i  *)
(* is position i + 1 of the sequence (operator At), so the Go length of    *)
(* the log is its TLA+ length.                                             *)
(***************************************************************************)
EXTENDS Integers, Sequences, FiniteSets, FiniteSetsExt

CONSTANTS
    Server,       \* the peers
    Command,      \* what Start() may be asked to agree on
    Nil,          \* voteFor = -1, and the Entry of the dummy log entry
    MaxTerm,      \* bound: no election is started beyond this term
    MaxLog,       \* bound: Start() is not called on a log with more entries
    MaxInFlight,  \* bound: AppendEntries calls of one term outstanding between two peers
    MaxRpcs,      \* bound: calls outstanding in the whole network
    MaxRestart,   \* bound: how often the tester restarts a peer
    Preempt       \* may a role change slip in between "is leader" and the lock
                  \* taken by the goroutine (RequestHeartBeat) or caller (Start)
                  \* that acts on it?

ASSUME ServerAssumption == IsFiniteSet(Server) /\ Nil \notin Server
ASSUME BoundAssumption ==
    /\ MaxTerm \in Nat
    /\ MaxLog \in Nat
    /\ MaxInFlight \in Nat
    /\ MaxRpcs \in Nat
    /\ MaxRestart \in Nat
ASSUME PreemptAssumption == Preempt \in BOOLEAN

VARIABLES
    currentTerm, voteFor, state, log, commitIndex, lastApplied,
    nextIndex, matchIndex,
    led,       \* terms this incarnation of the peer has led (kept under Preempt only)
    electing,  \* startElection() calls that have not reached RequestVote's lock
    tally,     \* votes counted by the goroutines of RequestVote
    rpcs,      \* calls in the network or waiting to be processed by the caller
    logs,      \* the tester's copy of what every peer applied
    restarts

peerVars   == <<currentTerm, voteFor, state>>
logVars    == <<log, commitIndex, lastApplied>>
leaderVars == <<nextIndex, matchIndex>>
testVars   == <<logs, restarts>>
vars == <<peerVars, logVars, leaderVars, led, electing, tally, rpcs, testVars>>

Leader    == 0
Candidate == 1
Follower  == 2

Entry == [cmd : Command \cup {Nil}, term : Nat]
Dummy == [cmd |-> Nil, term |-> 0]

NoDummy  == <<>>        \* mutant: the log starts empty
FreshLog == <<Dummy>>

----------------------------------------------------------------------------
(* The log.                                                                *)

At(l, i) == l[i + 1]
LastIndex(l) == Len(l) - 1

\* The LastLogTerm of a vote request and of the voter: -1 while only the
\* dummy entry is there.
LastTerm(l) == IF Len(l) > 1 THEN At(l, LastIndex(l)).term ELSE -1

\* Mutant: an entry already there is kept, whatever its term.
KeepsConflict(l, prev, es) ==
    IF prev + Len(es) < Len(l)
    THEN l
    ELSE l \o SubSeq(es, Len(l) - prev, Len(es))

\* The log of a follower after the entries es that follow index prev: nothing
\* is cut unless an entry conflicts, and then everything from there on is.
Merge(l, prev, es) ==
    LET fresh == {j \in 1..Len(es) : \/ prev + j >= Len(l)
                                     \/ At(l, prev + j).term # es[j].term}
        j == Min(fresh)
    IN  IF fresh = {} THEN l ELSE SubSeq(l, 1, prev + j) \o SubSeq(es, j, Len(es))

MinOf(a, b) == IF a <= b THEN a ELSE b

HalfIsEnough(n) == n >= Cardinality(Server) \div 2      \* mutant
Majority(n) == n > Cardinality(Server) \div 2

----------------------------------------------------------------------------
Init ==
    /\ currentTerm = [s \in Server |-> 0]
    /\ voteFor     = [s \in Server |-> Nil]
    /\ state       = [s \in Server |-> Follower]
    /\ log         = [s \in Server |-> FreshLog]
    /\ commitIndex = [s \in Server |-> 0]
    /\ lastApplied = [s \in Server |-> 0]
    /\ nextIndex   = [s \in Server |-> [p \in Server |-> 1]]
    /\ matchIndex  = [s \in Server |-> [p \in Server |-> 0]]
    /\ led         = [s \in Server |-> {}]
    /\ electing    = [s \in Server |-> {}]
    /\ tally       = [s \in Server |-> {}]
    /\ rpcs        = {}
    /\ logs        = [s \in Server |-> <<>>]
    /\ restarts    = 0

----------------------------------------------------------------------------
(* Elections.                                                              *)

\* The deadline of an electionLoop has passed.  A round of votes is named by
\* the term its startElection() moves to.  A voteNum counter is never read again
\* once its peer has won or moved to a later term, so it is forgotten then.
startElection(s) ==
    /\ state[s] # Leader
    /\ currentTerm[s] < MaxTerm
    /\ state' = [state EXCEPT ![s] = Candidate]
    /\ currentTerm' = [currentTerm EXCEPT ![s] = @ + 1]
    /\ voteFor' = [voteFor EXCEPT ![s] = s]
    /\ electing' = [electing EXCEPT ![s] = @ \cup {currentTerm'[s]}]
    /\ tally' = [tally EXCEPT ![s] = {}]
    /\ UNCHANGED <<logVars, leaderVars, led, rpcs, testVars>>

\* The arguments are read under the lock a second time: currentTerm may have
\* moved on since startElection() released it, and state may be Follower.
VoteRequest(s, p, r) ==
    [kind |-> "vote", from |-> s, to |-> p, id |-> r, done |-> FALSE,
     term |-> currentTerm[s],
     lastLogIndex |-> LastIndex(log[s]), lastLogTerm |-> LastTerm(log[s])]

\* One goroutine calls each other peer; the calls to P get onto the network and
\* the others are lost at once.
RequestVote(s, r) ==
    /\ r \in electing[s]
    /\ electing' = [electing EXCEPT ![s] = @ \ {r}]
    /\ \E P \in SUBSET (Server \ {s}) :
          /\ Cardinality(rpcs) + Cardinality(P) <= MaxRpcs
          /\ rpcs' = rpcs \cup {VoteRequest(s, p, r) : p \in P}
    /\ UNCHANGED <<peerVars, logVars, leaderVars, led, tally, testVars>>

AnyLog(m, l) == TRUE        \* mutant: the candidate's log is not looked at

\* Is the log that a vote request m describes at least as new as l?
UpToDate(m, l) ==
    \/ Len(l) = 1
    \/ m.lastLogTerm > LastTerm(l)
    \/ m.lastLogTerm = LastTerm(l) /\ m.lastLogIndex >= LastIndex(l)

\* Is a voter whose vote of the term is v (after moving to the term) free to
\* vote for the sender of m?
VotesAgain(m, v) == TRUE    \* mutant
IsFree(m, v) == v \in {Nil, m.from}

\* What the network carries back of a handled call: nothing if the caller has
\* been restarted since (its old ClientEnds are disabled).
Gone == 0
Answer(m, reply) == IF m.id = Gone THEN {} ELSE {reply}

VoteReply(m, t, granted) ==
    [kind |-> "vote", from |-> m.from, to |-> m.to, id |-> m.id, done |-> TRUE,
     term |-> m.term, replyTerm |-> t, granted |-> granted]

\* The handler of a vote request, at its receiver.
RequestVoteReply(m) ==
    LET p     == m.to
        newer == m.term > currentTerm[p]
        term  == IF newer THEN m.term ELSE currentTerm[p]
        voted == IF newer THEN Nil ELSE voteFor[p]
        grant == m.term >= term /\ UpToDate(m, log[p]) /\ IsFree(m, voted)
    IN  /\ m \in rpcs /\ m.kind = "vote" /\ ~m.done
        /\ currentTerm' = [currentTerm EXCEPT ![p] = term]
        /\ voteFor' = [voteFor EXCEPT ![p] = IF grant THEN m.from ELSE voted]
        /\ state' = [state EXCEPT ![p] = IF newer THEN Follower ELSE @]
        /\ rpcs' = (rpcs \ {m}) \cup Answer(m, VoteReply(m, term, grant))
        /\ UNCHANGED <<logVars, leaderVars, led, electing, tally, testVars>>

\* voteNum of round r once the goroutines that called the peers in V counted.
voteNum(V) == 1 + Cardinality(V)

\* The goroutine that made call m gets its answer.
VoteAnswered(m) ==
    LET s     == m.from
        V     == {v \in Server : [round |-> m.id, term |-> m.term, voter |-> v] \in tally[s]}
                    \cup {m.to}
        stale == currentTerm[s] # m.term \/ state[s] # Candidate
        won   == Majority(voteNum(V))
    IN  /\ m \in rpcs /\ m.kind = "vote" /\ m.done
        /\ rpcs' = rpcs \ {m}
        /\ \/ /\ stale \/ (~m.granted /\ m.replyTerm <= currentTerm[s])
              /\ UNCHANGED <<peerVars, nextIndex, led, tally>>
           \/ /\ ~stale /\ m.granted
              /\ IF won
                 THEN /\ state' = [state EXCEPT ![s] = Leader]
                      /\ tally' = [tally EXCEPT ![s] = {}]
                      /\ led' = [led EXCEPT ![s] = IF Preempt THEN @ \cup {m.term} ELSE @]
                      /\ nextIndex' = [nextIndex EXCEPT ![s] = [p \in Server |-> Len(log[s])]]
                 ELSE /\ tally' = [tally EXCEPT ![s] =
                             @ \cup {[round |-> m.id, term |-> m.term, voter |-> m.to]}]
                      /\ UNCHANGED <<state, led, nextIndex>>
              /\ UNCHANGED <<currentTerm, voteFor>>
           \/ /\ ~stale /\ ~m.granted /\ m.replyTerm > currentTerm[s]
              /\ currentTerm' = [currentTerm EXCEPT ![s] = m.replyTerm]
              /\ voteFor' = [voteFor EXCEPT ![s] = Nil]
              /\ state' = [state EXCEPT ![s] = Follower]
              /\ UNCHANGED <<nextIndex, led, tally>>
        /\ UNCHANGED <<logVars, matchIndex, electing, testVars>>

----------------------------------------------------------------------------
(* Replication.                                                            *)

AppendCalls(s, p) ==
    {m \in rpcs : m.kind = "append" /\ m.from = s /\ m.to = p /\ m.term = currentTerm[s]}

\* The terms in which somebody found peer s leading and may only now act on it:
\* a goroutine of RequestHeartBeat, or a caller of Start() after its GetState().
\* Neither looks at rf.state again under the lock.
actsFor(s) ==
    IF Preempt THEN led[s] ELSE IF state[s] = Leader THEN {currentTerm[s]} ELSE {}

AppendRequest(s, p, k) ==
    LET n     == nextIndex[s][p]
        idle  == LastIndex(log[s]) < n
        known == idle \/ n > 1
    IN  [kind |-> "append", from |-> s, to |-> p, id |-> k, done |-> FALSE,
         term |-> currentTerm[s], leaderCommit |-> commitIndex[s],
         prevLogIndex |-> IF known THEN n - 1 ELSE 0,
         prevLogTerm |-> IF known THEN At(log[s], n - 1).term ELSE -1,
         entries |-> IF idle THEN <<>> ELSE SubSeq(log[s], n + 1, Len(log[s]))]

\* Outside 0..len(rf.log) the slice expressions of RequestHeartBeat panic.
RequestHeartBeat(s, p) ==
    LET free == (1..MaxInFlight) \ {m.id : m \in AppendCalls(s, p)}
    IN  /\ s # p
        /\ actsFor(s) # {}
        /\ free # {}
        /\ Cardinality(rpcs) < MaxRpcs
        /\ nextIndex[s][p] \in 0..Len(log[s])
        /\ rpcs' = rpcs \cup {AppendRequest(s, p, Min(free))}
        /\ UNCHANGED <<peerVars, logVars, leaderVars, led, electing, tally, testVars>>

\* Does the receiver's log l hold what the request expects before the entries?
PrevMatches(m, l) ==
    \/ m.entries # <<>> /\ m.prevLogIndex = 0
    \/ /\ m.prevLogIndex <= LastIndex(l)
       /\ At(l, m.prevLogIndex).term = m.prevLogTerm

AppendReply(m, t, success) ==
    [kind |-> "append", from |-> m.from, to |-> m.to, id |-> m.id, done |-> TRUE,
     term |-> m.term, prevLogIndex |-> m.prevLogIndex, count |-> Len(m.entries),
     replyTerm |-> t, success |-> success]

\* Mutant: the leader's commitIndex is taken over without a look at the log.
TrustsLeader(m, ok, l, c) == IF m.leaderCommit > c THEN m.leaderCommit ELSE c

\* The commitIndex of a follower (c so far) whose log is l after request m.  A
\* heartbeat only ever raises it; a request with entries assigns it, so that a
\* late one may lower it.
CommitAfter(m, ok, l, c) ==
    IF ok /\ (m.entries # <<>> \/ m.leaderCommit > c)
    THEN MinOf(m.leaderCommit, LastIndex(l))
    ELSE c

\* The handler of AppendEntries.
RequestAppendEntriesReply(m) ==
    LET p    == m.to
        old  == m.term < currentTerm[p]
        ok   == ~old /\ PrevMatches(m, log[p])
        new  == IF ok THEN Merge(log[p], m.prevLogIndex, m.entries) ELSE log[p]
    IN  /\ m \in rpcs /\ m.kind = "append" /\ ~m.done
        /\ IF old
           THEN UNCHANGED peerVars
           ELSE /\ currentTerm' = [currentTerm EXCEPT ![p] = m.term]
                /\ voteFor' = [voteFor EXCEPT ![p] = m.from]
                /\ state' = [state EXCEPT ![p] = Follower]
        /\ log' = [log EXCEPT ![p] = new]
        /\ commitIndex' = [commitIndex EXCEPT ![p] = CommitAfter(m, ok, new, @)]
        /\ rpcs' = (rpcs \ {m}) \cup Answer(m, AppendReply(m, currentTerm'[p], ok))
        /\ UNCHANGED <<lastApplied, leaderVars, led, electing, tally, testVars>>

\* Has index c, not yet committed, been acknowledged by a majority?
Acknowledged(s, c, match) ==
    /\ commitIndex[s] < c
    /\ Majority(1 + Cardinality({p \in Server \ {s} : match[p] >= c}))

Commits(s, c, match) == Acknowledged(s, c, match) /\ At(log[s], c).term = currentTerm[s]

\* The goroutine that made call m gets its answer.  It checks that the term is
\* still the one it called in, not that its peer still leads.
AppendAnswered(m) ==
    LET s     == m.from
        p     == m.to
        last  == m.prevLogIndex + m.count
        acked == m.count > 0 /\ m.success
        match == [matchIndex[s] EXCEPT ![p] = last]
        stale == currentTerm[s] # m.term
        newer == m.replyTerm > currentTerm[s]
    IN  /\ m \in rpcs /\ m.kind = "append" /\ m.done
        /\ rpcs' = rpcs \ {m}
        /\ \/ /\ stale \/ (~newer /\ m.count = 0 /\ m.success)
              /\ UNCHANGED <<peerVars, leaderVars, commitIndex>>
           \/ /\ ~stale /\ newer
              /\ currentTerm' = [currentTerm EXCEPT ![s] = m.replyTerm]
              /\ voteFor' = [voteFor EXCEPT ![s] = Nil]
              /\ state' = [state EXCEPT ![s] = Follower]
              /\ UNCHANGED <<leaderVars, commitIndex>>
           \/ /\ ~stale /\ ~newer /\ acked
              /\ Acknowledged(s, last, match) => last <= LastIndex(log[s])  \* else rf.log[cmt] panics
              /\ nextIndex' = [nextIndex EXCEPT ![s][p] = last + 1]
              /\ matchIndex' = [matchIndex EXCEPT ![s] = match]
              /\ commitIndex' = [commitIndex EXCEPT ![s] =
                                    IF Commits(s, last, match) THEN last ELSE @]
              /\ UNCHANGED peerVars
           \/ /\ ~stale /\ ~newer /\ ~m.success
              /\ nextIndex' = [nextIndex EXCEPT ![s][p] = @ - 1]
              /\ UNCHANGED <<peerVars, matchIndex, commitIndex>>
        /\ UNCHANGED <<log, lastApplied, led, electing, tally, testVars>>

\* Start() asks GetState() for the term and takes the lock again to append.
Start(s, c) ==
    \E t \in actsFor(s) :
        /\ LastIndex(log[s]) < MaxLog
        /\ log' = [log EXCEPT ![s] = Append(@, [cmd |-> c, term |-> t])]
        /\ UNCHANGED <<peerVars, commitIndex, lastApplied, leaderVars, led,
                       electing, tally, rpcs, testVars>>

\* One tick of the applier, and the tester's reader of applyCh.
applier(s) ==
    /\ commitIndex[s] > lastApplied[s]
    /\ lastApplied' = [lastApplied EXCEPT ![s] = @ + 1]
    /\ logs' = [logs EXCEPT ![s] =
                   [i \in DOMAIN @ \cup {lastApplied'[s]} |->
                       IF i = lastApplied'[s] THEN At(log[s], i).cmd ELSE @[i]]]
    /\ UNCHANGED <<peerVars, log, commitIndex, leaderVars, led, electing, tally,
                   rpcs, restarts>>

----------------------------------------------------------------------------
(* The environment.                                                        *)

\* The network loses a request or a reply: the call returns false and its
\* goroutine ends without touching the peer.
Lose(m) ==
    /\ m \in rpcs
    /\ rpcs' = rpcs \ {m}
    /\ UNCHANGED <<peerVars, logVars, leaderVars, led, electing, tally, testVars>>

\* The tester kills peer s and makes a new one from what the old one persisted.
\* persist() and readPersist() are empty, so that is nothing.  Requests of the old
\* peer that are under way still reach their receivers, but no answer comes back;
\* calls to s and answers of s may still arrive.
start1(s) ==
    /\ restarts < MaxRestart
    /\ restarts' = restarts + 1
    /\ currentTerm' = [currentTerm EXCEPT ![s] = 0]
    /\ voteFor' = [voteFor EXCEPT ![s] = Nil]
    /\ state' = [state EXCEPT ![s] = Follower]
    /\ log' = [log EXCEPT ![s] = FreshLog]
    /\ commitIndex' = [commitIndex EXCEPT ![s] = 0]
    /\ lastApplied' = [lastApplied EXCEPT ![s] = 0]
    /\ nextIndex' = [nextIndex EXCEPT ![s] = [p \in Server |-> 1]]
    /\ matchIndex' = [matchIndex EXCEPT ![s] = [p \in Server |-> 0]]
    /\ led' = [led EXCEPT ![s] = {}]
    /\ electing' = [electing EXCEPT ![s] = {}]
    /\ tally' = [tally EXCEPT ![s] = {}]
    /\ rpcs' = {m \in rpcs : m.from # s}
                   \cup {[m EXCEPT !.id = Gone] : m \in {c \in rpcs : c.from = s /\ ~c.done}}
    /\ UNCHANGED logs

Next ==
    \/ \E s \in Server :
          \/ startElection(s)
          \/ \E r \in electing[s] : RequestVote(s, r)
          \/ \E p \in Server : RequestHeartBeat(s, p)
          \/ \E c \in Command : Start(s, c)
          \/ applier(s)
          \/ start1(s)
    \/ \E m \in rpcs :
          \/ RequestVoteReply(m)
          \/ VoteAnswered(m)
          \/ RequestAppendEntriesReply(m)
          \/ AppendAnswered(m)
          \/ Lose(m)

Spec == Init /\ [][Next]_vars

----------------------------------------------------------------------------
(* What the peers promise.                                                 *)

VoteCall ==
    [kind : {"vote"}, from : Server, to : Server, id : Nat, done : {FALSE},
     term : Nat, lastLogIndex : Nat, lastLogTerm : Int]
VoteDone ==
    [kind : {"vote"}, from : Server, to : Server, id : Nat, done : {TRUE},
     term : Nat, replyTerm : Nat, granted : BOOLEAN]
AppendCall ==
    [kind : {"append"}, from : Server, to : Server, id : Nat, done : {FALSE},
     term : Nat, leaderCommit : Nat, prevLogIndex : Nat, prevLogTerm : Int,
     entries : Seq(Entry)]
AppendDone ==
    [kind : {"append"}, from : Server, to : Server, id : Nat, done : {TRUE},
     term : Nat, prevLogIndex : Nat, count : Nat, replyTerm : Nat,
     success : BOOLEAN]
Message == VoteCall \cup VoteDone \cup AppendCall \cup AppendDone

\* Every variable keeps its type: in particular the slice expressions of
\* RequestHeartBeat (raft.go:201-216) only ever build entries and indices that exist.
TypeOK ==
    /\ currentTerm \in [Server -> Nat]
    /\ voteFor \in [Server -> Server \cup {Nil}]
    /\ state \in [Server -> {Leader, Candidate, Follower}]
    /\ log \in [Server -> Seq(Entry) \ {<<>>}]
    /\ commitIndex \in [Server -> Nat]
    /\ lastApplied \in [Server -> Nat]
    /\ nextIndex \in [Server -> [Server -> Int]]
    /\ matchIndex \in [Server -> [Server -> Nat]]
    /\ led \in [Server -> SUBSET Nat]
    /\ electing \in [Server -> SUBSET Nat]
    /\ tally \in [Server -> SUBSET [round : Nat, term : Nat, voter : Server]]
    /\ rpcs \subseteq Message
    /\ restarts \in Nat

\* No term has two leaders: two peers that GetState() says lead do so in
\* different terms (checkOneLeader, config.go:317-320).
ElectionSafety ==
    \A s, t \in Server :
        state[s] = Leader /\ state[t] = Leader /\ currentTerm[s] = currentTerm[t] => s = t

\* What is committed is in the log: the applier (raft.go:774-780) never indexes
\* past rf.log, though a follower's log is cut on conflicts, also below its
\* commitIndex.  This does not depend on how goroutines and restarts fall.
CommitInLog == \A s \in Server : commitIndex[s] < Len(log[s])

\* Two things the code takes for granted and does not ensure.  Two rejections of
\* one follower each take one off nextIndex (254, 257) and may bring it to 0, from
\* where the dummy entry is shipped.  And matchIndex is not reset by an election
\* (497-499): a former leader whose log was cut may run with one that reaches past it.
NextIndexPositive == \A s, p \in Server : state[s] = Leader => nextIndex[s][p] >= 1
MatchInLog == \A s, p \in Server : state[s] = Candidate => matchIndex[s][p] < Len(log[s])

\* What a peer knows to be committed is in the log of every leader of its term or
\* a later one: elections (the test of 555) and the commit rule (237-252) together.
LeaderCompleteness ==
    \A s, t \in Server :
        state[s] = Leader /\ currentTerm[s] >= currentTerm[t] =>
            /\ commitIndex[t] < Len(log[s])
            /\ \A i \in 1..commitIndex[t] : At(log[s], i) = At(log[t], i)

\* No two peers apply different commands at an index: the test of the tester's
\* reader of applyCh (config.go:177-183).
ApplyAgree ==
    \A s, t \in Server : \A i \in DOMAIN logs[s] \cap DOMAIN logs[t] :
        logs[s][i] = logs[t][i]

\* Terms never go back, and in a term a peer gives its vote to at most one peer
\* that can still be elected in it: voteFor only moves on to a peer that is no
\* longer a candidate of the term (an AppendEntries overwrites it, 306 and 333).
VoteOnce ==
    [][\A s \in Server :
          \/ currentTerm'[s] > currentTerm[s]
          \/ /\ currentTerm'[s] = currentTerm[s]
             /\ voteFor[s] # Nil => voteFor'[s] # Nil
             /\ voteFor[s] \notin {Nil, voteFor'[s]} =>
                    \/ state[voteFor'[s]] # Candidate
                    \/ currentTerm[voteFor'[s]] # currentTerm[s]]_vars

=============================================================================
