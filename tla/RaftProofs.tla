----------------------------- MODULE RaftProofs -----------------------------
(***************************************************************************)
(* Proofs about Raft, for every number of peers, commands and terms.       *)
(***************************************************************************)
EXTENDS Raft, FiniteSetTheorems, NaturalsInduction, WellFoundedInduction, TLAPS

USE DEF Leader, Candidate, Follower

----------------------------------------------------------------------------
(* Types.                                                                  *)

LEMMA MessageKinds ==
    ASSUME NEW m \in Message
    PROVE  /\ m.from \in Server /\ m.to \in Server /\ m.id \in Nat /\ m.term \in Nat
           /\ m.kind = "vote" /\ ~m.done => m \in VoteCall
           /\ m.kind = "vote" /\ m.done => m \in VoteDone
           /\ m.kind = "append" /\ ~m.done => m \in AppendCall
           /\ m.kind = "append" /\ m.done => m \in AppendDone
BY DEF Message, VoteCall, VoteDone, AppendCall, AppendDone

\* An update keeps the type of a function.
LEMMA UpdateType ==
    ASSUME NEW S, NEW T, NEW f \in [S -> T], NEW x \in S, NEW v \in T
    PROVE  [f EXCEPT ![x] = v] \in [S -> T]
OBVIOUS

\* What is left of a sequence after its first n elements is one.
LEMMA TailType ==
    ASSUME NEW S, NEW l \in Seq(S), NEW n \in Nat
    PROVE  SubSeq(l, n + 1, Len(l)) \in Seq(S)
OBVIOUS

\* The entries at the indices of a log are entries.
LEMMA AtType ==
    ASSUME NEW l \in Seq(Entry), NEW i \in 0..(Len(l) - 1)
    PROVE  At(l, i) \in Entry /\ At(l, i).term \in Nat
<1>1. At(l, i) \in Entry
    BY DEF At
<1> QED
    BY <1>1 DEF Entry

LEMMA LastTermType ==
    ASSUME NEW l \in Seq(Entry)
    PROVE  LastTerm(l) \in Int
<1>1. CASE Len(l) > 1
    <2>1. At(l, LastIndex(l)).term \in Nat
        BY <1>1, AtType DEF LastIndex
    <2> QED
        BY <1>1, <2>1 DEF LastTerm
<1>2. CASE ~(Len(l) > 1)
    BY <1>2 DEF LastTerm
<1> QED
    BY <1>1, <1>2

\* A nonempty set of naturals has a smallest member.
LEMMA MinInSet ==
    ASSUME NEW S, S \subseteq Nat, S # {}
    PROVE  Min(S) \in S /\ \A j \in S : Min(S) <= j
<1> DEFINE R == {ss \in Nat \X Nat : ss[1] < ss[2]}
<1>1. IsWellFoundedOn(R, Nat)
    BY NatLessThanWellFounded DEF OpToRel
<1>2. PICK x \in S : \A y \in S : ~(<<y, x>> \in R)
    <2> HIDE DEF R
    <2> QED BY <1>1, WFMin
<1>3. ASSUME NEW y \in S PROVE x <= y
    <2>1. y < x => <<y, x>> \in R
        OBVIOUS
    <2> QED
        BY <1>2, <2>1
<1> QED
    BY <1>3 DEF Min

\* What a follower's log becomes is a log, and never an empty one.
LEMMA MergeType ==
    ASSUME NEW l \in Seq(Entry) \ {<<>>}, NEW prev \in Nat, NEW es \in Seq(Entry),
           prev < Len(l)
    PROVE  /\ Merge(l, prev, es) \in Seq(Entry) \ {<<>>}
           /\ es = <<>> => Merge(l, prev, es) = l
<1> DEFINE fresh == {j \in 1..Len(es) : \/ prev + j >= Len(l)
                                        \/ At(l, prev + j).term # es[j].term}
           k == Min(fresh)
<1>1. CASE fresh = {}
    BY <1>1 DEF Merge
<1>2. CASE fresh # {}
    <2>1. k \in fresh /\ \A j \in fresh : k <= j
        <3>1. fresh \subseteq Nat /\ fresh # {}
            BY <1>2
        <3> QED
            BY <3>1, MinInSet
    <2>2. k \in 1..Len(es) /\ prev + k <= Len(l)
        <3>1. CASE k = 1
            BY <2>1, <3>1
        <3>2. CASE k # 1
            <4>1. k - 1 \in 1..Len(es) /\ k - 1 \notin fresh
                BY <2>1, <3>2
            <4> QED
                BY <2>1, <4>1
        <3> QED
            BY <3>1, <3>2
    <2> HIDE DEF k
    <2>3. SubSeq(l, 1, prev + k) \in Seq(Entry) /\ Len(SubSeq(l, 1, prev + k)) = prev + k
        BY <2>2
    <2>4. SubSeq(es, k, Len(es)) \in Seq(Entry)
        BY <2>2
    <2>5. Merge(l, prev, es) = SubSeq(l, 1, prev + k) \o SubSeq(es, k, Len(es))
        BY <1>2 DEF Merge, k
    <2>6. es # <<>>
        BY <2>2
    <2>7. Len(Merge(l, prev, es)) >= prev + k /\ Merge(l, prev, es) \in Seq(Entry)
        BY <2>2, <2>3, <2>4, <2>5
    <2> QED
        BY <2>2, <2>6, <2>7
<1> QED
    BY <1>1, <1>2

----------------------------------------------------------------------------
(* The type invariant, together with CommitInLog, which it needs for the   *)
(* entry a leader looks at before it commits and which needs it in turn.   *)

Sound == TypeOK /\ CommitInLog

\* A step of startElection, RequestVote, RequestHeartBeat, Start, applier, the
\* network or the tester keeps the types and the commit index within the log.
LEMMA SoundInit == Init => Sound
<1> SUFFICES ASSUME Init PROVE Sound
    OBVIOUS
<1>1. Dummy \in Entry
    BY DEF Dummy, Entry
<1>2. FreshLog \in Seq(Entry) \ {<<>>} /\ Len(FreshLog) = 1
    BY <1>1 DEF FreshLog
<1> HIDE DEF FreshLog
<1>3. TypeOK
    BY <1>2 DEF Init, TypeOK
<1>4. CommitInLog
    BY <1>2 DEF Init, CommitInLog
<1> QED
    BY <1>3, <1>4 DEF Sound

LEMMA SoundElection ==
    ASSUME Sound, NEW s \in Server, startElection(s)
    PROVE  Sound'
BY DEF Sound, TypeOK, CommitInLog, startElection, logVars, leaderVars, testVars

LEMMA SoundRequestVote ==
    ASSUME Sound, NEW s \in Server, NEW r \in electing[s], RequestVote(s, r)
    PROVE  Sound'
<1> USE DEF Sound, TypeOK, CommitInLog
<1>1. ASSUME NEW p \in Server PROVE VoteRequest(s, p, r) \in Message
    <2>1. LastTerm(log[s]) \in Int /\ LastIndex(log[s]) \in Nat
        BY LastTermType DEF LastIndex
    <2>2. VoteRequest(s, p, r) \in VoteCall
        BY <2>1 DEF VoteRequest, VoteCall
    <2> QED
        BY <2>2 DEF Message
<1>2. rpcs' \subseteq Message
    BY <1>1 DEF RequestVote
<1> QED
    BY <1>2 DEF RequestVote, peerVars, logVars, leaderVars, testVars

LEMMA SoundHeartBeat ==
    ASSUME Sound, NEW s \in Server, NEW p \in Server, RequestHeartBeat(s, p)
    PROVE  Sound'
<1> USE DEF Sound, TypeOK, CommitInLog
<1> DEFINE free == (1..MaxInFlight) \ {m.id : m \in AppendCalls(s, p)}
           k == Min(free)
           n == nextIndex[s][p]
<1>1. k \in Nat
    <2>1. free \subseteq Nat
        BY BoundAssumption
    <2>2. free # {}
        BY Zenon DEF RequestHeartBeat
    <2> QED
        BY <2>1, <2>2, MinInSet
<1> HIDE DEF k
<1>2. n \in 0..Len(log[s]) /\ log[s] \in Seq(Entry) /\ Len(log[s]) >= 1
    BY DEF RequestHeartBeat
<1>3. \A i \in 0..(Len(log[s]) - 1) : At(log[s], i).term \in Nat
    BY <1>2, AtType
<1>4. SubSeq(log[s], n + 1, Len(log[s])) \in Seq(Entry)
    <2>1. n \in Nat
        BY <1>2
    <2> HIDE DEF n
    <2> QED
        BY <1>2, <2>1, TailType
<1> DEFINE idle == LastIndex(log[s]) < n
           prev == IF idle \/ n > 1 THEN n - 1 ELSE 0
           pterm == IF idle \/ n > 1 THEN At(log[s], n - 1).term ELSE -1
           es == IF idle THEN <<>> ELSE SubSeq(log[s], n + 1, Len(log[s]))
<1>5. prev \in Nat /\ pterm \in Int /\ es \in Seq(Entry)
    <2>1. idle => n = Len(log[s])
        BY <1>2, SMTT(30) DEF LastIndex
    <2>2. idle \/ n > 1 => n - 1 \in 0..(Len(log[s]) - 1)
        BY <1>2, <2>1, SMTT(30)
    <2>3. -1 \in Int /\ \A i \in Nat : i \in Int
        OBVIOUS
    <2> HIDE DEF idle, n
    <2>4. prev \in Nat
        BY <2>2
    <2>5. pterm \in Int
        BY <1>3, <2>2, <2>3
    <2>6. es \in Seq(Entry)
        BY <1>4
    <2> QED
        BY <2>4, <2>5, <2>6
<1>6. AppendRequest(s, p, k) =
        [kind |-> "append", from |-> s, to |-> p, id |-> k, done |-> FALSE,
         term |-> currentTerm[s], leaderCommit |-> commitIndex[s],
         prevLogIndex |-> prev, prevLogTerm |-> pterm, entries |-> es]
    BY DEF AppendRequest
<1>7. AppendRequest(s, p, k) \in AppendCall
    <2> HIDE DEF prev, pterm, es
    <2> QED
        BY <1>1, <1>5, <1>6 DEF AppendCall
<1>8. rpcs' = rpcs \cup {AppendRequest(s, p, k)}
    BY Zenon DEF RequestHeartBeat, k
<1>9. rpcs' \subseteq Message
    BY <1>7, <1>8 DEF Message
<1> QED
    BY <1>9 DEF RequestHeartBeat, peerVars, logVars, leaderVars, testVars

LEMMA SoundStart ==
    ASSUME Sound, NEW s \in Server, NEW c \in Command, Start(s, c)
    PROVE  Sound'
<1> USE DEF Sound, TypeOK, CommitInLog
<1>1. PICK t \in actsFor(s) : log' = [log EXCEPT ![s] = Append(@, [cmd |-> c, term |-> t])]
    BY DEF Start
<1>2. t \in Nat
    BY <1>1 DEF actsFor
<1>3. [cmd |-> c, term |-> t] \in Entry
    BY <1>2 DEF Entry
<1>4. /\ Append(log[s], [cmd |-> c, term |-> t]) \in Seq(Entry)
      /\ Len(Append(log[s], [cmd |-> c, term |-> t])) = Len(log[s]) + 1
    BY <1>3
<1>5. /\ log' \in [Server -> Seq(Entry) \ {<<>>}]
      /\ \A q \in Server : Len(log[q]) <= Len(log'[q])
    BY <1>1, <1>4
<1>6. UNCHANGED <<peerVars, commitIndex, lastApplied, leaderVars, led, electing,
                  tally, rpcs, testVars>>
    BY DEF Start
<1>7. TypeOK'
    BY <1>5, <1>6 DEF peerVars, leaderVars, testVars
<1>8. ASSUME NEW q \in Server PROVE commitIndex'[q] < Len(log'[q])
    <2>1. commitIndex[q] \in Nat /\ Len(log[q]) \in Nat /\ Len(log'[q]) \in Nat
        BY <1>5, SMTT(30)
    <2> QED
        BY <1>5, <1>6, <2>1
<1> QED
    BY <1>7, <1>8

LEMMA SoundApplier ==
    ASSUME Sound, NEW s \in Server, applier(s)
    PROVE  Sound'
BY DEF Sound, TypeOK, CommitInLog, applier, peerVars, leaderVars

LEMMA SoundLose ==
    ASSUME Sound, NEW m \in rpcs, Lose(m)
    PROVE  Sound'
BY DEF Sound, TypeOK, CommitInLog, Lose, peerVars, logVars, leaderVars, testVars

LEMMA SoundRestart ==
    ASSUME Sound, NEW s \in Server, start1(s)
    PROVE  Sound'
<1> USE DEF Sound, TypeOK, CommitInLog
<1>1. FreshLog \in Seq(Entry) \ {<<>>} /\ Len(FreshLog) = 1
    BY DEF FreshLog, Dummy, Entry
<1>2. ASSUME NEW m \in rpcs, ~m.done PROVE [m EXCEPT !.id = Gone] \in Message
    <2>1. m \in VoteCall \/ m \in AppendCall
        BY <1>2 DEF Message, VoteDone, AppendDone
    <2>2. CASE m \in VoteCall
        BY <2>2 DEF Message, VoteCall, Gone
    <2>3. CASE m \in AppendCall
        BY <2>3 DEF Message, AppendCall, Gone
    <2> QED
        BY <2>1, <2>2, <2>3
<1>3. rpcs' \subseteq Message
    BY <1>2, Zenon DEF start1
<1> HIDE DEF FreshLog
<1>4. /\ restarts' = restarts + 1
      /\ currentTerm' = [currentTerm EXCEPT ![s] = 0]
      /\ voteFor' = [voteFor EXCEPT ![s] = Nil]
      /\ state' = [state EXCEPT ![s] = Follower]
      /\ log' = [log EXCEPT ![s] = FreshLog]
      /\ commitIndex' = [commitIndex EXCEPT ![s] = 0]
      /\ lastApplied' = [lastApplied EXCEPT ![s] = 0]
      /\ nextIndex' = [nextIndex EXCEPT ![s] = [p \in Server |-> 1]]
      /\ matchIndex' = [matchIndex EXCEPT ![s] = [p \in Server |-> 0]]
      /\ led' = [led EXCEPT ![s] = {}]
      /\ electing' = [electing EXCEPT ![s] = {}]
      /\ tally' = [tally EXCEPT ![s] = {}]
    BY Zenon DEF start1
<1>5. nextIndex' \in [Server -> [Server -> Int]] /\ matchIndex' \in [Server -> [Server -> Nat]]
    BY <1>4, SMTT(30)
<1>6. log' \in [Server -> Seq(Entry) \ {<<>>}]
    BY <1>1, <1>4
<1>7. /\ currentTerm' \in [Server -> Nat]
      /\ voteFor' \in [Server -> Server \cup {Nil}]
      /\ state' \in [Server -> {Leader, Candidate, Follower}]
      /\ commitIndex' \in [Server -> Nat]
      /\ lastApplied' \in [Server -> Nat]
      /\ restarts' \in Nat
    BY <1>4
<1>8. /\ led' \in [Server -> SUBSET Nat]
      /\ electing' \in [Server -> SUBSET Nat]
      /\ tally' \in [Server -> SUBSET [round : Nat, term : Nat, voter : Server]]
    BY <1>4
<1>9. TypeOK'
    BY <1>3, <1>5, <1>6, <1>7, <1>8
<1>10. CommitInLog'
    BY <1>1, <1>4
<1> QED
    BY <1>9, <1>10

LEMMA SoundVoteHandler ==
    ASSUME Sound, NEW m \in rpcs, RequestVoteReply(m)
    PROVE  Sound'
<1> USE DEF Sound, TypeOK, CommitInLog
<1>1. m \in VoteCall
    BY MessageKinds DEF RequestVoteReply
<1> DEFINE p     == m.to
           newer == m.term > currentTerm[p]
           term  == IF newer THEN m.term ELSE currentTerm[p]
           voted == IF newer THEN Nil ELSE voteFor[p]
           grant == m.term >= term /\ UpToDate(m, log[p]) /\ IsFree(m, voted)
<1>2. /\ currentTerm' = [currentTerm EXCEPT ![p] = term]
      /\ voteFor' = [voteFor EXCEPT ![p] = IF grant THEN m.from ELSE voted]
      /\ state' = [state EXCEPT ![p] = IF newer THEN Follower ELSE @]
      /\ rpcs' = (rpcs \ {m}) \cup Answer(m, VoteReply(m, term, grant))
      /\ UNCHANGED <<logVars, leaderVars, led, electing, tally, testVars>>
    BY Zenon DEF RequestVoteReply
<1>3. m.from \in Server /\ p \in Server /\ m.id \in Nat /\ m.term \in Nat
    BY <1>1 DEF VoteCall
<1>4. term \in Nat /\ voted \in Server \cup {Nil} /\ grant \in BOOLEAN
    BY <1>3 DEF UpToDate, IsFree
<1> HIDE DEF newer, term, voted, grant, p
<1>5. VoteReply(m, term, grant) \in Message
    <2>1. VoteReply(m, term, grant) \in VoteDone
        BY <1>3, <1>4 DEF VoteReply, VoteDone, p
    <2> QED
        BY <2>1 DEF Message
<1>6. rpcs' \subseteq Message
    BY <1>2, <1>5 DEF Answer
<1>7. TypeOK'
    BY <1>2, <1>3, <1>4, <1>6 DEF logVars, leaderVars, testVars
<1>8. CommitInLog'
    BY <1>2 DEF logVars
<1> QED
    BY <1>7, <1>8

LEMMA SoundVoteAnswered ==
    ASSUME Sound, NEW m \in rpcs, VoteAnswered(m)
    PROVE  Sound'
<1> USE DEF Sound, TypeOK, CommitInLog
<1>1. m \in VoteDone
    BY MessageKinds DEF VoteAnswered
<1>2. /\ m.from \in Server /\ m.to \in Server /\ m.id \in Nat /\ m.term \in Nat
      /\ m.replyTerm \in Nat
    BY <1>1 DEF VoteDone
<1>3. rpcs' \subseteq Message
    BY DEF VoteAnswered
<1>4. UNCHANGED <<logVars, matchIndex, electing, testVars>>
    BY Zenon DEF VoteAnswered
<1>5. [round |-> m.id, term |-> m.term, voter |-> m.to] \in
            [round : Nat, term : Nat, voter : Server]
    BY <1>2
<1>6. Len(log[m.from]) \in Int
    BY <1>2
<1>7. /\ currentTerm' = currentTerm \/ currentTerm' = [currentTerm EXCEPT ![m.from] = m.replyTerm]
      /\ voteFor' = voteFor \/ voteFor' = [voteFor EXCEPT ![m.from] = Nil]
      /\ \/ state' = state
         \/ state' = [state EXCEPT ![m.from] = Leader]
         \/ state' = [state EXCEPT ![m.from] = Follower]
      /\ \/ led' = led
         \/ led' = [led EXCEPT ![m.from] = IF Preempt THEN @ \cup {m.term} ELSE @]
      /\ \/ nextIndex' = nextIndex
         \/ nextIndex' = [nextIndex EXCEPT ![m.from] = [p \in Server |-> Len(log[m.from])]]
      /\ \/ tally' = tally
         \/ tally' = [tally EXCEPT ![m.from] = {}]
         \/ tally' = [tally EXCEPT ![m.from] =
                         @ \cup {[round |-> m.id, term |-> m.term, voter |-> m.to]}]
    BY Zenon DEF VoteAnswered, peerVars
<1>8. currentTerm' \in [Server -> Nat] /\ voteFor' \in [Server -> Server \cup {Nil}]
        /\ state' \in [Server -> {Leader, Candidate, Follower}]
    BY <1>2, <1>7, ZenonT(60)
<1>9. led' \in [Server -> SUBSET Nat] /\ nextIndex' \in [Server -> [Server -> Int]]
    <2>1. (IF Preempt THEN led[m.from] \cup {m.term} ELSE led[m.from]) \in SUBSET Nat
        BY <1>2
    <2>2. [p \in Server |-> Len(log[m.from])] \in [Server -> Int]
        BY <1>6
    <2>3. led' \in [Server -> SUBSET Nat]
        BY <1>2, <1>7, <2>1, UpdateType, Zenon
    <2> DEFINE next == [p \in Server |-> Len(log[m.from])]
    <2>4. nextIndex' \in [Server -> [Server -> Int]]
        <3>1. nextIndex' = nextIndex \/ nextIndex' = [nextIndex EXCEPT ![m.from] = next]
            BY <1>7, Zenon
        <3>2. next \in [Server -> Int]
            BY <2>2
        <3> HIDE DEF next
        <3> QED
            BY <1>2, <3>1, <3>2, UpdateType, ZenonT(60)
    <2> QED
        BY <2>3, <2>4
<1>10. tally' \in [Server -> SUBSET [round : Nat, term : Nat, voter : Server]]
    <2> DEFINE Ballot == [round : Nat, term : Nat, voter : Server]
               b == [round |-> m.id, term |-> m.term, voter |-> m.to]
    <2>1. tally[m.from] \subseteq Ballot
        BY <1>2
    <2> HIDE DEF Ballot, b
    <2>2. b \in Ballot
        BY <1>5 DEF Ballot, b
    <2>3. {} \in SUBSET Ballot /\ tally[m.from] \cup {b} \in SUBSET Ballot
        BY <2>1, <2>2
    <2>4. tally \in [Server -> SUBSET Ballot]
        BY DEF Ballot
    <2>5. \/ tally' = tally
          \/ tally' = [tally EXCEPT ![m.from] = {}]
          \/ tally' = [tally EXCEPT ![m.from] = tally[m.from] \cup {b}]
        BY <1>7, Zenon DEF b
    <2>6. tally' \in [Server -> SUBSET Ballot]
        BY <1>2, <2>3, <2>4, <2>5, UpdateType, Zenon
    <2> QED
        BY <2>6 DEF Ballot
<1>11. TypeOK'
    BY <1>3, <1>4, <1>8, <1>9, <1>10 DEF logVars, testVars
<1>12. CommitInLog'
    BY <1>4 DEF logVars
<1> QED
    BY <1>11, <1>12

LEMMA SoundAppendHandler ==
    ASSUME Sound, NEW m \in rpcs, RequestAppendEntriesReply(m)
    PROVE  Sound'
<1> USE DEF Sound, TypeOK, CommitInLog
<1>1. m \in AppendCall
    BY MessageKinds DEF RequestAppendEntriesReply
<1> DEFINE p   == m.to
           old == m.term < currentTerm[p]
           ok  == ~old /\ PrevMatches(m, log[p])
           new == IF ok THEN Merge(log[p], m.prevLogIndex, m.entries) ELSE log[p]
           c   == CommitAfter(m, ok, new, commitIndex[p])
<1>2. /\ IF old THEN UNCHANGED peerVars
                ELSE /\ currentTerm' = [currentTerm EXCEPT ![p] = m.term]
                     /\ voteFor' = [voteFor EXCEPT ![p] = m.from]
                     /\ state' = [state EXCEPT ![p] = Follower]
      /\ log' = [log EXCEPT ![p] = new]
      /\ commitIndex' = [commitIndex EXCEPT ![p] = CommitAfter(m, ok, new, @)]
      /\ rpcs' = (rpcs \ {m}) \cup Answer(m, AppendReply(m, currentTerm'[p], ok))
      /\ UNCHANGED <<lastApplied, leaderVars, led, electing, tally, testVars>>
    BY Zenon DEF RequestAppendEntriesReply
<1>3. /\ m.from \in Server /\ p \in Server /\ m.id \in Nat /\ m.term \in Nat
      /\ m.leaderCommit \in Nat /\ m.prevLogIndex \in Nat /\ m.entries \in Seq(Entry)
    BY <1>1 DEF AppendCall
<1>4. log[p] \in Seq(Entry) \ {<<>>} /\ commitIndex[p] \in Nat /\ commitIndex[p] < Len(log[p])
    BY <1>3
<1>5. ok => m.prevLogIndex < Len(log[p])
    BY <1>3, <1>4 DEF PrevMatches, LastIndex
<1>6. new \in Seq(Entry) \ {<<>>} /\ (m.entries = <<>> => new = log[p]) /\ (~ok => new = log[p])
    BY <1>3, <1>4, <1>5, MergeType
<1>7. ok \in BOOLEAN
    BY DEF PrevMatches
<1> HIDE DEF p, old, ok, new
<1>8. c \in Nat /\ c < Len(new)
    <2>1. Len(new) \in Nat /\ Len(new) >= 1
        BY <1>6
    <2>2. ~(ok /\ m.entries # <<>>) => Len(new) = Len(log[p])
        BY <1>6
    <2>3. Len(log[p]) \in Nat
        BY <1>4
    <2>4. CASE ok /\ (m.entries # <<>> \/ m.leaderCommit > commitIndex[p])
        <3>1. c = MinOf(m.leaderCommit, Len(new) - 1)
            BY <2>4 DEF CommitAfter, LastIndex
        <3> HIDE DEF c
        <3> QED
            BY <1>3, <2>1, <3>1 DEF MinOf
    <2>5. CASE ~(ok /\ (m.entries # <<>> \/ m.leaderCommit > commitIndex[p]))
        <3>1. c = commitIndex[p]
            BY <2>5 DEF CommitAfter
        <3> HIDE DEF c
        <3> QED
            BY <1>4, <2>2, <2>5, <3>1
    <2> QED
        BY <2>4, <2>5
<1> HIDE DEF c
<1>9. currentTerm' \in [Server -> Nat] /\ voteFor' \in [Server -> Server \cup {Nil}]
        /\ state' \in [Server -> {Leader, Candidate, Follower}]
    BY <1>2, <1>3 DEF peerVars
<1>10. AppendReply(m, currentTerm'[p], ok) \in Message
    <2>1. AppendReply(m, currentTerm'[p], ok) \in AppendDone
        BY <1>3, <1>7, <1>9 DEF AppendReply, AppendDone, p
    <2> QED
        BY <2>1 DEF Message
<1>11. rpcs' \subseteq Message
    BY <1>2, <1>10 DEF Answer
<1>12. commitIndex' = [commitIndex EXCEPT ![p] = c]
    BY <1>2 DEF c
<1>13. TypeOK'
    <2>1. log' \in [Server -> Seq(Entry) \ {<<>>}]
        BY <1>2, <1>3, <1>6
    <2>2. commitIndex' \in [Server -> Nat]
        BY <1>3, <1>8, <1>12
    <2>3. UNCHANGED <<lastApplied, leaderVars, led, electing, tally, testVars>>
        BY <1>2
    <2> QED
        BY <1>9, <1>11, <2>1, <2>2, <2>3 DEF leaderVars, testVars
<1>14. CommitInLog'
    BY <1>2, <1>3, <1>8, <1>12
<1> QED
    BY <1>13, <1>14

LEMMA SoundAppendAnswered ==
    ASSUME Sound, NEW m \in rpcs, AppendAnswered(m)
    PROVE  Sound'
<1> USE DEF Sound, TypeOK, CommitInLog
<1>1. m \in AppendDone
    BY MessageKinds DEF AppendAnswered
<1> DEFINE s == m.from
           p == m.to
           last == m.prevLogIndex + m.count
           match == [matchIndex[s] EXCEPT ![p] = last]
<1>2. s \in Server /\ p \in Server /\ m.replyTerm \in Nat /\ last \in Nat
    <2>1. /\ m.from \in Server /\ m.to \in Server /\ m.replyTerm \in Nat
          /\ m.prevLogIndex \in Nat /\ m.count \in Nat
        BY <1>1 DEF AppendDone
    <2>2. \A a, b \in Nat : a + b \in Nat
        OBVIOUS
    <2> QED
        BY <2>1, <2>2, Zenon
<1>3. rpcs' \subseteq Message
    BY DEF AppendAnswered
<1>4. UNCHANGED <<log, lastApplied, led, electing, tally, testVars>>
    BY Zenon DEF AppendAnswered
<1>5. \/ UNCHANGED <<peerVars, leaderVars, commitIndex>>
      \/ /\ currentTerm' = [currentTerm EXCEPT ![s] = m.replyTerm]
         /\ voteFor' = [voteFor EXCEPT ![s] = Nil]
         /\ state' = [state EXCEPT ![s] = Follower]
         /\ UNCHANGED <<leaderVars, commitIndex>>
      \/ /\ Acknowledged(s, last, match) => last <= LastIndex(log[s])
         /\ nextIndex' = [nextIndex EXCEPT ![s][p] = last + 1]
         /\ matchIndex' = [matchIndex EXCEPT ![s] = match]
         /\ commitIndex' = [commitIndex EXCEPT ![s] =
                               IF Commits(s, last, match) THEN last ELSE @]
         /\ UNCHANGED peerVars
      \/ /\ nextIndex' = [nextIndex EXCEPT ![s][p] = @ - 1]
         /\ UNCHANGED <<peerVars, matchIndex, commitIndex>>
    BY Zenon DEF AppendAnswered
<1> HIDE DEF s, p, last
<1>6. match \in [Server -> Nat]
    BY <1>2
<1> HIDE DEF match
<1>7. currentTerm' \in [Server -> Nat] /\ voteFor' \in [Server -> Server \cup {Nil}]
        /\ state' \in [Server -> {Leader, Candidate, Follower}]
    BY <1>2, <1>5 DEF peerVars
<1>8. nextIndex' \in [Server -> [Server -> Int]] /\ matchIndex' \in [Server -> [Server -> Nat]]
    <2>1. matchIndex' = matchIndex \/ matchIndex' = [matchIndex EXCEPT ![s] = match]
        BY <1>5 DEF leaderVars
    <2>2. matchIndex' \in [Server -> [Server -> Nat]]
        BY <1>2, <1>6, <2>1, UpdateType, Zenon
    <2>3. last + 1 \in Int /\ nextIndex[s][p] - 1 \in Int /\ nextIndex[s] \in [Server -> Int]
        BY <1>2, SMTT(30)
    <2>4. /\ [nextIndex[s] EXCEPT ![p] = last + 1] \in [Server -> Int]
          /\ [nextIndex[s] EXCEPT ![p] = nextIndex[s][p] - 1] \in [Server -> Int]
        BY <1>2, <2>3, UpdateType, Zenon
    <2>5. \/ nextIndex' = nextIndex
          \/ nextIndex' = [nextIndex EXCEPT ![s] = [nextIndex[s] EXCEPT ![p] = last + 1]]
          \/ nextIndex' = [nextIndex EXCEPT ![s] =
                                [nextIndex[s] EXCEPT ![p] = nextIndex[s][p] - 1]]
        BY <1>5 DEF leaderVars
    <2>6. nextIndex' \in [Server -> [Server -> Int]]
        BY <1>2, <2>4, <2>5, UpdateType, ZenonT(60)
    <2> QED
        BY <2>2, <2>6
<1>9. \/ commitIndex' = commitIndex
      \/ last < Len(log[s]) /\ commitIndex' = [commitIndex EXCEPT ![s] = last]
    <2>1. Len(log[s]) \in Nat
        BY <1>2
    <2>2. Commits(s, last, match) => Acknowledged(s, last, match)
        BY DEF Commits
    <2> QED
        BY <1>2, <1>5, <2>1, <2>2, SMTT(30) DEF LastIndex
<1>10. TypeOK'
    <2>1. commitIndex' \in [Server -> Nat]
        BY <1>2, <1>9
    <2> QED
        BY <1>3, <1>4, <1>7, <1>8, <2>1 DEF testVars
<1>11. CommitInLog'
    BY <1>2, <1>4, <1>9
<1> QED
    BY <1>10, <1>11

LEMMA SoundNext == Sound /\ [Next]_vars => Sound'
<1> SUFFICES ASSUME Sound, [Next]_vars PROVE Sound'
    OBVIOUS
<1>1. CASE UNCHANGED vars
    BY <1>1 DEF Sound, TypeOK, CommitInLog, vars, peerVars, logVars, leaderVars, testVars
<1>2. CASE Next
    BY <1>2, SoundElection, SoundRequestVote, SoundHeartBeat, SoundStart, SoundApplier,
       SoundRestart, SoundVoteHandler, SoundVoteAnswered, SoundAppendHandler,
       SoundAppendAnswered, SoundLose DEF Next
<1> QED
    BY <1>1, <1>2

\* Every reachable state is typed, whatever the interleaving, losses, restarts and
\* preemptions: what raft.go:201-216 puts into a request are entries that exist.
THEOREM TypeCorrect == Spec => []TypeOK
<1>1. Sound => TypeOK
    BY DEF Sound
<1> QED
    BY SoundInit, SoundNext, <1>1, PTL DEF Spec

\* The applier (raft.go:774-780) always finds the entry it is about to apply,
\* although an AppendEntries may cut the log below commitIndex.
THEOREM CommittedInLog == Spec => []CommitInLog
<1>1. Sound => CommitInLog
    BY DEF Sound
<1> QED
    BY SoundInit, SoundNext, <1>1, PTL DEF Spec

----------------------------------------------------------------------------
(***************************************************************************)
(* No term of Raft has two leaders, for any number of peers, as long as no *)
(* peer restarts (MaxRestart = 0) and no role change slips in between "is  *)
(* leader" and the lock of a heartbeat goroutine (~Preempt).  Without      *)
(* either assumption the claim is false.                                   *)
(*                                                                         *)
(* What makes the proof more than the textbook one: AppendEntries          *)
(* overwrites voteFor, and RequestVote may send requests of a term its     *)
(* peer is no candidate of.  So "p voted for c" cannot be read off         *)
(* voteFor; it is kept by Votes, and what voteFor adds is that p is bound: *)
(* it will not help anybody else in the term.                              *)
(***************************************************************************)

Cand(c, t) == state[c] = Candidate /\ currentTerm[c] = t

\* p has granted c its vote of term t and the answer is under way.
Granted(p, c, t) ==
    \E m \in rpcs : /\ m.kind = "vote" /\ m.done /\ m.granted
                    /\ m.from = c /\ m.to = p /\ m.term = t

\* A goroutine of c has counted the vote of p in term t.
Counted(p, c, t) == \E b \in tally[c] : b.term = t /\ b.voter = p

\* p's vote of term t is, or may still be, counted for c, which runs in t.
Votes(p, c, t) == Cand(c, t) /\ (p = c \/ Granted(p, c, t) \/ Counted(p, c, t))

\* p will not vote in term t for any peer that can still win it.
Bound(p, t) ==
    \/ currentTerm[p] > t
    \/ currentTerm[p] = t /\ voteFor[p] # Nil /\ ~Cand(voteFor[p], t)

----------------------------------------------------------------------------
(* The inductive invariant.                                                *)

VotedForRan == \A p \in Server : voteFor[p] # Nil => currentTerm[voteFor[p]] >= currentTerm[p]

Honest ==
    \A m \in rpcs : /\ m.from # m.to
                    /\ m.term <= currentTerm[m.from]
                    /\ m.kind = "append" /\ ~m.done => ~Cand(m.from, m.term)

OthersCounted == \A c \in Server : \A b \in tally[c] : b.voter # c

VotersKnow ==
    \A p, c \in Server : \A t \in Nat :
        Votes(p, c, t) => Bound(p, t) \/ (currentTerm[p] = t /\ voteFor[p] = c)

OneVote ==
    \A p, c, d \in Server : \A t \in Nat : Votes(p, c, t) /\ Votes(p, d, t) => c = d

\* A leader's term is decided by the quorum Q.
Decided(Q, t) ==
    /\ Q \subseteq Server
    /\ Majority(Cardinality(Q))
    /\ \A p \in Q : Bound(p, t) /\ \A c \in Server : ~Votes(p, c, t)

LeadersDecided ==
    \A x \in Server : state[x] = Leader => \E Q \in SUBSET Server : Decided(Q, currentTerm[x])

Elect ==
    /\ VotedForRan
    /\ Honest
    /\ OthersCounted
    /\ VotersKnow
    /\ OneVote
    /\ LeadersDecided
    /\ ElectionSafety

----------------------------------------------------------------------------
(* What a step may do to an election.                                      *)

TermsGrow == \A p \in Server : currentTerm'[p] >= currentTerm[p]

NoLateCandidate ==
    \A c \in Server : \A t \in Nat : Cand(c, t)' => Cand(c, t) \/ currentTerm[c] < t

KeepsVote ==
    \A p \in Server :
        currentTerm'[p] = currentTerm[p] /\ voteFor[p] # Nil =>
            \/ voteFor'[p] = voteFor[p]
            \/ /\ voteFor'[p] \in Server
               /\ currentTerm[voteFor'[p]] >= currentTerm[p]
               /\ ~Cand(voteFor'[p], currentTerm[p])

NewVotes ==
    \A p, c \in Server : \A t \in Nat :
        Votes(p, c, t)' =>
            \/ Votes(p, c, t)
            \/ /\ currentTerm'[p] = t /\ voteFor'[p] = c
               /\ \/ currentTerm[p] < t
                  \/ currentTerm[p] = t /\ voteFor[p] \in {Nil, c} /\ Cand(c, t)

Elected(x, Q) ==
    /\ Q \subseteq Server
    /\ Majority(Cardinality(Q))
    /\ \A p \in Q : Votes(p, x, currentTerm[x])

Wins(x) ==
    /\ currentTerm'[x] = currentTerm[x]
    /\ state' = [state EXCEPT ![x] = Leader]
    /\ \E Q \in SUBSET Server : Elected(x, Q)

NewLeaders ==
    \A x \in Server : state'[x] = Leader =>
        (state[x] = Leader /\ currentTerm'[x] = currentTerm[x]) \/ Wins(x)

Step ==
    /\ TermsGrow /\ NoLateCandidate /\ KeepsVote /\ NewVotes /\ NewLeaders
    /\ VotedForRan' /\ Honest' /\ OthersCounted'

----------------------------------------------------------------------------
(* Such a step keeps the invariant.                                        *)

\* A vote is only cast for a peer of the cluster.
LEMMA VoteType ==
    ASSUME TypeOK, NEW p \in Server
    PROVE  /\ currentTerm[p] \in Nat
           /\ voteFor[p] # Nil => voteFor[p] \in Server
           /\ p # Nil
BY ServerAssumption DEF TypeOK

\* A peer that is bound stays bound.
LEMMA BoundStays ==
    ASSUME TypeOK, TypeOK', VotedForRan, Step, NEW p \in Server, NEW t \in Nat, Bound(p, t)
    PROVE  Bound(p, t)'
<1>1. currentTerm[p] \in Nat /\ currentTerm'[p] \in Nat /\ currentTerm'[p] >= currentTerm[p]
    BY DEF TypeOK, Step, TermsGrow
<1>2. CASE currentTerm'[p] > t
    BY <1>2 DEF Bound
<1>3. CASE ~(currentTerm'[p] > t)
    <2>1. /\ currentTerm[p] = t /\ currentTerm'[p] = t
          /\ voteFor[p] # Nil /\ ~Cand(voteFor[p], t)
        BY <1>1, <1>3 DEF Bound
    <2>2. PICK v \in Server : /\ voteFor'[p] = v /\ currentTerm[v] >= t /\ ~Cand(v, t)
        <3>1. voteFor[p] \in Server /\ currentTerm[voteFor[p]] >= t
            BY <2>1, VoteType DEF VotedForRan
        <3> QED
            BY <2>1, <3>1 DEF Step, KeepsVote
    <2>3. ~Cand(v, t)'
        <3>1. currentTerm[v] \in Nat /\ ~(currentTerm[v] < t)
            BY <2>2, SMTT(30) DEF TypeOK
        <3> QED
            BY <2>2, <3>1 DEF Step, NoLateCandidate
    <2>4. v # Nil
        BY ServerAssumption
    <2> QED
        BY <2>1, <2>2, <2>3, <2>4 DEF Bound
<1> QED
    BY <1>2, <1>3

\* A peer that is bound casts no vote that counts.
LEMMA BoundVotesNot ==
    ASSUME TypeOK, Step, NEW p \in Server, NEW c \in Server, NEW t \in Nat,
           Bound(p, t), Votes(p, c, t)'
    PROVE  Votes(p, c, t)
<1>1. currentTerm[p] \in Nat
    BY DEF TypeOK
<1>2. SUFFICES ASSUME ~Votes(p, c, t) PROVE FALSE
    OBVIOUS
<1>3. \/ currentTerm[p] < t
      \/ currentTerm[p] = t /\ voteFor[p] \in {Nil, c} /\ Cand(c, t)
    BY <1>2 DEF Step, NewVotes
<1> QED
    BY <1>1, <1>3 DEF Bound

\* Two majorities have a peer in common.
LEMMA QuorumsMeet ==
    ASSUME NEW Q, NEW R, Q \subseteq Server, R \subseteq Server,
           Majority(Cardinality(Q)), Majority(Cardinality(R))
    PROVE  Q \cap R # {}
<1>1. IsFiniteSet(Q) /\ IsFiniteSet(R) /\ IsFiniteSet(Server)
    BY ServerAssumption, FS_Subset
<1> DEFINE q == Cardinality(Q) r == Cardinality(R) n == Cardinality(Server)
<1>2. q \in Nat /\ r \in Nat /\ n \in Nat
    BY <1>1, FS_CardinalityType
<1>3. q > n \div 2 /\ r > n \div 2
    BY DEF Majority
<1> HIDE DEF q, r, n
<1>4. q + r > n
    BY <1>2, <1>3
<1> QED
    BY <1>1, <1>4, FS_MajoritiesIntersect DEF q, r, n

LEMMA VotersKnowStays ==
    ASSUME TypeOK, TypeOK', Elect, Step
    PROVE  VotersKnow'
<1> SUFFICES ASSUME NEW p \in Server, NEW c \in Server, NEW t \in Nat, Votes(p, c, t)'
             PROVE  Bound(p, t)' \/ (currentTerm'[p] = t /\ voteFor'[p] = c)
    BY DEF VotersKnow
<1>1. CASE ~Votes(p, c, t)
    BY <1>1 DEF Step, NewVotes
<1>2. CASE Votes(p, c, t) /\ Bound(p, t)
    BY <1>2, BoundStays DEF Elect
<1>3. CASE Votes(p, c, t) /\ currentTerm[p] = t /\ voteFor[p] = c
    <2>1. currentTerm'[p] \in Nat /\ currentTerm'[p] >= t
        BY <1>3 DEF Step, TermsGrow, TypeOK
    <2>2. CASE currentTerm'[p] > t
        BY <2>2 DEF Bound
    <2>3. CASE currentTerm'[p] = t
        <3>1. c # Nil
            BY VoteType
        <3>2. \/ voteFor'[p] = c
              \/ /\ voteFor'[p] \in Server /\ currentTerm[voteFor'[p]] >= t
                 /\ ~Cand(voteFor'[p], t)
            BY <1>3, <2>3, <3>1 DEF Step, KeepsVote
        <3>3. ASSUME NEW v \in Server, voteFor'[p] = v, currentTerm[v] >= t, ~Cand(v, t)
              PROVE  Bound(p, t)'
            <4>1. currentTerm[v] \in Nat /\ v # Nil
                BY VoteType
            <4>2. ~Cand(v, t)'
                BY <3>3, <4>1 DEF Step, NoLateCandidate
            <4> QED
                BY <2>3, <3>3, <4>1, <4>2 DEF Bound
        <3> QED
            BY <2>3, <3>2, <3>3
    <2> QED
        BY <2>1, <2>2, <2>3
<1> QED
    BY <1>1, <1>2, <1>3 DEF Elect, VotersKnow

LEMMA OneVoteStays ==
    ASSUME TypeOK, Elect, Step
    PROVE  OneVote'
<1> SUFFICES ASSUME NEW p \in Server, NEW c \in Server, NEW d \in Server, NEW t \in Nat,
                    Votes(p, c, t)', Votes(p, d, t)'
             PROVE  c = d
    BY DEF OneVote
<1>1. ASSUME NEW a \in Server, NEW b \in Server, Votes(p, a, t)', ~Votes(p, a, t), Votes(p, b, t)
      PROVE  a = b
    <2>1. ~Bound(p, t)
        BY <1>1, BoundVotesNot
    <2>2. currentTerm[p] = t /\ voteFor[p] = b
        BY <1>1, <2>1 DEF Elect, VotersKnow
    <2>3. voteFor[p] \in {Nil, a}
        BY <1>1, <2>2 DEF Step, NewVotes
    <2>4. b # Nil
        BY VoteType
    <2> QED
        BY <2>2, <2>3, <2>4
<1>2. CASE Votes(p, c, t) /\ Votes(p, d, t)
    BY <1>2 DEF Elect, OneVote
<1>3. CASE ~Votes(p, c, t) /\ ~Votes(p, d, t)
    BY <1>3 DEF Step, NewVotes
<1> QED
    BY <1>1, <1>2, <1>3

\* A term that is decided stays decided.
LEMMA DecidedStays ==
    ASSUME TypeOK, TypeOK', Elect, Step, NEW Q \in SUBSET Server, NEW t \in Nat, Decided(Q, t)
    PROVE  Decided(Q, t)'
<1>1. ASSUME NEW p \in Q PROVE Bound(p, t)' /\ \A c \in Server : ~Votes(p, c, t)'
    <2>1. p \in Server /\ Bound(p, t) /\ \A c \in Server : ~Votes(p, c, t)
        BY DEF Decided
    <2>2. Bound(p, t)'
        BY <2>1, BoundStays DEF Elect
    <2>3. \A c \in Server : ~Votes(p, c, t)'
        BY <2>1, BoundVotesNot
    <2> QED
        BY <2>2, <2>3
<1>2. Majority(Cardinality(Q))
    BY DEF Decided
<1> QED
    BY <1>1, <1>2 DEF Decided, Majority

\* The quorum that elects a leader decides the term.
LEMMA ElectedDecides ==
    ASSUME TypeOK, TypeOK', Elect, Step, NEW x \in Server, NEW Q \in SUBSET Server,
           Elected(x, Q), NEW t \in Nat, t = currentTerm[x], currentTerm'[x] = t,
           state'[x] = Leader
    PROVE  Decided(Q, t)'
<1>1. ~Cand(x, t)'
    BY DEF Cand
<1>2. ASSUME NEW p \in Q PROVE Bound(p, t)' /\ \A c \in Server : ~Votes(p, c, t)'
    <2>1. p \in Server /\ Votes(p, x, t)
        BY DEF Elected
    <2>2. Bound(p, t) \/ (currentTerm[p] = t /\ voteFor[p] = x)
        BY <2>1 DEF Elect, VotersKnow
    <2>3. Bound(p, t)'
        <3>1. CASE Bound(p, t)
            BY <2>1, <3>1, BoundStays DEF Elect
        <3>2. CASE currentTerm[p] = t /\ voteFor[p] = x
            <4>4. x # Nil
                BY VoteType
            <4>1. x # Nil /\ currentTerm'[p] \in Nat /\ currentTerm'[p] >= t
                BY <2>1, <3>2, <4>4 DEF Step, TermsGrow, TypeOK
            <4>2. CASE currentTerm'[p] = t
                <5>1. \/ voteFor'[p] = x
                      \/ /\ voteFor'[p] \in Server
                         /\ currentTerm[voteFor'[p]] >= t /\ ~Cand(voteFor'[p], t)
                    BY <2>1, <3>2, <4>1, <4>2 DEF Step, KeepsVote
                <5>2. CASE voteFor'[p] = x
                    BY <1>1, <4>1, <4>2, <5>2 DEF Bound
                <5>3. ASSUME NEW v \in Server, voteFor'[p] = v, currentTerm[v] >= t,
                             ~Cand(v, t)
                      PROVE  Bound(p, t)'
                    <6>1. currentTerm[v] \in Nat /\ v # Nil
                        BY VoteType
                    <6>2. ~Cand(v, t)'
                        BY <5>3, <6>1 DEF Step, NoLateCandidate
                    <6> QED
                        BY <4>2, <5>3, <6>1, <6>2 DEF Bound
                <5> QED
                    BY <5>1, <5>2, <5>3
            <4>3. CASE currentTerm'[p] > t
                BY <4>3 DEF Bound
            <4> QED
                BY <4>1, <4>2, <4>3
        <3> QED
            BY <2>2, <3>1, <3>2
    <2>4. ASSUME NEW c \in Server, Votes(p, c, t)' PROVE FALSE
        <3>1. c # x
            BY <1>1, <2>4 DEF Votes
        <3>2. ~Votes(p, c, t)
            BY <2>1, <3>1 DEF Elect, OneVote
        <3>3. ~Bound(p, t)
            BY <2>1, <2>4, <3>2, BoundVotesNot
        <3>4. currentTerm[p] = t /\ voteFor[p] = x
            BY <2>2, <3>3
        <3>5. voteFor[p] \in {Nil, c}
            BY <2>1, <2>4, <3>2, <3>4 DEF Step, NewVotes
        <3> QED
            BY <3>1, <3>4, <3>5, VoteType
    <2> QED
        BY <2>3, <2>4
<1>3. Majority(Cardinality(Q))
    BY DEF Elected
<1> QED
    BY <1>2, <1>3 DEF Decided, Majority

LEMMA LeadersDecidedStays ==
    ASSUME TypeOK, TypeOK', Elect, Step
    PROVE  LeadersDecided'
<1> SUFFICES ASSUME NEW x \in Server, state'[x] = Leader
             PROVE  \E Q \in SUBSET Server : Decided(Q, currentTerm[x])'
    BY DEF LeadersDecided
<1>1. PICK t \in Nat : t = currentTerm[x]
    BY DEF TypeOK
<1>2. CASE state[x] = Leader /\ currentTerm'[x] = t
    <2>1. PICK Q \in SUBSET Server : Decided(Q, t)
        BY <1>1, <1>2 DEF Elect, LeadersDecided
    <2>2. Decided(Q, t)'
        BY <2>1, DecidedStays
    <2> QED
        BY <1>2, <2>2
<1>3. CASE Wins(x)
    <2>1. PICK Q \in SUBSET Server : Elected(x, Q)
        BY <1>3 DEF Wins
    <2>2. currentTerm'[x] = t
        BY <1>1, <1>3 DEF Wins
    <2>3. Decided(Q, t)'
        BY <1>1, <2>1, <2>2, ElectedDecides
    <2> QED
        BY <2>2, <2>3
<1> QED
    BY <1>1, <1>2, <1>3 DEF Step, NewLeaders

LEMMA SafetyStays ==
    ASSUME TypeOK, TypeOK', Elect, Step
    PROVE  ElectionSafety'
<1>1. ASSUME NEW x \in Server, NEW y \in Server, Wins(x),
             state[y] = Leader, currentTerm'[y] = currentTerm[y],
             currentTerm'[x] = currentTerm'[y]
      PROVE  FALSE
    <2>1. PICK Q \in SUBSET Server : Elected(x, Q)
        BY <1>1 DEF Wins
    <2>2. PICK R \in SUBSET Server : Decided(R, currentTerm[x])
        BY <1>1 DEF Wins, Elect, LeadersDecided
    <2>3. PICK p \in Server : p \in Q /\ p \in R
        BY <2>1, <2>2, QuorumsMeet DEF Elected, Decided
    <2> QED
        BY <2>1, <2>2, <2>3 DEF Elected, Decided
<1> SUFFICES ASSUME NEW x \in Server, NEW y \in Server, x # y,
                    state'[x] = Leader, state'[y] = Leader, currentTerm'[x] = currentTerm'[y]
             PROVE  FALSE
    BY DEF ElectionSafety
<1>2. (state[x] = Leader /\ currentTerm'[x] = currentTerm[x]) \/ Wins(x)
    BY DEF Step, NewLeaders
<1>3. (state[y] = Leader /\ currentTerm'[y] = currentTerm[y]) \/ Wins(y)
    BY DEF Step, NewLeaders
<1>4. CASE Wins(x) /\ Wins(y)
    <2>1. state[y] = Leader /\ currentTerm'[y] = currentTerm[y]
        BY <1>4 DEF Wins, TypeOK
    <2> QED
        BY <1>1, <1>4, <2>1
<1>5. CASE ~Wins(x) /\ ~Wins(y)
    BY <1>2, <1>3, <1>5 DEF Elect, ElectionSafety
<1> QED
    BY <1>1, <1>2, <1>3, <1>4, <1>5

LEMMA ElectStep ==
    ASSUME TypeOK, TypeOK', Elect, Step
    PROVE  Elect'
BY VotersKnowStays, OneVoteStays, LeadersDecidedStays, SafetyStays DEF Elect, Step

----------------------------------------------------------------------------
(* Every action of Raft is such a step.                                    *)

\* A call that is still under way stays honest.
LEMMA HonestStays ==
    ASSUME TypeOK, TypeOK', Honest, TermsGrow, NoLateCandidate, NEW m \in rpcs
    PROVE  /\ m.from # m.to
           /\ m.term <= currentTerm'[m.from]
           /\ m.kind = "append" /\ ~m.done => ~Cand(m.from, m.term)'
<1>1. m.from \in Server /\ m.term \in Nat
    BY MessageKinds DEF TypeOK
<1> DEFINE f == m.from t == m.term
<1>2. /\ f # m.to /\ t <= currentTerm[f]
      /\ m.kind = "append" /\ ~m.done => ~Cand(f, t)
    BY DEF Honest
<1> HIDE DEF f, t
<1>3. f \in Server /\ t \in Nat
    BY <1>1 DEF f, t
<1>4. currentTerm[f] \in Nat /\ currentTerm'[f] \in Nat /\ currentTerm[f] <= currentTerm'[f]
    BY <1>3 DEF TypeOK, TermsGrow
<1>5. ~Cand(f, t) => ~Cand(f, t)'
    BY <1>2, <1>3, <1>4 DEF NoLateCandidate
<1>6. t <= currentTerm'[f]
    BY <1>2, <1>3, <1>4
<1> QED
    BY <1>2, <1>5, <1>6 DEF f, t

\* Steps that leave the peers' terms, votes and roles alone and grant no vote.
LEMMA QuietStep ==
    ASSUME TypeOK, Elect, UNCHANGED <<currentTerm, voteFor, state, tally>>, Honest',
           \A m \in rpcs' : m.kind = "vote" /\ m.done => m \in rpcs
    PROVE  Step
<1>1. TermsGrow
    BY DEF TermsGrow, TypeOK
<1>2. \A c, t : Cand(c, t)' <=> Cand(c, t)
    BY DEF Cand
<1>3. NoLateCandidate /\ KeepsVote /\ NewLeaders
    BY <1>2 DEF NoLateCandidate, KeepsVote, NewLeaders
<1>4. NewVotes
    <2>1. ASSUME NEW p \in Server, NEW c \in Server, NEW t \in Nat, Votes(p, c, t)'
          PROVE  Votes(p, c, t)
        <3>1. Granted(p, c, t)' => Granted(p, c, t)
            BY DEF Granted
        <3>2. Counted(p, c, t)' => Counted(p, c, t)
            BY DEF Counted
        <3> QED
            BY <1>2, <2>1, <3>1, <3>2 DEF Votes
    <2> QED
        BY <2>1 DEF NewVotes
<1>5. VotedForRan' /\ OthersCounted'
    BY DEF Elect, VotedForRan, OthersCounted
<1> QED
    BY <1>1, <1>3, <1>4, <1>5 DEF Step

\* Steps in which a peer learns of a higher term T from an answer.
LEMMA StepDown ==
    ASSUME TypeOK, TypeOK', Elect, NEW s \in Server, NEW T \in Nat, T > currentTerm[s],
           currentTerm' = [currentTerm EXCEPT ![s] = T],
           voteFor' = [voteFor EXCEPT ![s] = Nil],
           state' = [state EXCEPT ![s] = Follower],
           tally' = tally,
           rpcs' \subseteq rpcs
    PROVE  Step
<1>1. TermsGrow
    <2> SUFFICES ASSUME NEW p \in Server PROVE currentTerm'[p] >= currentTerm[p]
        BY DEF TermsGrow
    <2>1. currentTerm[p] \in Nat /\ currentTerm[s] \in Nat
        BY DEF TypeOK
    <2>2. currentTerm'[p] = IF p = s THEN T ELSE currentTerm[p]
        BY DEF TypeOK
    <2> QED
        BY <2>1, <2>2
<1>2. ASSUME NEW c \in Server, NEW t \in Nat, Cand(c, t)' PROVE c # s /\ Cand(c, t)
    BY <1>2 DEF Cand, TypeOK
<1>3. NoLateCandidate
    BY <1>2 DEF NoLateCandidate
<1>4. KeepsVote /\ NewLeaders
    BY DEF KeepsVote, NewLeaders, TypeOK
<1>5. NewVotes
    <2>1. ASSUME NEW p \in Server, NEW c \in Server, NEW t \in Nat, Votes(p, c, t)'
          PROVE  Votes(p, c, t)
        <3>1. Granted(p, c, t)' => Granted(p, c, t)
            BY DEF Granted
        <3>2. Counted(p, c, t)' => Counted(p, c, t)
            BY DEF Counted
        <3> QED
            BY <1>2, <2>1, <3>1, <3>2 DEF Votes
    <2> QED
        BY <2>1 DEF NewVotes
<1>6. VotedForRan'
    <2> SUFFICES ASSUME NEW p \in Server, voteFor'[p] # Nil
                 PROVE  currentTerm'[voteFor'[p]] >= currentTerm'[p]
        BY DEF VotedForRan
    <2>1. p # s /\ voteFor'[p] = voteFor[p] /\ currentTerm'[p] = currentTerm[p]
        BY DEF TypeOK
    <2>2. PICK v \in Server : v = voteFor[p] /\ currentTerm[v] >= currentTerm[p]
        BY <2>1, VoteType DEF Elect, VotedForRan
    <2>3. currentTerm[v] \in Nat /\ currentTerm'[v] \in Nat /\ currentTerm[p] \in Nat
        BY DEF TypeOK
    <2>4. currentTerm'[v] >= currentTerm[v]
        BY <1>1 DEF TermsGrow
    <2> QED
        BY <2>1, <2>2, <2>3, <2>4
<1>7. Honest'
    BY <1>1, <1>3, HonestStays DEF Elect, Honest
<1>8. OthersCounted'
    BY DEF Elect, OthersCounted
<1> QED
    BY <1>1, <1>3, <1>4, <1>5, <1>6, <1>7, <1>8 DEF Step

LEMMA StepElection ==
    ASSUME TypeOK, TypeOK', Elect, NEW s \in Server, startElection(s)
    PROVE  Step
<1>1. /\ state[s] # Leader
      /\ state' = [state EXCEPT ![s] = Candidate]
      /\ currentTerm' = [currentTerm EXCEPT ![s] = @ + 1]
      /\ voteFor' = [voteFor EXCEPT ![s] = s]
      /\ tally' = [tally EXCEPT ![s] = {}]
      /\ rpcs' = rpcs
    BY DEF startElection
<1>2. TermsGrow
    <2> SUFFICES ASSUME NEW p \in Server PROVE currentTerm'[p] >= currentTerm[p]
        BY DEF TermsGrow
    <2>1. currentTerm[p] \in Nat /\ currentTerm[s] \in Nat
        BY DEF TypeOK
    <2>2. currentTerm'[p] = IF p = s THEN currentTerm[s] + 1 ELSE currentTerm[p]
        BY <1>1 DEF TypeOK
    <2> QED
        BY <2>1, <2>2
<1>3. ASSUME NEW c \in Server, NEW t \in Nat, Cand(c, t)'
      PROVE  (c = s /\ t = currentTerm[s] + 1) \/ (c # s /\ Cand(c, t))
    BY <1>1, <1>3 DEF Cand, TypeOK
<1>4. NoLateCandidate
    BY <1>3 DEF NoLateCandidate, TypeOK
<1>5. KeepsVote
    BY <1>1 DEF KeepsVote, TypeOK
<1>6. NewLeaders
    BY <1>1 DEF NewLeaders, TypeOK
<1>7. NewVotes
    <2> SUFFICES ASSUME NEW p \in Server, NEW c \in Server, NEW t \in Nat, Votes(p, c, t)'
                 PROVE  \/ Votes(p, c, t)
                        \/ currentTerm'[p] = t /\ voteFor'[p] = c /\ currentTerm[p] < t
        BY DEF NewVotes
    <2>1. Granted(p, c, t)' => Granted(p, c, t)
        BY <1>1 DEF Granted
    <2>2. CASE c # s
        <3>1. Counted(p, c, t)' => Counted(p, c, t)
            BY <1>1, <2>2, ZenonT(60) DEF Counted, TypeOK
        <3> QED
            BY <1>3, <2>1, <2>2, <3>1 DEF Votes
    <2>3. CASE c = s
        <3>1. t = currentTerm[s] + 1 /\ currentTerm[s] \in Nat
            BY <1>3, <2>3 DEF Votes, TypeOK
        <3>2. ~Granted(p, c, t)
            BY <2>3, <3>1 DEF Granted, Elect, Honest
        <3>3. ~Counted(p, c, t)'
            BY <1>1, <2>3 DEF Counted, TypeOK
        <3>4. p = s
            BY <2>1, <2>3, <3>2, <3>3 DEF Votes
        <3> QED
            BY <1>1, <2>3, <3>1, <3>4 DEF TypeOK
    <2> QED
        BY <2>2, <2>3
<1>8. VotedForRan'
    <2> SUFFICES ASSUME NEW p \in Server, voteFor'[p] # Nil
                 PROVE  currentTerm'[voteFor'[p]] >= currentTerm'[p]
        BY DEF VotedForRan
    <2>1. CASE p = s
        BY <1>1, <2>1 DEF TypeOK
    <2>2. CASE p # s
        <3>1. voteFor'[p] = voteFor[p] /\ currentTerm'[p] = currentTerm[p]
            BY <1>1, <2>2 DEF TypeOK
        <3>2. PICK v \in Server : v = voteFor[p] /\ currentTerm[v] >= currentTerm[p]
            BY <3>1, VoteType DEF Elect, VotedForRan
        <3>3. currentTerm[v] \in Nat /\ currentTerm'[v] \in Nat /\ currentTerm[p] \in Nat
            BY DEF TypeOK
        <3>4. currentTerm'[v] >= currentTerm[v]
            BY <1>2 DEF TermsGrow
        <3> QED
            BY <3>1, <3>2, <3>3, <3>4
    <2> QED
        BY <2>1, <2>2
<1>9. Honest'
    BY <1>1, <1>2, <1>4, HonestStays DEF Elect, Honest
<1>10. OthersCounted'
    BY <1>1 DEF Elect, OthersCounted, TypeOK
<1> QED
    BY <1>2, <1>4, <1>5, <1>6, <1>7, <1>8, <1>9, <1>10 DEF Step

LEMMA Unmoved ==
    ASSUME TypeOK, UNCHANGED currentTerm, UNCHANGED state
    PROVE  TermsGrow /\ NoLateCandidate
<1>1. TermsGrow
    BY DEF TermsGrow, TypeOK
<1>2. NoLateCandidate
    BY DEF NoLateCandidate, Cand
<1> QED
    BY <1>1, <1>2

LEMMA StepRequestVote ==
    ASSUME TypeOK, TypeOK', Elect, NEW s \in Server, NEW r \in electing[s], RequestVote(s, r)
    PROVE  Step
<1>1. PICK P \in SUBSET (Server \ {s}) : rpcs' = rpcs \cup {VoteRequest(s, p, r) : p \in P}
    BY DEF RequestVote
<1>2. UNCHANGED <<currentTerm, voteFor, state, tally>>
    BY DEF RequestVote, peerVars
<1>3. ASSUME NEW m \in rpcs', m \notin rpcs
      PROVE  m.from = s /\ m.to # s /\ m.kind = "vote" /\ ~m.done /\ m.term = currentTerm[s]
    <2>1. PICK p \in P : m = VoteRequest(s, p, r)
        BY <1>1, <1>3
    <2> QED
        BY <2>1 DEF VoteRequest
<1>4. Honest'
    <2>1. TermsGrow /\ NoLateCandidate
        BY <1>2, Unmoved
    <2>2. \A m \in rpcs' \ rpcs : m.term <= currentTerm'[m.from]
        BY <1>2, <1>3 DEF TypeOK
    <2> QED
        BY <1>3, <2>1, <2>2, HonestStays DEF Elect, Honest
<1> QED
    BY <1>2, <1>3, <1>4, QuietStep

LEMMA StepHeartBeat ==
    ASSUME TypeOK, TypeOK', Elect, ~Preempt, NEW s \in Server, NEW p \in Server,
           RequestHeartBeat(s, p)
    PROVE  Step
<1>1. PICK k : rpcs' = rpcs \cup {AppendRequest(s, p, k)}
    BY Zenon DEF RequestHeartBeat
<1>2. UNCHANGED <<currentTerm, voteFor, state, tally>>
    BY DEF RequestHeartBeat, peerVars
<1>3. s # p /\ state[s] = Leader
    BY DEF RequestHeartBeat, actsFor
<1>4. ASSUME NEW m \in rpcs', m \notin rpcs
      PROVE  m.from = s /\ m.to = p /\ m.kind = "append" /\ ~m.done /\ m.term = currentTerm[s]
    <2>1. m = AppendRequest(s, p, k)
        BY <1>1, <1>4
    <2> QED
        BY <2>1 DEF AppendRequest
<1>5. Honest'
    <2>1. TermsGrow /\ NoLateCandidate
        BY <1>2, Unmoved
    <2>2. ASSUME NEW m \in rpcs', m \notin rpcs
          PROVE  m.term <= currentTerm'[m.from] /\ ~Cand(m.from, m.term)'
        <3>1. m.from = s /\ m.term = currentTerm[s]
            BY <1>4, <2>2
        <3>2. currentTerm'[s] = currentTerm[s] /\ state'[s] = Leader /\ currentTerm[s] \in Nat
            BY <1>2, <1>3 DEF TypeOK
        <3>3. m.term <= currentTerm'[m.from]
            BY <3>1, <3>2
        <3>4. state'[m.from] # Candidate
            BY <3>1, <3>2
        <3> QED
            BY <3>3, <3>4 DEF Cand
    <2> QED
        BY <1>3, <1>4, <2>1, <2>2, HonestStays DEF Elect, Honest
<1> QED
    BY <1>2, <1>4, <1>5, QuietStep

\* Steps that touch neither the peers nor, except for losing a call, the network.
LEMMA StepIdle ==
    ASSUME TypeOK, TypeOK', Elect, UNCHANGED <<currentTerm, voteFor, state, tally>>,
           rpcs' \subseteq rpcs
    PROVE  Step
<1>1. TermsGrow /\ NoLateCandidate
    BY DEF TermsGrow, NoLateCandidate, Cand, TypeOK
<1>2. Honest'
    BY <1>1, HonestStays DEF Elect, Honest
<1> QED
    BY <1>2, QuietStep

LEMMA StepVoteHandler ==
    ASSUME TypeOK, TypeOK', Elect, NEW m \in rpcs, RequestVoteReply(m)
    PROVE  Step
<1> DEFINE p     == m.to
           f     == m.from
           newer == m.term > currentTerm[p]
           term  == IF newer THEN m.term ELSE currentTerm[p]
           voted == IF newer THEN Nil ELSE voteFor[p]
           grant == m.term >= term /\ UpToDate(m, log[p]) /\ IsFree(m, voted)
           reply == VoteReply(m, term, grant)
<1>1. /\ currentTerm' = [currentTerm EXCEPT ![p] = term]
      /\ voteFor' = [voteFor EXCEPT ![p] = IF grant THEN f ELSE voted]
      /\ state' = [state EXCEPT ![p] = IF newer THEN Follower ELSE @]
      /\ rpcs' = (rpcs \ {m}) \cup Answer(m, reply)
      /\ UNCHANGED tally
    BY Zenon DEF RequestVoteReply
<1>2. PICK T \in Nat : T = m.term
    BY MessageKinds DEF TypeOK
<1>3. p \in Server /\ f \in Server /\ p # f /\ T <= currentTerm[f]
    BY <1>2, MessageKinds DEF TypeOK, Elect, Honest
<1>4. /\ term \in Nat /\ term >= currentTerm[p] /\ currentTerm[p] \in Nat
      /\ newer => term = T /\ currentTerm[p] < T
      /\ ~newer => term = currentTerm[p]
    <2> DEFINE ct == currentTerm[p]
    <2>1. ct \in Nat
        BY <1>3 DEF TypeOK
    <2>2. (newer <=> T > ct) /\ term = IF newer THEN T ELSE ct
        BY <1>2
    <2> HIDE DEF ct, newer, term
    <2>3. term \in Nat /\ term >= ct /\ (newer => term = T /\ ct < T) /\ (~newer => term = ct)
        BY <2>1, <2>2
    <2> QED
        BY <2>1, <2>3 DEF ct
<1>5. /\ grant => term = T /\ voted \in {Nil, f}
      /\ ~newer => voted = voteFor[p]
      /\ newer => voted = Nil
    BY <1>2, <1>4 DEF IsFree
<1>6. /\ reply.kind = "vote" /\ reply.done /\ reply.granted = grant
      /\ reply.from = f /\ reply.to = p /\ reply.term = T
    BY <1>2 DEF VoteReply
<1>7. \A n \in rpcs' : n \in rpcs \/ n = reply
    BY <1>1 DEF Answer
<1> HIDE DEF p, f, newer, term, voted, grant, reply
<1>8. TermsGrow
    <2> SUFFICES ASSUME NEW q \in Server PROVE currentTerm'[q] >= currentTerm[q]
        BY DEF TermsGrow
    <2>1. currentTerm'[q] = IF q = p THEN term ELSE currentTerm[q]
        BY <1>1 DEF TypeOK
    <2>2. currentTerm[q] \in Nat
        BY DEF TypeOK
    <2> QED
        BY <1>4, <2>1, <2>2
<1>9. ASSUME NEW c \in Server, NEW t \in Nat, Cand(c, t)' PROVE Cand(c, t)
    <2>1. CASE c # p
        BY <1>1, <1>9, <2>1 DEF Cand, TypeOK
    <2>2. CASE c = p
        BY <1>1, <1>3, <1>4, <1>9, <2>2 DEF Cand, TypeOK
    <2> QED
        BY <2>1, <2>2
<1>10. NoLateCandidate
    BY <1>9 DEF NoLateCandidate
<1>11. KeepsVote
    <2> SUFFICES ASSUME NEW q \in Server, currentTerm'[q] = currentTerm[q], voteFor[q] # Nil
                 PROVE  voteFor'[q] = voteFor[q]
        BY DEF KeepsVote
    <2>1. CASE q # p
        BY <1>1, <2>1 DEF TypeOK
    <2>2. CASE q = p
        <3>1. ~newer
            BY <1>1, <1>3, <1>4, <2>2 DEF TypeOK
        <3> QED
            BY <1>1, <1>3, <1>5, <2>2, <3>1 DEF TypeOK
    <2> QED
        BY <2>1, <2>2
<1>12. NewVotes
    <2> SUFFICES ASSUME NEW q \in Server, NEW c \in Server, NEW t \in Nat,
                        Votes(q, c, t)', ~Votes(q, c, t)
                 PROVE  /\ currentTerm'[q] = t /\ voteFor'[q] = c
                        /\ \/ currentTerm[q] < t
                           \/ currentTerm[q] = t /\ voteFor[q] \in {Nil, c} /\ Cand(c, t)
        BY DEF NewVotes
    <2>1. Cand(c, t)
        BY <1>9 DEF Votes
    <2>2. Counted(q, c, t)' => Counted(q, c, t)
        BY <1>1 DEF Counted
    <2>3. Granted(q, c, t)' /\ ~Granted(q, c, t)
        BY <2>1, <2>2 DEF Votes
    <2>4. PICK n \in rpcs' : /\ n.kind = "vote" /\ n.done /\ n.granted
                             /\ n.from = c /\ n.to = q /\ n.term = t
        BY <2>3 DEF Granted
    <2>5. n \notin rpcs
        BY <2>3, <2>4 DEF Granted
    <2>6. grant /\ c = f /\ q = p /\ t = T
        BY <1>6, <1>7, <2>4, <2>5
    <2>7. currentTerm'[q] = t /\ voteFor'[q] = c
        BY <1>1, <1>3, <1>5, <2>6 DEF TypeOK
    <2> QED
        BY <1>4, <1>5, <2>1, <2>6, <2>7
<1>13. NewLeaders
    <2> SUFFICES ASSUME NEW x \in Server, state'[x] = Leader
                 PROVE  state[x] = Leader /\ currentTerm'[x] = currentTerm[x]
        BY DEF NewLeaders
    <2>1. CASE x # p
        BY <1>1, <2>1 DEF TypeOK
    <2>2. CASE x = p
        BY <1>1, <1>3, <1>4, <2>2 DEF TypeOK
    <2> QED
        BY <2>1, <2>2
<1>14. VotedForRan'
    <2> SUFFICES ASSUME NEW q \in Server, voteFor'[q] # Nil
                 PROVE  currentTerm'[voteFor'[q]] >= currentTerm'[q]
        BY DEF VotedForRan
    <2>1. CASE voteFor'[q] = voteFor[q] /\ currentTerm'[q] = currentTerm[q]
        <3>1. PICK v \in Server : v = voteFor[q] /\ currentTerm[v] >= currentTerm[q]
            BY <2>1, VoteType DEF Elect, VotedForRan
        <3>2. currentTerm[v] \in Nat /\ currentTerm'[v] \in Nat /\ currentTerm[q] \in Nat
            BY DEF TypeOK
        <3>3. currentTerm'[v] >= currentTerm[v]
            BY <1>8 DEF TermsGrow
        <3> QED
            BY <2>1, <3>1, <3>2, <3>3
    <2>2. CASE q = p /\ grant
        <3>1. voteFor'[q] = f /\ currentTerm'[q] = T /\ currentTerm'[f] = currentTerm[f]
            BY <1>1, <1>3, <1>5, <2>2 DEF TypeOK
        <3>2. currentTerm[f] \in Nat
            BY <1>3 DEF TypeOK
        <3> QED
            BY <1>3, <3>1, <3>2
    <2>3. q # p \/ ~grant => voteFor'[q] = voteFor[q] /\ currentTerm'[q] = currentTerm[q]
        BY <1>1, <1>3, <1>4, <1>5 DEF TypeOK
    <2> QED
        BY <2>1, <2>2, <2>3
<1>15. Honest'
    <2> SUFFICES ASSUME NEW n \in rpcs'
                 PROVE  /\ n.from # n.to /\ n.term <= currentTerm'[n.from]
                        /\ n.kind = "append" /\ ~n.done => ~Cand(n.from, n.term)'
        BY DEF Honest
    <2>1. CASE n \in rpcs
        BY <1>8, <1>10, <2>1, HonestStays DEF Elect
    <2>2. CASE n = reply
        <3>1. currentTerm'[f] = currentTerm[f]
            BY <1>1, <1>3 DEF TypeOK
        <3>2. n.from = f /\ n.to = p /\ n.term = T /\ n.kind = "vote"
            BY <1>6, <2>2
        <3> QED
            BY <1>3, <3>1, <3>2
    <2> QED
        BY <1>7, <2>1, <2>2
<1>16. OthersCounted'
    BY <1>1 DEF Elect, OthersCounted
<1> QED
    BY <1>8, <1>10, <1>11, <1>12, <1>13, <1>14, <1>15, <1>16 DEF Step

\* The vote that m brings makes its caller leader.
LEMMA StepWins ==
    ASSUME TypeOK, TypeOK', Elect, NEW m \in rpcs, NEW V \in SUBSET Server,
           m.kind = "vote", m.done, m.granted, Cand(m.from, m.term),
           \A v \in V : v = m.to \/ Counted(v, m.from, m.term),
           Majority(voteNum(V)),
           state' = [state EXCEPT ![m.from] = Leader],
           tally' = [tally EXCEPT ![m.from] = {}],
           rpcs' \subseteq rpcs,
           UNCHANGED <<currentTerm, voteFor>>
    PROVE  Step
<1>1. PICK s \in Server : s = m.from
    BY MessageKinds DEF TypeOK
<1>2. PICK T \in Nat : T = m.term
    BY MessageKinds DEF TypeOK
<1>3. m.to \in Server /\ m.to # s /\ currentTerm[s] = T /\ state[s] = Candidate
    BY <1>1, <1>2, MessageKinds DEF TypeOK, Elect, Honest, Cand
<1>4. TermsGrow
    BY DEF TermsGrow, TypeOK
<1>5. ASSUME NEW c \in Server, NEW t \in Nat, Cand(c, t)' PROVE c # s /\ Cand(c, t)
    BY <1>1, <1>5 DEF Cand, TypeOK
<1>6. NoLateCandidate /\ KeepsVote
    BY <1>5 DEF NoLateCandidate, KeepsVote
<1>7. NewVotes
    <2>1. ASSUME NEW p \in Server, NEW c \in Server, NEW t \in Nat, Votes(p, c, t)'
          PROVE  Votes(p, c, t)
        <3>1. Cand(c, t) /\ c # s
            BY <1>5, <2>1 DEF Votes
        <3>2. Granted(p, c, t)' => Granted(p, c, t)
            BY DEF Granted
        <3>3. Counted(p, c, t)' => Counted(p, c, t)
            BY <1>1, <3>1, ZenonT(60) DEF Counted, TypeOK
        <3> QED
            BY <2>1, <3>1, <3>2, <3>3 DEF Votes
    <2> QED
        BY <2>1 DEF NewVotes
<1>8. Wins(s)
    <2>1. s \notin V
        BY <1>1, <1>3 DEF Counted, Elect, OthersCounted
    <2>2. IsFiniteSet(V)
        BY ServerAssumption, FS_Subset
    <2>3. Cardinality(V \cup {s}) = Cardinality(V) + 1 /\ Cardinality(V) \in Nat
        BY <2>1, <2>2, FS_AddElement, FS_CardinalityType
    <2>4. Majority(Cardinality(V \cup {s}))
        <3>1. voteNum(V) = Cardinality(V \cup {s})
            BY <2>3 DEF voteNum
        <3> QED
            BY <3>1
    <2>5. ASSUME NEW p \in V \cup {s} PROVE Votes(p, s, T)
        <3>1. CASE p = s
            BY <1>1, <1>2, <3>1 DEF Votes
        <3>2. CASE p = m.to
            BY <1>1, <1>2, <3>2 DEF Votes, Granted
        <3>3. CASE Counted(p, s, T)
            BY <1>1, <1>2, <3>3 DEF Votes
        <3> QED
            BY <1>1, <1>2, <3>1, <3>2, <3>3
    <2>6. Elected(s, V \cup {s})
        BY <1>3, <2>4, <2>5 DEF Elected
    <2> QED
        BY <1>1, <2>6 DEF Wins
<1>9. NewLeaders
    BY <1>1, <1>8 DEF NewLeaders, TypeOK
<1>10. VotedForRan'
    BY DEF Elect, VotedForRan
<1>11. Honest'
    BY <1>4, <1>6, HonestStays DEF Elect, Honest
<1>12. OthersCounted'
    BY <1>1 DEF Elect, OthersCounted, TypeOK
<1> QED
    BY <1>4, <1>6, <1>7, <1>9, <1>10, <1>11, <1>12 DEF Step

\* The vote that m brings is counted and is not enough yet.
LEMMA StepCounts ==
    ASSUME TypeOK, TypeOK', Elect, NEW m \in rpcs, NEW b, b.term = m.term, b.voter = m.to,
           m.kind = "vote", m.done, m.granted,
           tally' = [tally EXCEPT ![m.from] = @ \cup {b}],
           rpcs' \subseteq rpcs,
           UNCHANGED <<currentTerm, voteFor, state>>
    PROVE  Step
<1>1. m.from \in Server /\ m.to # m.from
    BY MessageKinds DEF TypeOK, Elect, Honest
<1>2. TermsGrow
    BY DEF TermsGrow, TypeOK
<1>3. \A c \in Server : \A t \in Nat : Cand(c, t)' <=> Cand(c, t)
    BY DEF Cand
<1>4. NoLateCandidate /\ KeepsVote /\ NewLeaders
    BY <1>3 DEF NoLateCandidate, KeepsVote, NewLeaders
<1>5. \A c \in Server : \A a \in tally'[c] : a \in tally[c] \/ (c = m.from /\ a = b)
    BY <1>1 DEF TypeOK
<1>6. NewVotes
    <2>1. ASSUME NEW p \in Server, NEW c \in Server, NEW t \in Nat, Votes(p, c, t)'
          PROVE  Votes(p, c, t)
        <3>1. Granted(p, c, t)' => Granted(p, c, t)
            BY DEF Granted
        <3>2. Counted(p, c, t)' => Counted(p, c, t) \/ Granted(p, c, t)
            BY <1>5 DEF Counted, Granted
        <3> QED
            BY <1>3, <2>1, <3>1, <3>2 DEF Votes
    <2> QED
        BY <2>1 DEF NewVotes
<1>7. VotedForRan'
    BY DEF Elect, VotedForRan
<1>8. Honest'
    BY <1>2, <1>4, HonestStays DEF Elect, Honest
<1>9. OthersCounted'
    BY <1>1, <1>5 DEF Elect, OthersCounted
<1> QED
    BY <1>2, <1>4, <1>6, <1>7, <1>8, <1>9 DEF Step

LEMMA StepVoteAnswered ==
    ASSUME TypeOK, TypeOK', Elect, NEW m \in rpcs, VoteAnswered(m)
    PROVE  Step
<1> DEFINE s     == m.from
           V     == {v \in Server : [round |-> m.id, term |-> m.term, voter |-> v] \in tally[s]}
                       \cup {m.to}
           stale == currentTerm[s] # m.term \/ state[s] # Candidate
           b     == [round |-> m.id, term |-> m.term, voter |-> m.to]
<1>1. m.kind = "vote" /\ m.done /\ rpcs' \subseteq rpcs
    BY DEF VoteAnswered
<1>2. \/ UNCHANGED <<peerVars, tally>>
      \/ /\ ~stale /\ m.granted /\ Majority(voteNum(V))
         /\ state' = [state EXCEPT ![s] = Leader]
         /\ tally' = [tally EXCEPT ![s] = {}]
         /\ UNCHANGED <<currentTerm, voteFor>>
      \/ /\ ~stale /\ m.granted
         /\ tally' = [tally EXCEPT ![s] = @ \cup {b}]
         /\ UNCHANGED <<currentTerm, voteFor, state>>
      \/ /\ m.replyTerm > currentTerm[s]
         /\ currentTerm' = [currentTerm EXCEPT ![s] = m.replyTerm]
         /\ voteFor' = [voteFor EXCEPT ![s] = Nil]
         /\ state' = [state EXCEPT ![s] = Follower]
         /\ UNCHANGED tally
    BY Zenon DEF VoteAnswered
<1>3. s \in Server /\ m.to \in Server /\ m.replyTerm \in Nat
    BY <1>1, MessageKinds, ZenonT(60) DEF TypeOK, VoteDone
<1>4. V \subseteq Server /\ \A v \in V : v = m.to \/ Counted(v, s, m.term)
    BY <1>3 DEF Counted
<1>5. b.term = m.term /\ b.voter = m.to
    OBVIOUS
<1>6. ~stale => Cand(s, m.term)
    BY DEF Cand
<1> HIDE DEF V, stale, b
<1>7. CASE UNCHANGED <<peerVars, tally>>
    BY <1>1, <1>7, StepIdle DEF peerVars
<1>8. CASE /\ ~stale /\ m.granted /\ Majority(voteNum(V))
           /\ state' = [state EXCEPT ![s] = Leader]
           /\ tally' = [tally EXCEPT ![s] = {}]
           /\ UNCHANGED <<currentTerm, voteFor>>
    BY <1>1, <1>4, <1>6, <1>8, StepWins
<1>9. CASE /\ ~stale /\ m.granted
           /\ tally' = [tally EXCEPT ![s] = @ \cup {b}]
           /\ UNCHANGED <<currentTerm, voteFor, state>>
    BY <1>1, <1>5, <1>9, StepCounts
<1>10. CASE /\ m.replyTerm > currentTerm[s]
            /\ currentTerm' = [currentTerm EXCEPT ![s] = m.replyTerm]
            /\ voteFor' = [voteFor EXCEPT ![s] = Nil]
            /\ state' = [state EXCEPT ![s] = Follower]
            /\ UNCHANGED tally
    BY <1>1, <1>3, <1>10, StepDown
<1> QED
    BY <1>2, <1>7, <1>8, <1>9, <1>10

LEMMA StepAppendAnswered ==
    ASSUME TypeOK, TypeOK', Elect, NEW m \in rpcs, AppendAnswered(m)
    PROVE  Step
<1> DEFINE s == m.from
<1>1. m.kind = "append" /\ m.done /\ rpcs' \subseteq rpcs /\ UNCHANGED tally
    BY DEF AppendAnswered
<1>2. \/ UNCHANGED peerVars
      \/ /\ m.replyTerm > currentTerm[s]
         /\ currentTerm' = [currentTerm EXCEPT ![s] = m.replyTerm]
         /\ voteFor' = [voteFor EXCEPT ![s] = Nil]
         /\ state' = [state EXCEPT ![s] = Follower]
    BY Zenon DEF AppendAnswered
<1>3. s \in Server /\ m.replyTerm \in Nat
    BY <1>1, MessageKinds, ZenonT(60) DEF TypeOK, AppendDone
<1>4. CASE UNCHANGED peerVars
    BY <1>1, <1>4, StepIdle DEF peerVars
<1>5. CASE /\ m.replyTerm > currentTerm[s]
           /\ currentTerm' = [currentTerm EXCEPT ![s] = m.replyTerm]
           /\ voteFor' = [voteFor EXCEPT ![s] = Nil]
           /\ state' = [state EXCEPT ![s] = Follower]
    BY <1>1, <1>3, <1>5, StepDown
<1> QED
    BY <1>2, <1>4, <1>5

\* An AppendEntries of an old term changes no peer; any other one makes its receiver
\* a follower of the sender, which is no candidate of the term.
LEMMA StepAppendHandler ==
    ASSUME TypeOK, TypeOK', Elect, NEW m \in rpcs, RequestAppendEntriesReply(m)
    PROVE  Step
<1>1. PICK p \in Server : p = m.to
    BY MessageKinds DEF TypeOK
<1>2. PICK f \in Server : f = m.from
    BY MessageKinds DEF TypeOK
<1>3. PICK T \in Nat : T = m.term
    BY MessageKinds DEF TypeOK
<1>4. /\ IF T < currentTerm[p]
         THEN UNCHANGED peerVars
         ELSE /\ currentTerm' = [currentTerm EXCEPT ![p] = T]
              /\ voteFor' = [voteFor EXCEPT ![p] = f]
              /\ state' = [state EXCEPT ![p] = Follower]
      /\ UNCHANGED tally
    BY <1>1, <1>2, <1>3, Zenon DEF RequestAppendEntriesReply
<1>5. m.kind = "append" /\ ~m.done
    BY DEF RequestAppendEntriesReply
<1>6. /\ p # f /\ T <= currentTerm[f] /\ ~Cand(f, T)
      /\ currentTerm[p] \in Nat /\ currentTerm[f] \in Nat
    BY <1>1, <1>2, <1>3, <1>5 DEF TypeOK, Elect, Honest
<1>7. ASSUME NEW n \in rpcs', n \notin rpcs
      PROVE  n.kind = "append" /\ n.done /\ n.from = f /\ n.to = p /\ n.term = T
    <2>1. PICK u, ok : rpcs' = (rpcs \ {m}) \cup Answer(m, AppendReply(m, u, ok))
        BY Zenon DEF RequestAppendEntriesReply
    <2>2. n = AppendReply(m, u, ok)
        BY <1>7, <2>1 DEF Answer
    <2> QED
        BY <1>1, <1>2, <1>3, <2>2 DEF AppendReply
<1>8. TermsGrow
    <2> SUFFICES ASSUME NEW q \in Server PROVE currentTerm'[q] >= currentTerm[q]
        BY DEF TermsGrow
    <2>1. currentTerm[q] \in Nat
        BY DEF TypeOK
    <2>2. \/ currentTerm'[q] = currentTerm[q]
          \/ q = p /\ currentTerm'[q] = T /\ ~(T < currentTerm[p])
        BY <1>4, ZenonT(60) DEF TypeOK, peerVars
    <2> QED
        BY <1>6, <2>1, <2>2
<1>9. ASSUME NEW c \in Server, NEW t \in Nat, Cand(c, t)' PROVE Cand(c, t)
    <2>1. CASE T < currentTerm[p]
        BY <1>4, <1>9, <2>1 DEF Cand, peerVars
    <2>2. CASE ~(T < currentTerm[p])
        <3>1. /\ currentTerm' = [currentTerm EXCEPT ![p] = T]
              /\ state' = [state EXCEPT ![p] = Follower]
            BY <1>4, <2>2
        <3> QED
            BY <1>9, <3>1 DEF Cand, TypeOK
    <2> QED
        BY <2>1, <2>2
<1>10. NoLateCandidate
    BY <1>9 DEF NoLateCandidate
<1>11. Honest'
    <2> SUFFICES ASSUME NEW n \in rpcs'
                 PROVE  /\ n.from # n.to /\ n.term <= currentTerm'[n.from]
                        /\ n.kind = "append" /\ ~n.done => ~Cand(n.from, n.term)'
        BY DEF Honest
    <2>1. CASE n \in rpcs
        BY <1>8, <1>10, <2>1, HonestStays DEF Elect
    <2>2. CASE n \notin rpcs
        <3>1. currentTerm'[f] = currentTerm[f]
            BY <1>4, <1>6, ZenonT(60) DEF TypeOK, peerVars
        <3> QED
            BY <1>6, <1>7, <2>2, <3>1
    <2> QED
        BY <2>1, <2>2
<1>12. \A n \in rpcs' : n.kind = "vote" /\ n.done => n \in rpcs
    BY <1>7
<1>13. CASE T < currentTerm[p]
    BY <1>4, <1>11, <1>12, <1>13, QuietStep DEF peerVars
<1>14. CASE ~(T < currentTerm[p])
    <2>1. /\ currentTerm' = [currentTerm EXCEPT ![p] = T]
          /\ voteFor' = [voteFor EXCEPT ![p] = f]
          /\ state' = [state EXCEPT ![p] = Follower]
          /\ tally' = tally
        BY <1>4, <1>14
    <2>2. KeepsVote
        <3> SUFFICES ASSUME NEW q \in Server, currentTerm'[q] = currentTerm[q], voteFor[q] # Nil
                     PROVE  \/ voteFor'[q] = voteFor[q]
                            \/ /\ voteFor'[q] \in Server
                               /\ currentTerm[voteFor'[q]] >= currentTerm[q]
                               /\ ~Cand(voteFor'[q], currentTerm[q])
            BY DEF KeepsVote
        <3>1. CASE q # p
            BY <2>1, <3>1 DEF TypeOK
        <3>2. CASE q = p
            <4>1. voteFor'[q] = f /\ currentTerm[q] = T
                BY <2>1, <3>2 DEF TypeOK
            <4> QED
                BY <1>6, <4>1
        <3> QED
            BY <3>1, <3>2
    <2>3. NewVotes
        <3>1. ASSUME NEW q \in Server, NEW c \in Server, NEW t \in Nat, Votes(q, c, t)'
              PROVE  Votes(q, c, t)
            <4>1. Granted(q, c, t)' => Granted(q, c, t)
                BY <1>12 DEF Granted
            <4>2. Counted(q, c, t)' => Counted(q, c, t)
                BY <2>1 DEF Counted
            <4> QED
                BY <1>9, <3>1, <4>1, <4>2 DEF Votes
        <3> QED
            BY <3>1 DEF NewVotes
    <2>4. NewLeaders
        BY <2>1 DEF NewLeaders, TypeOK
    <2>5. VotedForRan'
        <3> SUFFICES ASSUME NEW q \in Server, voteFor'[q] # Nil
                     PROVE  currentTerm'[voteFor'[q]] >= currentTerm'[q]
            BY DEF VotedForRan
        <3>1. CASE q = p
            <4>1. voteFor'[q] = f /\ currentTerm'[q] = T /\ currentTerm'[f] = currentTerm[f]
                BY <1>6, <2>1, <3>1 DEF TypeOK
            <4> QED
                BY <1>6, <4>1
        <3>2. CASE q # p
            <4>1. voteFor'[q] = voteFor[q] /\ currentTerm'[q] = currentTerm[q]
                BY <2>1, <3>2 DEF TypeOK
            <4>2. PICK v \in Server : v = voteFor[q] /\ currentTerm[v] >= currentTerm[q]
                BY <4>1, VoteType DEF Elect, VotedForRan
            <4>3. currentTerm[v] \in Nat /\ currentTerm'[v] \in Nat /\ currentTerm[q] \in Nat
                BY DEF TypeOK
            <4>4. currentTerm'[v] >= currentTerm[v]
                BY <1>8 DEF TermsGrow
            <4> QED
                BY <4>1, <4>2, <4>3, <4>4
        <3> QED
            BY <3>1, <3>2
    <2>6. OthersCounted'
        BY <2>1 DEF Elect, OthersCounted
    <2> QED
        BY <1>8, <1>10, <1>11, <2>2, <2>3, <2>4, <2>5, <2>6 DEF Step
<1> QED
    BY <1>13, <1>14

----------------------------------------------------------------------------
(* The theorem.                                                            *)

\* Nobody restarts a peer or preempts it between a look at its role and the lock.
Undisturbed == ~Preempt /\ MaxRestart = 0

LEMMA ElectInit == Init => Elect
<1> SUFFICES ASSUME Init PROVE Elect
    OBVIOUS
<1>1. \A p \in Server : currentTerm[p] = 0 /\ voteFor[p] = Nil /\ state[p] = Follower /\ tally[p] = {}
    BY DEF Init
<1>2. rpcs = {}
    BY DEF Init
<1>3. \A p, c \in Server : \A t \in Nat : ~Votes(p, c, t)
    BY <1>1 DEF Votes, Cand
<1> QED
    BY <1>1, <1>2, <1>3
       DEF Elect, VotedForRan, Honest, OthersCounted, VotersKnow, OneVote, LeadersDecided,
           ElectionSafety

LEMMA NextIsStep ==
    ASSUME Sound, Elect, Undisturbed, [Next]_vars
    PROVE  Step
<1> USE DEF Undisturbed
<1>1. TypeOK /\ TypeOK'
    BY SoundNext DEF Sound
<1>2. CASE UNCHANGED vars
    BY <1>1, <1>2, StepIdle DEF vars, peerVars
<1>3. ASSUME NEW s \in Server, startElection(s) PROVE Step
    BY <1>1, <1>3, StepElection
<1>4. ASSUME NEW s \in Server, NEW r \in electing[s], RequestVote(s, r) PROVE Step
    BY <1>1, <1>4, StepRequestVote
<1>5. ASSUME NEW s \in Server, NEW p \in Server, RequestHeartBeat(s, p) PROVE Step
    BY <1>1, <1>5, StepHeartBeat
<1>6. ASSUME NEW s \in Server, NEW c \in Command, Start(s, c) PROVE Step
    BY <1>1, <1>6, StepIdle DEF Start, peerVars
<1>7. ASSUME NEW s \in Server, applier(s) PROVE Step
    BY <1>1, <1>7, StepIdle DEF applier, peerVars
<1>8. ASSUME NEW s \in Server, start1(s) PROVE FALSE
    <2>1. restarts \in Nat
        BY <1>1 DEF TypeOK
    <2>2. restarts < MaxRestart
        BY <1>8, Zenon DEF start1
    <2> QED
        BY <2>1, <2>2
<1>9. ASSUME NEW m \in rpcs, RequestVoteReply(m) PROVE Step
    BY <1>1, <1>9, StepVoteHandler
<1>10. ASSUME NEW m \in rpcs, VoteAnswered(m) PROVE Step
    BY <1>1, <1>10, StepVoteAnswered
<1>11. ASSUME NEW m \in rpcs, RequestAppendEntriesReply(m) PROVE Step
    BY <1>1, <1>11, StepAppendHandler
<1>12. ASSUME NEW m \in rpcs, AppendAnswered(m) PROVE Step
    BY <1>1, <1>12, StepAppendAnswered
<1>13. ASSUME NEW m \in rpcs, Lose(m) PROVE Step
    BY <1>1, <1>13, StepIdle DEF Lose, peerVars
<1>14. CASE Next
    BY <1>3, <1>4, <1>5, <1>6, <1>7, <1>8, <1>9, <1>10, <1>11, <1>12, <1>13, <1>14 DEF Next
<1> QED
    BY <1>2, <1>14

\* The invariant the theorems rest on.
Election == Undisturbed /\ Sound /\ Elect

LEMMA ElectionInvariant == Undisturbed /\ Spec => []Election
<1>1. Undisturbed /\ Init => Election
    BY SoundInit, ElectInit DEF Election
<1>2. Election /\ [Next]_vars => Election'
    BY SoundNext, NextIsStep, ElectStep DEF Election, Sound, Undisturbed
<1> QED
    BY <1>1, <1>2, PTL DEF Spec

\* No term has two leaders (checkOneLeader, config.go:317-320), in clusters of any size
\* and whatever the network does, as long as no peer restarts with its votes forgotten
\* (persist() is empty, raft.go:104-113) and no heartbeat goroutine is preempted between
\* the check of the role and its lock (raft.go:744-760 and 201).
THEOREM OneLeader == Undisturbed /\ Spec => []ElectionSafety
<1>1. Election => ElectionSafety
    BY DEF Election, Elect
<1> QED
    BY ElectionInvariant, <1>1, PTL

\* In a term a peer helps at most one candidate, although RequestAppendEntriesReply
\* overwrites voteFor (raft.go:306, 333), under the same assumptions as OneLeader.
THEOREM OneUsefulVote == Undisturbed /\ Spec => VoteOnce
<1>1. Election /\ [Next]_vars =>
        [\A s \in Server :
            \/ currentTerm'[s] > currentTerm[s]
            \/ /\ currentTerm'[s] = currentTerm[s]
               /\ voteFor[s] # Nil => voteFor'[s] # Nil
               /\ voteFor[s] \notin {Nil, voteFor'[s]} =>
                      \/ state[voteFor'[s]] # Candidate
                      \/ currentTerm[voteFor'[s]] # currentTerm[s]]_vars
    <2> SUFFICES ASSUME Election, [Next]_vars, NEW s \in Server
                 PROVE  \/ currentTerm'[s] > currentTerm[s]
                        \/ /\ currentTerm'[s] = currentTerm[s]
                           /\ voteFor[s] # Nil => voteFor'[s] # Nil
                           /\ voteFor[s] \notin {Nil, voteFor'[s]} =>
                                  \/ state[voteFor'[s]] # Candidate
                                  \/ currentTerm[voteFor'[s]] # currentTerm[s]
        OBVIOUS
    <2>1. Sound /\ Sound' /\ Step
        BY SoundNext, NextIsStep DEF Election
    <2>2. currentTerm[s] \in Nat /\ currentTerm'[s] \in Nat /\ currentTerm'[s] >= currentTerm[s]
        BY <2>1 DEF Sound, TypeOK, Step, TermsGrow
    <2>3. ASSUME currentTerm'[s] = currentTerm[s], voteFor[s] # Nil
          PROVE  \/ voteFor'[s] = voteFor[s]
                 \/ voteFor'[s] # Nil /\ ~Cand(voteFor'[s], currentTerm[s])
        BY <2>1, <2>3, ServerAssumption DEF Step, KeepsVote
    <2> QED
        BY <2>2, <2>3 DEF Cand
<1> QED
    BY ElectionInvariant, <1>1, PTL DEF Spec, VoteOnce

----------------------------------------------------------------------------
(* The logs.  Calls of one leader to one peer overlap as they like, and    *)
(* former leaders are elected again.  Beside Undisturbed, two states are   *)
(* excluded, which are the code's two defects here: a nextIndex of 0       *)
(* (NextIndexPositive) and a candidate whose old matchIndex reaches past   *)
(* its log (MatchInLog).                                                   *)

----------------------------------------------------------------------------
(* nextIndex.                                                              *)

\* How many entries an AppendEntries carries or has carried.
Carried(m) == IF m.done THEN m.count ELSE Len(m.entries)

DummyFirst == \A s \in Server : log[s][1] = Dummy

AppendsOfLeaders ==
    \A m \in rpcs : m.kind = "append" => m.id # Gone /\ ~Cand(m.from, m.term)

\* What a leader has sent in its term ends inside its log.
CallsInLog ==
    \A m \in rpcs :
        /\ m.kind = "append"
        /\ state[m.from] = Leader
        /\ currentTerm[m.from] = m.term
        => m.prevLogIndex + Carried(m) < Len(log[m.from])

NextIndexBelow ==
    \A s, p \in Server : state[s] = Leader => nextIndex[s][p] <= Len(log[s])

Index == DummyFirst /\ AppendsOfLeaders /\ CallsInLog /\ NextIndexBelow

\* Logs are nonempty sequences.
LEMMA LogsType ==
    ASSUME NEW l \in [Server -> Seq(Entry) \ {<<>>}]
    PROVE  \A s \in Server : l[s] \in Seq(Entry) /\ Len(l[s]) \in Nat /\ Len(l[s]) >= 1
<1> SUFFICES ASSUME NEW s \in Server
             PROVE  l[s] \in Seq(Entry) /\ Len(l[s]) \in Nat /\ Len(l[s]) >= 1
    OBVIOUS
<1>1. l[s] \in Seq(Entry) /\ l[s] # <<>>
    OBVIOUS
<1> QED
    BY <1>1

LEMMA CarriedType ==
    ASSUME TypeOK, NEW m \in rpcs, m.kind = "append"
    PROVE  m.prevLogIndex \in Nat /\ Carried(m) \in Nat
<1>1. m \in Message
    BY DEF TypeOK
<1>2. CASE m.done
    <2>1. m \in AppendDone
        BY <1>1, <1>2, MessageKinds
    <2> QED
        BY <1>2, <2>1 DEF AppendDone, Carried
<1>3. CASE ~m.done
    <2>1. m \in AppendCall
        BY <1>1, <1>3, MessageKinds
    <2> QED
        BY <1>3, <2>1 DEF AppendCall, Carried
<1> QED
    BY <1>2, <1>3

LEMMA IndexInit == Init => Index
<1> SUFFICES ASSUME Init PROVE Index
    OBVIOUS
<1>1. rpcs = {} /\ \A s \in Server : log[s] = <<Dummy>> /\ state[s] = Follower
    BY DEF Init, FreshLog
<1> QED
    BY <1>1 DEF Index, DummyFirst, AppendsOfLeaders, CallsInLog, NextIndexBelow

\* A call that is under way stays one of no candidate.
LEMMA AppendsStay ==
    ASSUME TypeOK, TypeOK', Elect, Step, Index, NEW m \in rpcs, m.kind = "append"
    PROVE  m.id # Gone /\ ~Cand(m.from, m.term)'
<1>1. PICK f \in Server : f = m.from
    BY MessageKinds DEF TypeOK
<1>2. PICK t \in Nat : t = m.term
    BY MessageKinds DEF TypeOK
<1>3. m.id # Gone /\ ~Cand(f, t) /\ t <= currentTerm[f] /\ currentTerm[f] \in Nat
    BY <1>1, <1>2 DEF Index, AppendsOfLeaders, Elect, Honest, TypeOK
<1>4. ~Cand(f, t)'
    BY <1>3 DEF Step, NoLateCandidate
<1> QED
    BY <1>1, <1>2, <1>3, <1>4

\* The leaders after a step have led before, and their logs have only grown.
OldLeaders ==
    \A s \in Server : state'[s] = Leader =>
        /\ state[s] = Leader /\ currentTerm'[s] = currentTerm[s]
        /\ nextIndex'[s] = nextIndex[s]
        /\ Len(log'[s]) >= Len(log[s])

\* Steps that make no AppendEntries and leave the leaders' indices alone.
LEMMA IndexQuiet ==
    ASSUME TypeOK, TypeOK', Elect, Step, Index, OldLeaders, DummyFirst',
           \A m \in rpcs' : m.kind = "append" => m \in rpcs
    PROVE  Index'
<1>1. AppendsOfLeaders'
    BY AppendsStay DEF AppendsOfLeaders
<1>3. CallsInLog'
    <2> SUFFICES ASSUME NEW m \in rpcs', m.kind = "append", state'[m.from] = Leader,
                        currentTerm'[m.from] = m.term
                 PROVE  m.prevLogIndex + Carried(m) < Len(log'[m.from])
        BY DEF CallsInLog, Carried
    <2>1. m \in rpcs
        OBVIOUS
    <2>2. PICK f \in Server : f = m.from
        BY <2>1, MessageKinds DEF TypeOK
    <2>9. /\ state[f] = Leader /\ currentTerm'[f] = currentTerm[f]
          /\ Len(log'[f]) >= Len(log[f])
        BY <2>2 DEF OldLeaders
    <2>4. PICK k \in Nat : k = m.prevLogIndex + Carried(m)
        BY <2>1, CarriedType
    <2>3. k < Len(log[f])
        BY <2>1, <2>2, <2>4, <2>9 DEF Index, CallsInLog
    <2>5. Len(log[f]) \in Nat /\ Len(log'[f]) \in Nat
        BY LogsType DEF TypeOK
    <2> QED
        BY <2>2, <2>9, <2>3, <2>4, <2>5
<1>4. NextIndexBelow'
    <2> SUFFICES ASSUME NEW s \in Server, NEW p \in Server, state'[s] = Leader
                 PROVE  nextIndex'[s][p] <= Len(log'[s])
        BY Zenon DEF NextIndexBelow
    <2>1. Len(log[s]) \in Nat /\ Len(log'[s]) \in Nat
        BY LogsType DEF TypeOK
    <2>4. nextIndex[s][p] \in Int
        BY DEF TypeOK
    <2>2. nextIndex[s][p] <= Len(log[s])
        BY DEF OldLeaders, Index, NextIndexBelow
    <2>3. nextIndex'[s][p] = nextIndex[s][p] /\ Len(log'[s]) >= Len(log[s])
        BY DEF OldLeaders
    <2> QED
        BY <2>1, <2>2, <2>3, <2>4
<1> QED
    BY <1>1, <1>3, <1>4 DEF Index

LEMMA TailLaws ==
    ASSUME NEW S, NEW l \in Seq(S), NEW n \in Nat, n + 1 \in 1..Len(l)
    PROVE  LET t == SubSeq(l, n + 1, Len(l))
           IN  /\ t \in Seq(S) /\ Len(t) = Len(l) - n
               /\ \A j \in 1..(Len(l) - n) : t[j] = l[n + j]
<1>1. Len(l) \in Nat
    OBVIOUS
<1>2. Len(SubSeq(l, n + 1, Len(l))) = Len(l) - n
    BY <1>1
<1>3. SubSeq(l, n + 1, Len(l)) \in Seq(S)
    BY <1>1
<1>4. ASSUME NEW j \in 1..(Len(l) - n) PROVE SubSeq(l, n + 1, Len(l))[j] = l[n + j]
    BY <1>1
<1> QED
    BY <1>2, <1>3, <1>4

LEMMA ConcatLaws ==
    ASSUME NEW S, NEW a \in Seq(S), NEW b \in Seq(S)
    PROVE  /\ a \o b \in Seq(S)
           /\ Len(a \o b) = Len(a) + Len(b)
           /\ \A i \in 1..Len(a) : (a \o b)[i] = a[i]
           /\ \A i \in 1..Len(b) : (a \o b)[Len(a) + i] = b[i]
OBVIOUS

\* The log l has entries of the same terms as es after index prev.
HasAll(l, prev, es) ==
    \A i \in 1..Len(es) : prev + i < Len(l) /\ l[prev + i + 1].term = es[i].term

\* The log r is l up to the first conflict, of entry j of es, and es from there on.
CutsAt(l, prev, es, r, j) ==
    /\ prev + j <= Len(l)
    /\ \A i \in 1..(j - 1) : prev + i < Len(l) /\ l[prev + i + 1].term = es[i].term
    /\ prev + j < Len(l) => l[prev + j + 1].term # es[j].term
    /\ r \in Seq(Entry) /\ Len(r) = prev + 1 + Len(es)
    /\ \A i \in 1..(prev + j) : r[i] = l[i]
    /\ \A i \in (prev + j + 1)..(prev + 1 + Len(es)) : r[i] = es[i - prev - 1]

\* The log of a follower after a merge: its old one, if that has all the entries, or
\* else the old one up to the first conflict, followed by the entries from there on.
LEMMA MergeShape ==
    ASSUME NEW l \in Seq(Entry), NEW prev \in Nat, NEW es \in Seq(Entry), prev < Len(l)
    PROVE  \/ Merge(l, prev, es) = l /\ HasAll(l, prev, es)
           \/ \E j \in 1..Len(es) : CutsAt(l, prev, es, Merge(l, prev, es), j)
<1> DEFINE fresh == {j \in 1..Len(es) : \/ prev + j >= Len(l)
                                        \/ At(l, prev + j).term # es[j].term}
           k == Min(fresh)
           r == Merge(l, prev, es)
<1>0. Len(l) \in Nat /\ Len(es) \in Nat
    OBVIOUS
<1>1. CASE fresh = {}
    <2>1. r = l
        BY <1>1 DEF Merge
    <2>2. ASSUME NEW i \in 1..Len(es)
          PROVE  prev + i < Len(l) /\ l[prev + i + 1].term = es[i].term
        <3>1. i \notin fresh
            BY <1>1
        <3> QED
            BY <1>0, <3>1 DEF At
    <2> QED
        BY <2>1, <2>2 DEF HasAll
<1>2. CASE fresh # {}
    <2>1. k \in fresh /\ \A j \in fresh : k <= j
        <3>1. fresh \subseteq Nat /\ fresh # {}
            BY <1>2
        <3> QED
            BY <3>1, MinInSet
    <2>2. ASSUME NEW i \in 1..(k - 1)
          PROVE  prev + i < Len(l) /\ l[prev + i + 1].term = es[i].term
        <3>1. i \in 1..Len(es) /\ i \notin fresh
            BY <1>0, <2>1
        <3> QED
            BY <1>0, <3>1 DEF At
    <2>3. k \in 1..Len(es) /\ (prev + k < Len(l) => l[prev + k + 1].term # es[k].term)
        BY <1>0, <2>1 DEF At
    <2>4. r = SubSeq(l, 1, prev + k) \o SubSeq(es, k, Len(es))
        BY <1>2 DEF Merge
    <2> HIDE DEF k, fresh, r
    <2>5. prev + k <= Len(l)
        <3>1. CASE k = 1
            BY <1>0, <3>1
        <3>2. CASE k # 1
            <4>1. k - 1 \in 1..(k - 1)
                BY <2>3, <3>2
            <4>2. prev + (k - 1) < Len(l)
                BY <2>2, <4>1
            <4> QED
                BY <1>0, <2>3, <4>2
        <3> QED
            BY <3>1, <3>2
    <2> DEFINE a == SubSeq(l, 1, prev + k) b == SubSeq(es, k, Len(es))
    <2>6. /\ a \in Seq(Entry) /\ Len(a) = prev + k
          /\ \A i \in 1..(prev + k) : a[i] = l[i]
        BY <1>0, <2>3, <2>5, SMTT(30)
    <2>7. /\ b \in Seq(Entry) /\ Len(b) = Len(es) - k + 1
          /\ \A i \in 1..(Len(es) - k + 1) : b[i] = es[k + i - 1]
        BY <1>0, <2>3, SMTT(30)
    <2>8. r = a \o b
        BY <2>4
    <2> HIDE DEF a, b
    <2>20. PICK h \in Nat : h = k
        BY <1>0, <2>3
    <2>21. PICK n \in Nat : n = Len(es)
        BY <1>0
    <2>22. 1 <= h /\ h <= n /\ Len(a) = prev + h /\ Len(b) = n - h + 1
        BY <2>3, <2>6, <2>7, <2>20, <2>21
    <2>23. r \in Seq(Entry) /\ Len(r) = Len(a) + Len(b)
        BY <2>6, <2>7, <2>8, ConcatLaws
    <2>9. r \in Seq(Entry) /\ Len(r) = prev + 1 + Len(es)
        BY <2>21, <2>22, <2>23
    <2>10. \A i \in 1..(prev + k) : r[i] = l[i]
        BY <1>0, <2>3, <2>6, <2>7, <2>8
    <2>11. ASSUME NEW i \in (prev + k + 1)..(prev + 1 + Len(es)) PROVE r[i] = es[i - prev - 1]
        <3>1. i \in (prev + h + 1)..(prev + 1 + n)
            BY <2>20, <2>21
        <3>2. PICK x \in 1..(n - h + 1) : i = prev + h + x
            <4>1. i - (prev + h) \in 1..(n - h + 1) /\ i = prev + h + (i - (prev + h))
                BY <2>22, <3>1
            <4> QED
                BY <4>1
        <3>3. r[i] = b[x]
            <4>1. x \in 1..Len(b) /\ Len(a) + x = i
                BY <2>22, <3>2
            <4>2. \A y \in 1..Len(b) : (a \o b)[Len(a) + y] = b[y]
                BY <2>6, <2>7, ConcatLaws, SMTT(30)
            <4>3. (a \o b)[Len(a) + x] = b[x]
                BY <4>1, <4>2, Zenon
            <4> QED
                BY <2>8, <4>1, <4>3, Zenon
        <3>4. b[x] = es[h + x - 1]
            BY <2>7, <2>20, <2>21, <3>2
        <3>5. h + x - 1 = i - prev - 1
            BY <3>2
        <3> QED
            BY <3>3, <3>4, <3>5
    <2>12. k \in 1..Len(es) /\ CutsAt(l, prev, es, r, k)
        BY <2>2, <2>3, <2>5, <2>9, <2>10, <2>11 DEF CutsAt
    <2> QED
        BY <2>12 DEF r
<1> QED
    BY <1>1, <1>2

\* r is an AppendEntries of leader s to p that continues s's log to its end.
Continues(r, s, p) ==
    /\ r.kind = "append" /\ ~r.done /\ r.id # Gone /\ r.from = s /\ r.to = p
    /\ r.term = currentTerm[s] /\ r.leaderCommit = commitIndex[s]
    /\ r.prevLogIndex \in Nat /\ r.entries \in Seq(Entry)
    /\ r.prevLogIndex + 1 = nextIndex[s][p]
    /\ r.prevLogIndex + Len(r.entries) = LastIndex(log[s])
    /\ \A j \in 1..Len(r.entries) : r.entries[j] = log[s][r.prevLogIndex + 1 + j]
    /\ \/ r.prevLogTerm = log[s][r.prevLogIndex + 1].term
       \/ r.prevLogIndex = 0 /\ r.entries # <<>>

LEMMA HeartBeatSends ==
    ASSUME TypeOK, Index, ~Preempt, NextIndexPositive, NEW s \in Server, NEW p \in Server,
           RequestHeartBeat(s, p)
    PROVE  /\ s # p /\ state[s] = Leader
           /\ \E r : rpcs' = rpcs \cup {r} /\ Continues(r, s, p)
<1> DEFINE free == (1..MaxInFlight) \ {m.id : m \in AppendCalls(s, p)}
           k == Min(free)
<1>1. s # p /\ state[s] = Leader /\ free # {} /\ rpcs' = rpcs \cup {AppendRequest(s, p, k)}
    BY Zenon DEF RequestHeartBeat, actsFor
<1>2. k # Gone
    <2>1. free \subseteq Nat
        BY BoundAssumption
    <2>2. k \in free
        BY <1>1, <2>1, MinInSet
    <2> QED
        BY <2>2, BoundAssumption DEF Gone
<1> HIDE DEF k
<1>3. PICK l \in Seq(Entry) : l = log[s]
    BY LogsType DEF TypeOK
<1>4. PICK z \in Nat : z = Len(l) /\ z >= 1
    BY <1>3, LogsType DEF TypeOK
<1>5. PICK n \in 1..z : n = nextIndex[s][p]
    <2>1. nextIndex[s][p] \in Int
        BY DEF TypeOK
    <2>2. nextIndex[s][p] <= z /\ nextIndex[s][p] >= 1
        BY <1>1, <1>3, <1>4 DEF Index, NextIndexBelow, NextIndexPositive
    <2> QED
        BY <1>4, <2>1, <2>2
<1> DEFINE idle == LastIndex(l) < n
           r == AppendRequest(s, p, k)
<1>6. idle <=> n = z
    BY <1>4, <1>5 DEF LastIndex
<1>7. /\ r.kind = "append" /\ ~r.done /\ r.id # Gone /\ r.from = s /\ r.to = p
      /\ r.term = currentTerm[s] /\ r.leaderCommit = commitIndex[s]
    BY <1>2 DEF AppendRequest
<1>8. /\ r.prevLogIndex = IF idle \/ n > 1 THEN n - 1 ELSE 0
      /\ r.prevLogTerm = IF idle \/ n > 1 THEN At(l, n - 1).term ELSE -1
      /\ r.entries = IF idle THEN <<>> ELSE SubSeq(l, n + 1, Len(l))
    BY <1>3, <1>5 DEF AppendRequest
<1> HIDE DEF idle, r
<1>9. r.prevLogIndex = n - 1 /\ r.prevLogIndex \in Nat /\ r.prevLogIndex + 1 = n
    BY <1>5, <1>8
<1>10. CASE n = z
    <2>1. r.entries = <<>> /\ r.entries \in Seq(Entry) /\ Len(r.entries) = 0
        BY <1>6, <1>8, <1>10
    <2>2. At(l, n - 1) = l[n]
        BY <1>5 DEF At
    <2>3. r.prevLogTerm = l[r.prevLogIndex + 1].term
        BY <1>6, <1>8, <1>9, <1>10, <2>2
    <2>4. r.prevLogIndex + Len(r.entries) = LastIndex(l)
        BY <1>4, <1>9, <1>10, <2>1 DEF LastIndex
    <2>5. \A j \in 1..Len(r.entries) : r.entries[j] = l[r.prevLogIndex + 1 + j]
        BY <2>1
    <2>6. Continues(r, s, p)
        BY <1>3, <1>5, <1>7, <1>9, <2>1, <2>3, <2>4, <2>5 DEF Continues
    <2> QED
        BY <1>1, <1>2, <2>6 DEF r
<1>11. CASE n # z
    <2>1. r.entries = SubSeq(l, n + 1, z)
        BY <1>4, <1>6, <1>8, <1>11
    <2>2. /\ r.entries \in Seq(Entry) /\ Len(r.entries) = z - n
          /\ \A j \in 1..(z - n) : r.entries[j] = l[n + j]
        <3>1. n + 1 \in 1..Len(l) /\ Len(l) = z
            BY <1>4, <1>5, <1>11
        <3> QED
            BY <2>1, <3>1, TailLaws
    <2>7. PICK d \in Nat : d = z - n
        BY <1>4, <1>5
    <2>8. Len(r.entries) = d /\ d > 0 /\ (n - 1) + d = z - 1
        <3>1. d > 0 /\ (n - 1) + d = z - 1
            BY <1>4, <1>5, <1>11, <2>7, SMTT(30)
        <3> QED
            BY <2>2, <2>7, <3>1, Zenon
    <2>9. r.entries # <<>>
        BY <2>8
    <2>3. r.prevLogIndex + Len(r.entries) = LastIndex(l)
        BY <1>4, <1>9, <2>8 DEF LastIndex
    <2>4. \A j \in 1..Len(r.entries) : r.entries[j] = l[r.prevLogIndex + 1 + j]
        <3> SUFFICES ASSUME NEW j \in 1..d PROVE r.entries[j] = l[r.prevLogIndex + 1 + j]
            BY <2>8
        <3> QED
            BY <1>9, <2>2, <2>7
    <2>5. \/ r.prevLogTerm = l[r.prevLogIndex + 1].term
          \/ r.prevLogIndex = 0
        <3>1. CASE n = 1
            BY <1>9, <3>1
        <3>2. CASE n # 1
            <4>1. At(l, n - 1) = l[n] /\ n > 1
                BY <1>5, <3>2 DEF At
            <4> QED
                BY <1>8, <1>9, <4>1
        <3> QED
            BY <3>1, <3>2
    <2>6. Continues(r, s, p)
        BY <1>3, <1>5, <1>7, <1>9, <2>2, <2>3, <2>4, <2>5, <2>9 DEF Continues
    <2> QED
        BY <1>1, <1>2, <2>6 DEF r
<1> QED
    BY <1>10, <1>11

LEMMA IndexHeartBeat ==
    ASSUME TypeOK, TypeOK', Elect, Step, Index, ~Preempt, NextIndexPositive,
           NEW s \in Server, NEW p \in Server, RequestHeartBeat(s, p)
    PROVE  Index'
<1>1. s # p /\ state[s] = Leader
    BY HeartBeatSends
<1>2. PICK r : rpcs' = rpcs \cup {r} /\ Continues(r, s, p)
    BY HeartBeatSends
<1>3. UNCHANGED <<currentTerm, state, log, nextIndex>>
    BY DEF RequestHeartBeat, peerVars, logVars, leaderVars
<1>4. r.kind = "append" /\ ~r.done /\ r.id # Gone /\ r.from = s /\ r.to = p /\ r.term = currentTerm[s]
    BY <1>2 DEF Continues
<1>5. DummyFirst'
    BY <1>3 DEF Index, DummyFirst
<1>6. AppendsOfLeaders'
    <2>1. state'[s] # Candidate
        BY <1>1, <1>3
    <2>2. r.id # Gone /\ ~Cand(r.from, r.term)'
        BY <1>4, <2>1 DEF Cand
    <2> QED
        BY <1>2, <2>2, AppendsStay DEF AppendsOfLeaders
<1>8. r.prevLogIndex + Carried(r) < Len(log[s])
    <2>1. Len(log[s]) \in Nat
        BY LogsType DEF TypeOK
    <2>2. r.prevLogIndex + Carried(r) = Len(log[s]) - 1
        BY <1>2, <1>4 DEF Continues, Carried, LastIndex
    <2> QED
        BY <2>1, <2>2
<1>9. CallsInLog'
    BY <1>2, <1>3, <1>4, <1>8 DEF Index, CallsInLog, Carried
<1>10. NextIndexBelow'
    BY <1>3 DEF Index, NextIndexBelow
<1> QED
    BY <1>5, <1>6, <1>9, <1>10 DEF Index

\* A candidate becomes leader and sets nextIndex; it has sent no AppendEntries yet.
LEMMA IndexWins ==
    ASSUME TypeOK, TypeOK', Elect, Step, Index, NEW s \in Server, Cand(s, currentTerm[s]),
           state' = [state EXCEPT ![s] = Leader],
           nextIndex' = [nextIndex EXCEPT ![s] = [p \in Server |-> Len(log[s])]],
           rpcs' \subseteq rpcs,
           UNCHANGED <<currentTerm, log>>
    PROVE  Index'
<1>1. DummyFirst'
    BY DEF Index, DummyFirst
<1>2. AppendsOfLeaders'
    BY AppendsStay DEF AppendsOfLeaders
<1>3. CallsInLog'
    <2> SUFFICES ASSUME NEW m \in rpcs', m.kind = "append", state'[m.from] = Leader,
                        currentTerm[m.from] = m.term
                 PROVE  m.prevLogIndex + Carried(m) < Len(log[m.from])
        BY DEF CallsInLog, Carried
    <2>1. m \in rpcs
        OBVIOUS
    <2>2. PICK f \in Server : f = m.from
        BY <2>1, MessageKinds DEF TypeOK
    <2>3. f # s
        BY <2>1, <2>2 DEF Index, AppendsOfLeaders
    <2>4. state[f] = Leader
        BY <2>2, <2>3 DEF TypeOK
    <2> QED
        BY <2>1, <2>2, <2>4 DEF Index, CallsInLog
<1>4. NextIndexBelow'
    <2> SUFFICES ASSUME NEW x \in Server, NEW p \in Server, state'[x] = Leader
                 PROVE  nextIndex'[x][p] <= Len(log[x])
        BY DEF NextIndexBelow
    <2>1. CASE x = s
        <3>1. nextIndex'[x][p] = Len(log[x])
            BY <2>1 DEF TypeOK
        <3>2. Len(log[x]) \in Nat
            BY LogsType DEF TypeOK
        <3> QED
            BY <3>1, <3>2
    <2>2. CASE x # s
        <3>1. state[x] = Leader /\ nextIndex'[x] = nextIndex[x]
            BY <2>2 DEF TypeOK
        <3> QED
            BY <3>1 DEF Index, NextIndexBelow
    <2> QED
        BY <2>1, <2>2
<1> QED
    BY <1>1, <1>2, <1>3, <1>4 DEF Index

\* The answer to m moves one nextIndex, not past the end of the log.
LEMMA IndexMoves ==
    ASSUME TypeOK, TypeOK', Elect, Step, Index, NEW m \in rpcs, m.kind = "append",
           currentTerm[m.from] = m.term, NEW v,
           state[m.from] = Leader => v <= Len(log[m.from]),
           nextIndex' = [nextIndex EXCEPT ![m.from][m.to] = v],
           rpcs' = rpcs \ {m},
           UNCHANGED <<currentTerm, state, log>>
    PROVE  Index'
<1>1. PICK s \in Server : s = m.from
    BY MessageKinds DEF TypeOK
<1>2. PICK p \in Server : p = m.to
    BY MessageKinds DEF TypeOK
<1>3. /\ nextIndex'[s][p] = v
      /\ \A x, y \in Server : x # s \/ y # p => nextIndex'[x][y] = nextIndex[x][y]
    <2>1. nextIndex \in [Server -> [Server -> Int]]
        BY DEF TypeOK
    <2>2. nextIndex' = [nextIndex EXCEPT ![s] = [nextIndex[s] EXCEPT ![p] = v]]
        BY <1>1, <1>2
    <2>3. \A x \in Server : nextIndex'[x] = IF x = s THEN [nextIndex[s] EXCEPT ![p] = v] ELSE nextIndex[x]
        BY <2>1, <2>2
    <2>4. nextIndex[s] \in [Server -> Int]
        BY <2>1
    <2>5. \A y \in Server : nextIndex'[s][y] = IF y = p THEN v ELSE nextIndex[s][y]
        BY <2>3, <2>4
    <2> QED
        BY <2>3, <2>5
<1>4. DummyFirst'
    BY DEF Index, DummyFirst
<1>5. AppendsOfLeaders'
    BY AppendsStay DEF AppendsOfLeaders
<1>6. CallsInLog'
    BY DEF Index, CallsInLog, Carried
<1>7. NextIndexBelow'
    BY <1>1, <1>3 DEF Index, NextIndexBelow
<1> QED
    BY <1>4, <1>5, <1>6, <1>7 DEF Index

LEMMA IndexAnswered ==
    ASSUME TypeOK, TypeOK', Elect, Step, Index, NEW m \in rpcs, AppendAnswered(m)
    PROVE  Index'
<1> DEFINE last  == m.prevLogIndex + m.count
           newer == m.replyTerm > currentTerm[m.from]
           stale == currentTerm[m.from] # m.term
<1>1. m.kind = "append" /\ m.done /\ rpcs' = rpcs \ {m} /\ UNCHANGED log
    BY DEF AppendAnswered
<1>2. \/ UNCHANGED <<currentTerm, state, nextIndex>>
      \/ /\ UNCHANGED nextIndex
         /\ currentTerm' = [currentTerm EXCEPT ![m.from] = m.replyTerm]
         /\ state' = [state EXCEPT ![m.from] = Follower]
      \/ /\ ~stale /\ nextIndex' = [nextIndex EXCEPT ![m.from][m.to] = last + 1]
         /\ UNCHANGED <<currentTerm, state>>
      \/ /\ ~stale /\ ~newer /\ ~m.success
         /\ nextIndex' = [nextIndex EXCEPT ![m.from][m.to] = @ - 1]
         /\ UNCHANGED <<currentTerm, state>>
    BY Zenon DEF AppendAnswered, peerVars, leaderVars
<1>3. PICK s \in Server : s = m.from
    BY MessageKinds DEF TypeOK
<1>4. PICK p \in Server : p = m.to
    BY MessageKinds DEF TypeOK
<1>5. m \in AppendDone
    BY <1>1, MessageKinds DEF TypeOK
<1>6. PICK b \in Nat : b = m.prevLogIndex
    BY <1>5 DEF AppendDone
<1>7. PICK c \in Nat : c = m.count /\ c = Carried(m)
    BY <1>1, <1>5 DEF AppendDone, Carried
<1>8. Len(log[s]) \in Nat /\ currentTerm[s] \in Nat /\ m.replyTerm \in Nat
    BY <1>5, LogsType DEF TypeOK, AppendDone
<1>9. DummyFirst'
    BY <1>1 DEF Index, DummyFirst
<1>10. ~stale /\ state[s] = Leader => b + c < Len(log[s])
    BY <1>1, <1>3, <1>6, <1>7 DEF Index, CallsInLog
<1>11. CASE UNCHANGED <<currentTerm, state, nextIndex>>
    <2>1. OldLeaders
        BY <1>1, <1>11, LogsType DEF OldLeaders, TypeOK
    <2> QED
        BY <1>1, <1>9, <2>1, IndexQuiet
<1>12. CASE /\ UNCHANGED nextIndex
            /\ currentTerm' = [currentTerm EXCEPT ![m.from] = m.replyTerm]
            /\ state' = [state EXCEPT ![m.from] = Follower]
    <2>1. OldLeaders
        BY <1>1, <1>3, <1>12, LogsType DEF OldLeaders, TypeOK
    <2> QED
        BY <1>1, <1>9, <2>1, IndexQuiet
<1>13. CASE /\ ~stale /\ nextIndex' = [nextIndex EXCEPT ![m.from][m.to] = last + 1]
            /\ UNCHANGED <<currentTerm, state>>
    <2>1. state[s] = Leader => last + 1 <= Len(log[s])
        BY <1>6, <1>7, <1>8, <1>10, <1>13
    <2>2. PICK v : v = last + 1
        OBVIOUS
    <2> HIDE DEF last
    <2> QED
        BY <1>1, <1>3, <1>13, <2>1, <2>2, IndexMoves
<1>14. CASE /\ ~stale /\ ~newer /\ ~m.success
            /\ nextIndex' = [nextIndex EXCEPT ![m.from][m.to] = @ - 1]
            /\ UNCHANGED <<currentTerm, state>>
    <2>1. PICK v : v = nextIndex[s][p] - 1
        OBVIOUS
    <2>2. state[s] = Leader => v <= Len(log[s])
        <3>1. nextIndex[s][p] \in Int
            BY DEF TypeOK
        <3>2. state[s] = Leader => nextIndex[s][p] <= Len(log[s])
            BY DEF Index, NextIndexBelow
        <3> QED
            BY <1>8, <2>1, <3>1, <3>2
    <2>3. nextIndex' = [nextIndex EXCEPT ![m.from][m.to] = v]
        BY <1>3, <1>4, <1>14, <2>1
    <2> QED
        BY <1>1, <1>3, <1>14, <2>2, <2>3, IndexMoves
<1> QED
    BY <1>2, <1>11, <1>12, <1>13, <1>14

LEMMA IndexHandler ==
    ASSUME TypeOK, TypeOK', Elect, Step, Index, NEW m \in rpcs, RequestAppendEntriesReply(m)
    PROVE  Index'
<1>1. PICK p \in Server : p = m.to
    BY MessageKinds DEF TypeOK
<1>2. PICK f \in Server : f = m.from
    BY MessageKinds DEF TypeOK
<1>3. PICK T \in Nat : T = m.term
    BY MessageKinds DEF TypeOK
<1> DEFINE old == T < currentTerm[p]
           ok  == ~old /\ PrevMatches(m, log[p])
           new == IF ok THEN Merge(log[p], m.prevLogIndex, m.entries) ELSE log[p]
<1>4. /\ m.kind = "append" /\ ~m.done
      /\ IF old THEN UNCHANGED peerVars
         ELSE /\ currentTerm' = [currentTerm EXCEPT ![p] = T]
              /\ state' = [state EXCEPT ![p] = Follower]
      /\ log' = [log EXCEPT ![p] = new]
      /\ rpcs' = (rpcs \ {m}) \cup Answer(m, AppendReply(m, currentTerm'[p], ok))
      /\ UNCHANGED nextIndex
    BY <1>1, <1>2, <1>3, Zenon DEF RequestAppendEntriesReply, leaderVars
<1>5. m \in AppendCall /\ m.id # Gone /\ p # f /\ currentTerm[p] \in Nat
    BY <1>1, <1>2, <1>4, MessageKinds DEF TypeOK, Index, AppendsOfLeaders, Elect, Honest
<1>6. PICK b \in Nat : b = m.prevLogIndex
    BY <1>5 DEF AppendCall
<1>7. PICK es \in Seq(Entry) : es = m.entries
    BY <1>5 DEF AppendCall
<1>8. PICK l \in Seq(Entry) : l = log[p] /\ l[1] = Dummy /\ Len(l) \in Nat /\ Len(l) >= 1
    BY LogsType DEF TypeOK, Index, DummyFirst
<1>9. PICK r : r = AppendReply(m, currentTerm'[p], ok)
    OBVIOUS
<1>10. /\ r.kind = "append" /\ r.done /\ r.from = f /\ r.to = p /\ r.term = T /\ r.id # Gone
       /\ r.prevLogIndex = b /\ r.count = Len(es) /\ r.replyTerm = currentTerm'[p]
       /\ r.success = ok
    BY <1>1, <1>2, <1>3, <1>5, <1>6, <1>7, <1>9 DEF AppendReply
<1>11. rpcs' = (rpcs \ {m}) \cup {r}
    BY <1>4, <1>5, <1>9 DEF Answer, Gone
<1>12. ok => b < Len(l)
    BY <1>6, <1>8 DEF PrevMatches, LastIndex
<1> HIDE DEF ok
<1>14. DummyFirst'
    <2>1. new[1] = Dummy
        <3>1. CASE ~ok
            BY <1>8, <3>1
        <3>2. CASE ok
            <4>1. b < Len(l) /\ new = Merge(l, b, es)
                BY <1>6, <1>7, <1>8, <1>12, <3>2
            <4>2. CASE Merge(l, b, es) = l
                BY <1>8, <4>1, <4>2
            <4>3. CASE \E j \in 1..Len(es) : \A i \in 1..(b + j) : Merge(l, b, es)[i] = l[i]
                <5>1. PICK j \in 1..Len(es) : \A i \in 1..(b + j) : Merge(l, b, es)[i] = l[i]
                    BY <4>3
                <5>2. 1 \in 1..(b + j)
                    OBVIOUS
                <5>3. Merge(l, b, es)[1] = l[1]
                    BY <5>1, <5>2
                <5> QED
                    BY <1>8, <4>1, <5>3
            <4> QED
                BY <1>6, <1>7, <1>8, <4>1, <4>2, <4>3, MergeShape DEF CutsAt
        <3> QED
            BY <3>1, <3>2
    <2> HIDE DEF new
    <2> QED
        BY <1>4, <2>1 DEF DummyFirst, Index, TypeOK
<1>15. AppendsOfLeaders'
    <2>1. r.id # Gone /\ ~Cand(r.from, r.term)'
        BY <1>2, <1>3, <1>4, <1>10, AppendsStay
    <2> QED
        BY <1>11, <2>1, AppendsStay DEF AppendsOfLeaders
<1>17. ASSUME NEW x \in Server, state'[x] = Leader
       PROVE  /\ state[x] = Leader /\ currentTerm'[x] = currentTerm[x] /\ log'[x] = log[x]
              /\ nextIndex'[x] = nextIndex[x]
    <2>1. CASE old
        <3>1. ~ok
            BY <2>1 DEF ok
        <3> QED
            BY <1>4, <1>17, <2>1, <3>1 DEF peerVars, TypeOK
    <2>2. CASE ~old
        <3>1. x # p
            BY <1>4, <1>17, <2>2 DEF TypeOK
        <3> HIDE DEF new
        <3> QED
            BY <1>4, <1>17, <2>2, <3>1 DEF TypeOK
    <2> QED
        BY <2>1, <2>2
<1>18. CallsInLog'
    <2> SUFFICES ASSUME NEW n \in rpcs', n.kind = "append", state'[n.from] = Leader,
                        currentTerm'[n.from] = n.term
                 PROVE  n.prevLogIndex + Carried(n) < Len(log'[n.from])
        BY DEF CallsInLog, Carried
    <2>1. CASE n # r
        <3>1. n \in rpcs /\ n.from \in Server
            BY <1>11, <2>1, MessageKinds DEF TypeOK
        <3> QED
            BY <1>17, <3>1 DEF Index, CallsInLog
    <2>2. CASE n = r
        <3>1. state[f] = Leader /\ currentTerm[f] = T /\ log'[f] = log[f]
            BY <1>10, <1>17, <2>2
        <3>2. Carried(m) = Len(es) /\ Carried(r) = Len(es)
            BY <1>4, <1>7, <1>10 DEF Carried
        <3>3. b + Len(es) < Len(log[f])
            BY <1>2, <1>3, <1>4, <1>6, <3>1, <3>2 DEF Index, CallsInLog
        <3> QED
            BY <1>10, <2>2, <3>1, <3>2, <3>3
    <2> QED
        BY <2>1, <2>2
<1>19. NextIndexBelow'
    BY <1>17 DEF Index, NextIndexBelow
<1> QED
    BY <1>14, <1>15, <1>18, <1>19 DEF Index

LEMMA IndexVoteAnswered ==
    ASSUME TypeOK, TypeOK', Elect, Step, Index, NEW m \in rpcs, VoteAnswered(m)
    PROVE  Index'
<1>1. PICK s \in Server : s = m.from
    BY MessageKinds DEF TypeOK
<1>2. rpcs' \subseteq rpcs /\ UNCHANGED log
    BY DEF VoteAnswered, logVars
<1>3. \/ UNCHANGED <<currentTerm, state, nextIndex>>
      \/ /\ Cand(s, currentTerm[s])
         /\ state' = [state EXCEPT ![s] = Leader]
         /\ nextIndex' = [nextIndex EXCEPT ![s] = [p \in Server |-> Len(log[s])]]
         /\ UNCHANGED currentTerm
      \/ /\ state' = [state EXCEPT ![s] = Follower]
         /\ currentTerm' = [currentTerm EXCEPT ![s] = m.replyTerm]
         /\ UNCHANGED nextIndex
    BY <1>1, Zenon DEF VoteAnswered, peerVars, Cand
<1>4. DummyFirst'
    BY <1>2 DEF Index, DummyFirst
<1>5. CASE UNCHANGED <<currentTerm, state, nextIndex>>
    <2>1. OldLeaders
        BY <1>2, <1>5, LogsType DEF OldLeaders, TypeOK
    <2> QED
        BY <1>2, <1>4, <2>1, IndexQuiet
<1>6. CASE /\ state' = [state EXCEPT ![s] = Follower]
           /\ currentTerm' = [currentTerm EXCEPT ![s] = m.replyTerm]
           /\ UNCHANGED nextIndex
    <2>1. OldLeaders
        BY <1>2, <1>6, LogsType DEF OldLeaders, TypeOK
    <2> QED
        BY <1>2, <1>4, <2>1, IndexQuiet
<1> QED
    BY <1>2, <1>3, <1>5, <1>6, IndexWins

LEMMA IndexVoteHandler ==
    ASSUME TypeOK, TypeOK', Elect, Step, Index, NEW m \in rpcs, RequestVoteReply(m)
    PROVE  Index'
<1>1. UNCHANGED <<log, nextIndex>>
    BY DEF RequestVoteReply, logVars, leaderVars
<1>2. PICK p \in Server : p = m.to
    BY MessageKinds DEF TypeOK
<1>3. \/ UNCHANGED <<currentTerm, state>>
      \/ state' = [state EXCEPT ![p] = Follower] /\ \E t : currentTerm' = [currentTerm EXCEPT ![p] = t]
    <2>1. CASE m.term > currentTerm[p]
        BY <1>2, <2>1 DEF RequestVoteReply
    <2>2. CASE ~(m.term > currentTerm[p])
        BY <1>2, <2>2 DEF RequestVoteReply, TypeOK
    <2> QED
        BY <2>1, <2>2
<1>7. \A x \in Server : Len(log[x]) \in Nat
    BY LogsType DEF TypeOK
<1>4. OldLeaders
    <2>1. CASE UNCHANGED <<currentTerm, state>>
        BY <1>1, <1>7, <2>1 DEF OldLeaders
    <2>2. ASSUME NEW t, state' = [state EXCEPT ![p] = Follower],
                 currentTerm' = [currentTerm EXCEPT ![p] = t]
          PROVE  OldLeaders
        BY <1>1, <1>7, <2>2 DEF OldLeaders, TypeOK
    <2> QED
        BY <1>3, <2>1, <2>2
<1>5. \A n \in rpcs' : n.kind = "append" => n \in rpcs
    <2>1. PICK u, g : rpcs' = (rpcs \ {m}) \cup Answer(m, VoteReply(m, u, g))
        BY Zenon DEF RequestVoteReply
    <2>2. VoteReply(m, u, g).kind = "vote"
        BY DEF VoteReply
    <2> QED
        BY <2>1, <2>2 DEF Answer
<1>6. DummyFirst'
    BY <1>1 DEF Index, DummyFirst
<1> QED
    BY <1>4, <1>5, <1>6, IndexQuiet

\* What Start() does to the log of the leader it is called at.
LEMMA StartAppends ==
    ASSUME TypeOK, ~Preempt, NEW s \in Server, NEW c \in Command, Start(s, c)
    PROVE  /\ state[s] = Leader
           /\ log' = [log EXCEPT ![s] = Append(@, [cmd |-> c, term |-> currentTerm[s]])]
           /\ UNCHANGED <<peerVars, commitIndex, lastApplied, leaderVars, led, electing, tally,
                          rpcs, testVars>>
<1>1. PICK t \in actsFor(s) : log' = [log EXCEPT ![s] = Append(@, [cmd |-> c, term |-> t])]
    BY DEF Start
<1>2. state[s] = Leader /\ t = currentTerm[s]
    BY <1>1 DEF actsFor
<1> QED
    BY <1>1, <1>2 DEF Start

LEMMA IndexStart ==
    ASSUME TypeOK, TypeOK', Elect, Step, Index, ~Preempt,
           NEW s \in Server, NEW c \in Command, Start(s, c)
    PROVE  Index'
<1>1. /\ log' = [log EXCEPT ![s] = Append(@, [cmd |-> c, term |-> currentTerm[s]])]
      /\ UNCHANGED <<currentTerm, state, nextIndex, rpcs>>
    BY StartAppends DEF peerVars, leaderVars
<1>2. PICK e : e = [cmd |-> c, term |-> currentTerm[s]]
    OBVIOUS
<1>3. e \in Entry
    BY <1>2 DEF Entry, TypeOK
<1>4. PICK l \in Seq(Entry) : l = log[s] /\ l[1] = Dummy /\ Len(l) \in Nat /\ Len(l) >= 1
    BY LogsType DEF TypeOK, Index, DummyFirst
<1>5. Append(l, e)[1] = Dummy /\ Len(Append(l, e)) >= Len(l)
    BY <1>3, <1>4
<1>6. log' = [log EXCEPT ![s] = Append(l, e)]
    BY <1>1, <1>2, <1>4
<1>7. DummyFirst'
    BY <1>5, <1>6 DEF DummyFirst, Index, TypeOK
<1>8. OldLeaders
    <2> SUFFICES ASSUME NEW x \in Server PROVE Len(log'[x]) >= Len(log[x])
        BY <1>1 DEF OldLeaders
    <2>1. CASE x = s
        BY <1>4, <1>5, <1>6, <2>1 DEF TypeOK
    <2>2. CASE x # s
        BY <1>6, <2>2, LogsType DEF TypeOK
    <2> QED
        BY <2>1, <2>2
<1> QED
    BY <1>1, <1>7, <1>8, IndexQuiet

LEMMA IndexNext ==
    ASSUME Sound, Elect, Index, Undisturbed, NextIndexPositive, [Next]_vars
    PROVE  Index'
<1> USE DEF Undisturbed
<1>1. TypeOK /\ TypeOK' /\ Step
    BY SoundNext, NextIsStep DEF Sound
<1>2. ASSUME UNCHANGED <<log, nextIndex>>, OldLeaders,
             \A m \in rpcs' : m.kind = "append" => m \in rpcs
      PROVE  Index'
    <2>1. DummyFirst'
        BY <1>2 DEF Index, DummyFirst
    <2> QED
        BY <1>1, <1>2, <2>1, IndexQuiet
<1>3. ASSUME UNCHANGED <<log, nextIndex, currentTerm, state>> PROVE OldLeaders
    BY <1>1, <1>3, LogsType DEF OldLeaders, TypeOK
<1>4. CASE UNCHANGED vars
    BY <1>2, <1>3, <1>4 DEF vars, peerVars, logVars, leaderVars
<1>5. ASSUME NEW s \in Server, startElection(s) PROVE Index'
    <2>1. /\ state' = [state EXCEPT ![s] = Candidate]
          /\ currentTerm' = [currentTerm EXCEPT ![s] = @ + 1]
          /\ UNCHANGED <<log, nextIndex, rpcs>>
        BY <1>5 DEF startElection, logVars, leaderVars
    <2>2. OldLeaders
        BY <1>1, <2>1, LogsType DEF OldLeaders, TypeOK
    <2> QED
        BY <1>2, <2>1, <2>2
<1>6. ASSUME NEW s \in Server, NEW r \in electing[s], RequestVote(s, r) PROVE Index'
    <2>1. PICK P \in SUBSET (Server \ {s}) : rpcs' = rpcs \cup {VoteRequest(s, p, r) : p \in P}
        BY <1>6 DEF RequestVote
    <2>2. \A p : VoteRequest(s, p, r).kind = "vote"
        BY DEF VoteRequest
    <2>3. UNCHANGED <<log, nextIndex, currentTerm, state>>
        BY <1>6 DEF RequestVote, peerVars, logVars, leaderVars
    <2> QED
        BY <1>2, <1>3, <2>1, <2>2, <2>3
<1>7. ASSUME NEW s \in Server, NEW p \in Server, RequestHeartBeat(s, p) PROVE Index'
    BY <1>1, <1>7, IndexHeartBeat
<1>8. ASSUME NEW s \in Server, NEW c \in Command, Start(s, c) PROVE Index'
    BY <1>1, <1>8, IndexStart
<1>9. ASSUME NEW s \in Server, applier(s) PROVE Index'
    BY <1>2, <1>3, <1>9 DEF applier, peerVars, leaderVars
<1>10. ASSUME NEW s \in Server, start1(s) PROVE FALSE
    <2>1. restarts \in Nat
        BY <1>1 DEF TypeOK
    <2>2. restarts < MaxRestart
        BY <1>10, Zenon DEF start1
    <2> QED
        BY <2>1, <2>2
<1>11. ASSUME NEW m \in rpcs, RequestVoteReply(m) PROVE Index'
    BY <1>1, <1>11, IndexVoteHandler
<1>12. ASSUME NEW m \in rpcs, VoteAnswered(m) PROVE Index'
    BY <1>1, <1>12, IndexVoteAnswered
<1>13. ASSUME NEW m \in rpcs, RequestAppendEntriesReply(m) PROVE Index'
    BY <1>1, <1>13, IndexHandler
<1>14. ASSUME NEW m \in rpcs, AppendAnswered(m) PROVE Index'
    BY <1>1, <1>14, IndexAnswered
<1>15. ASSUME NEW m \in rpcs, Lose(m) PROVE Index'
    BY <1>2, <1>3, <1>15 DEF Lose, peerVars, logVars, leaderVars
<1>16. CASE Next
    BY <1>5, <1>6, <1>7, <1>8, <1>9, <1>10, <1>11, <1>12, <1>13, <1>14, <1>15, <1>16 DEF Next
<1> QED
    BY <1>4, <1>16

LEMMA IndexInvariant ==
    Undisturbed /\ Spec /\ []NextIndexPositive => [](Election /\ Index)
<1>1. Undisturbed /\ Init => Election /\ Index
    BY SoundInit, ElectInit, IndexInit DEF Election
<1>2. Election /\ Index /\ NextIndexPositive /\ [Next]_vars => (Election /\ Index)'
    <2> SUFFICES ASSUME Election, Index, NextIndexPositive, [Next]_vars
                 PROVE  Election' /\ Index'
        OBVIOUS
    <2>1. Election'
        BY SoundNext, NextIsStep, ElectStep DEF Election, Sound, Undisturbed
    <2> QED
        BY <2>1, IndexNext DEF Election
<1> QED
    BY <1>1, <1>2, PTL DEF Spec

----------------------------------------------------------------------------
(* Logs that follow the logs of leaders.  W[t] is the peer that was elected *)
(* in term t, or Nil, and L[t] the log it has or had when it last led.     *)

\* The first i places of l and F are there and the same.
Same(l, F, i) == i <= Len(l) /\ i <= Len(F) /\ \A j \in 1..i : l[j] = F[j]

\* l has an entry of term t at index k.
Has(l, t, k) == k < Len(l) /\ l[k + 1].term = t

\* After the dummy, every entry of l comes from the leader of its term, together with
\* all that is before it; no term is higher than t.
Follows(W, L, l, t) ==
    /\ l[1] = Dummy
    /\ \A i \in 2..Len(l) : /\ l[i].term <= t
                            /\ W[l[i].term] # Nil
                            /\ Same(l, L[l[i].term], i)

Logs == Seq(Entry) \ {<<>>}

LEMMA LogLength ==
    ASSUME NEW l \in Logs
    PROVE  /\ l \in Seq(Entry) /\ Len(l) \in Nat /\ Len(l) >= 1
           /\ \A i \in 1..Len(l) : l[i] \in Entry /\ l[i].term \in Nat
<1>1. l \in Seq(Entry) /\ l # <<>>
    BY DEF Logs
<1>2. Len(l) \in Nat /\ Len(l) >= 1
    BY <1>1
<1>3. ASSUME NEW i \in 1..Len(l) PROVE l[i] \in Entry /\ l[i].term \in Nat
    <2>1. l[i] \in Entry
        BY <1>1
    <2> QED
        BY <2>1 DEF Entry
<1> QED
    BY <1>1, <1>2, <1>3

LEMMA SameShorter ==
    ASSUME NEW l \in Logs, NEW F \in Logs, NEW i \in Nat, NEW j \in Nat, Same(l, F, i), j <= i
    PROVE  Same(l, F, j)
<1>1. Len(l) \in Nat /\ Len(F) \in Nat
    BY LogLength
<1> QED
    BY <1>1 DEF Same

LEMMA SameTrans ==
    ASSUME NEW l \in Logs, NEW F \in Logs, NEW G \in Logs, NEW i \in Nat,
           Same(l, F, i), Same(F, G, i)
    PROVE  Same(l, G, i)
BY DEF Same

LEMMA SameFlip ==
    ASSUME NEW l, NEW F, NEW i, Same(l, F, i)
    PROVE  Same(F, l, i)
BY DEF Same

LEMMA HasSame ==
    ASSUME NEW l \in Logs, NEW F \in Logs, NEW t \in Nat, NEW k \in Nat, NEW i \in Nat,
           Has(l, t, k), Same(F, l, i), k < i
    PROVE  Has(F, t, k)
<1>1. Len(l) \in Nat /\ Len(F) \in Nat
    BY LogLength
<1>2. k + 1 \in 1..i /\ k + 1 <= Len(F)
    BY <1>1 DEF Same
<1>3. F[k + 1] = l[k + 1]
    BY <1>2 DEF Same
<1> QED
    BY <1>1, <1>2, <1>3 DEF Has

\* Log matching: two logs with entries of the same term at an index are the same up to it.
LEMMA LogsMatch ==
    ASSUME NEW W, NEW L \in [Nat -> Logs], NEW l \in Logs, NEW F \in Logs, NEW t, NEW u,
           Follows(W, L, l, t), Follows(W, L, F, u), NEW T \in Nat, NEW k \in Nat, k >= 1,
           Has(l, T, k), Has(F, T, k)
    PROVE  Same(l, F, k + 1)
<1>1. Len(l) \in Nat /\ Len(F) \in Nat
    BY LogLength
<1>2. k + 1 \in 2..Len(l) /\ k + 1 \in 2..Len(F) /\ l[k + 1].term = T /\ F[k + 1].term = T
    BY <1>1 DEF Has
<1>3. Same(l, L[T], k + 1) /\ Same(F, L[T], k + 1)
    BY <1>2 DEF Follows
<1>4. Same(L[T], F, k + 1) /\ L[T] \in Logs /\ k + 1 \in Nat
    BY <1>3, SameFlip
<1> QED
    BY <1>3, <1>4, SameTrans

\* Terms do not fall along a log.
LEMMA TermsAscend ==
    ASSUME NEW W, NEW L \in [Nat -> Logs], \A u \in Nat : W[u] # Nil => Follows(W, L, L[u], u),
           NEW l \in Logs, NEW t, Follows(W, L, l, t),
           NEW i \in Nat, NEW j \in Nat, 2 <= i, i <= j, j <= Len(l)
    PROVE  l[i].term <= l[j].term
<1>1. Len(l) \in Nat
    BY LogLength
<1>2. i \in 2..Len(l) /\ j \in 2..Len(l) /\ j \in 1..Len(l)
    BY <1>1
<1>3. PICK u \in Nat : u = l[j].term
    BY <1>2, LogLength
<1>4. W[u] # Nil /\ Same(l, L[u], j)
    BY <1>2, <1>3 DEF Follows
<1>5. L[u] \in Logs /\ Len(L[u]) \in Nat
    BY LogLength
<1>6. i \in 2..Len(L[u]) /\ l[i] = L[u][i]
    BY <1>1, <1>2, <1>4, <1>5 DEF Same
<1>7. L[u][i].term <= u
    BY <1>4, <1>6 DEF Follows
<1> QED
    BY <1>3, <1>6, <1>7

\* The beginning of a log that follows the leaders' logs follows them.
LEMMA FollowsShorter ==
    ASSUME NEW W, NEW L \in [Nat -> Logs], NEW l \in Logs, NEW F \in Logs, NEW t \in Nat,
           Follows(W, L, F, t), Same(l, F, Len(l))
    PROVE  Follows(W, L, l, t)
<1>1. Len(l) \in Nat /\ Len(l) >= 1 /\ Len(F) \in Nat /\ Len(l) <= Len(F)
    BY LogLength DEF Same
<1>2. l[1] = Dummy
    BY <1>1 DEF Same, Follows
<1>3. ASSUME NEW i \in 2..Len(l)
      PROVE  l[i].term <= t /\ W[l[i].term] # Nil /\ Same(l, L[l[i].term], i)
    <2>1. i \in 2..Len(F) /\ i \in 1..Len(F) /\ i \in Nat /\ i <= Len(l) /\ l[i] = F[i]
        BY <1>1 DEF Same
    <2>2. PICK u \in Nat : u = F[i].term
        BY <2>1, LogLength
    <2>3. u <= t /\ W[u] # Nil /\ Same(F, L[u], i)
        BY <2>1, <2>2 DEF Follows
    <2>4. Same(l, F, i)
        BY <1>1, <2>1, SameShorter
    <2>5. Same(l, L[u], i)
        <3>1. L[u] \in Logs
            OBVIOUS
        <3> QED
            BY <2>1, <2>3, <2>4, <3>1, SameTrans
    <2> QED
        BY <2>1, <2>2, <2>3, <2>5
<1> QED
    BY <1>2, <1>3 DEF Follows

LEMMA FollowsLater ==
    ASSUME NEW W, NEW L, NEW l \in Logs, NEW t \in Nat, NEW u \in Nat, t <= u,
           Follows(W, L, l, t)
    PROVE  Follows(W, L, l, u)
<1>1. Len(l) \in Nat
    BY LogLength
<1>2. ASSUME NEW i \in 2..Len(l) PROVE l[i].term <= u
    <2>1. i \in 1..Len(l)
        BY <1>1
    <2>2. l[i].term \in Nat
        BY <2>1, LogLength
    <2>3. l[i].term <= t
        BY DEF Follows
    <2> QED
        BY <2>2, <2>3
<1> QED
    BY <1>2 DEF Follows

----------------------------------------------------------------------------
(* What is committed.  M[q][t] is the last index up to which q has         *)
(* acknowledged the log L[t] of the leader of term t.                      *)

\* q has acknowledged the entry of term T at index k to the leader of that term.
Acked(W, L, M, q, T, k) == W[T] # Nil /\ 1 <= k /\ k <= M[q][T] /\ Has(L[T], T, k)

\* A later leader, that of term w, does not have that entry.
Lost(W, L, T, k, w) == W[w] # Nil /\ T < w /\ ~Has(L[w], T, k)

\* A log l that is to lead term u has what q acknowledged, unless it was lost before.
Covers(W, L, M, q, l, u) ==
    \A T, k \in Nat : T < u /\ Acked(W, L, M, q, T, k) =>
        Has(l, T, k) \/ \E w \in Nat : w < u /\ Lost(W, L, T, k, w)

\* A majority has acknowledged the entry of term T at index k.
Committed(W, L, M, T, k) ==
    /\ W[T] # Nil /\ 1 <= k /\ Has(L[T], T, k)
    /\ \E Q \in SUBSET Server : Majority(Cardinality(Q)) /\ \A q \in Q : k <= M[q][T]

\* In term t, what l has up to index c is committed.
Settled(W, L, M, l, t, c) ==
    \/ c = 0
    \/ \E T, k \in Nat : T <= t /\ c <= k /\ Committed(W, L, M, T, k) /\ Same(l, L[T], c + 1)

Histories(W, V, L, M) ==
    /\ W \in [Nat -> Server \cup {Nil}]
    /\ V \in [Nat -> SUBSET Server]
    /\ L \in [Nat -> Logs]
    /\ M \in [Server -> [Nat -> Nat]]

\* The log F of a leader of term t has grown to G.
Grown(F, G, t) ==
    /\ Same(F, G, Len(F))
    /\ \A i \in (Len(F) + 1)..Len(G) : G[i].term = t

\* What a step may add to W, L and M.
Extends(W, L, M, W2, L2, M2) ==
    /\ \A T \in Nat : W[T] # Nil => W2[T] = W[T] /\ Grown(L[T], L2[T], T)
    /\ \A q \in Server : \A T \in Nat : M[q][T] <= M2[q][T]

LEMMA GrownHas ==
    ASSUME NEW F \in Logs, NEW G \in Logs, NEW t \in Nat, Grown(F, G, t),
           NEW T \in Nat, NEW k \in Nat
    PROVE  /\ Has(F, T, k) => Has(G, T, k)
           /\ T # t /\ Has(G, T, k) => Has(F, T, k)
<1>1. Len(F) \in Nat /\ Len(G) \in Nat /\ Len(F) <= Len(G)
    BY LogLength DEF Grown, Same
<1>2. CASE k < Len(F)
    <2>1. k + 1 \in 1..Len(F)
        BY <1>1, <1>2
    <2>2. F[k + 1] = G[k + 1]
        BY <2>1 DEF Grown, Same
    <2> QED
        BY <1>1, <1>2, <2>2 DEF Has
<1>3. CASE k >= Len(F) /\ k < Len(G)
    <2>1. k + 1 \in (Len(F) + 1)..Len(G)
        BY <1>1, <1>3
    <2>2. G[k + 1].term = t
        BY <2>1 DEF Grown
    <2> QED
        BY <1>1, <1>3, <2>2 DEF Has
<1>4. CASE k >= Len(G)
    BY <1>1, <1>4 DEF Has
<1> QED
    BY <1>1, <1>2, <1>3, <1>4

LEMMA GrownSame ==
    ASSUME NEW F \in Logs, NEW G \in Logs, NEW t, Grown(F, G, t),
           NEW l \in Logs, NEW i \in Nat, Same(l, F, i)
    PROVE  Same(l, G, i)
<1>1. Len(F) \in Nat /\ i <= Len(F) /\ Same(F, G, Len(F))
    BY LogLength DEF Same, Grown
<1>2. Same(F, G, i)
    BY <1>1, SameShorter
<1> QED
    BY <1>2, SameTrans

LEMMA GrownRefl ==
    ASSUME NEW F \in Logs, NEW t
    PROVE  Grown(F, F, t)
<1>1. Len(F) \in Nat
    BY LogLength
<1> QED
    BY <1>1 DEF Grown, Same

----------------------------------------------------------------------------
LEMMA FollowsExtends ==
    ASSUME NEW W, NEW V, NEW L, NEW M, Histories(W, V, L, M),
           NEW W2, NEW V2, NEW L2, NEW M2, Histories(W2, V2, L2, M2),
           Extends(W, L, M, W2, L2, M2), NEW l \in Logs, NEW t \in Nat, Follows(W, L, l, t)
    PROVE  Follows(W2, L2, l, t)
<1>1. Len(l) \in Nat
    BY LogLength
<1>2. ASSUME NEW i \in 2..Len(l)
      PROVE  l[i].term <= t /\ W2[l[i].term] # Nil /\ Same(l, L2[l[i].term], i)
    <2>1. PICK u \in Nat : u = l[i].term
        <3>1. i \in 1..Len(l)
            BY <1>1
        <3> QED
            BY <3>1, LogLength
    <2>2. u <= t /\ W[u] # Nil /\ Same(l, L[u], i)
        BY <2>1 DEF Follows
    <2>3. W2[u] = W[u] /\ Grown(L[u], L2[u], u)
        BY <2>2 DEF Extends
    <2>4. L[u] \in Logs /\ L2[u] \in Logs /\ i \in Nat
        BY <1>1 DEF Histories
    <2>5. Same(l, L2[u], i)
        BY <2>2, <2>3, <2>4, GrownSame
    <2> QED
        BY <2>1, <2>2, <2>3, <2>5
<1> QED
    BY <1>2 DEF Follows

LEMMA LostExtends ==
    ASSUME NEW W, NEW V, NEW L, NEW M, Histories(W, V, L, M),
           NEW W2, NEW V2, NEW L2, NEW M2, Histories(W2, V2, L2, M2),
           Extends(W, L, M, W2, L2, M2),
           NEW T \in Nat, NEW k \in Nat, NEW w \in Nat, Lost(W, L, T, k, w)
    PROVE  Lost(W2, L2, T, k, w)
<1>1. W[w] # Nil /\ T < w /\ ~Has(L[w], T, k)
    BY DEF Lost
<1>2. W2[w] = W[w] /\ Grown(L[w], L2[w], w) /\ L[w] \in Logs /\ L2[w] \in Logs
    BY <1>1 DEF Extends, Histories
<1>3. ~Has(L2[w], T, k)
    BY <1>1, <1>2, GrownHas
<1> QED
    BY <1>1, <1>2, <1>3 DEF Lost

LEMMA CommittedExtends ==
    ASSUME NEW W, NEW V, NEW L, NEW M, Histories(W, V, L, M),
           NEW W2, NEW V2, NEW L2, NEW M2, Histories(W2, V2, L2, M2),
           Extends(W, L, M, W2, L2, M2),
           NEW T \in Nat, NEW k \in Nat, Committed(W, L, M, T, k)
    PROVE  Committed(W2, L2, M2, T, k)
<1>1. W[T] # Nil /\ 1 <= k /\ Has(L[T], T, k)
    BY DEF Committed
<1>2. PICK Q \in SUBSET Server : Majority(Cardinality(Q)) /\ \A q \in Q : k <= M[q][T]
    BY DEF Committed
<1>3. W2[T] = W[T] /\ Grown(L[T], L2[T], T) /\ L[T] \in Logs /\ L2[T] \in Logs
    BY <1>1 DEF Extends, Histories
<1>4. Has(L2[T], T, k)
    BY <1>1, <1>3, GrownHas
<1>5. ASSUME NEW q \in Q PROVE k <= M2[q][T]
    <2>1. q \in Server /\ M[q][T] \in Nat /\ M2[q][T] \in Nat
        BY DEF Histories
    <2>2. k <= M[q][T] /\ M[q][T] <= M2[q][T]
        BY <1>2, <2>1 DEF Extends
    <2> QED
        BY <2>1, <2>2
<1> QED
    BY <1>1, <1>2, <1>3, <1>4, <1>5 DEF Committed

LEMMA SettledExtends ==
    ASSUME NEW W, NEW V, NEW L, NEW M, Histories(W, V, L, M),
           NEW W2, NEW V2, NEW L2, NEW M2, Histories(W2, V2, L2, M2),
           Extends(W, L, M, W2, L2, M2), NEW l \in Logs, NEW t \in Nat, NEW c \in Nat,
           Settled(W, L, M, l, t, c), NEW u \in Nat, t <= u
    PROVE  Settled(W2, L2, M2, l, u, c)
<1>1. CASE c = 0
    BY <1>1 DEF Settled
<1>2. CASE c # 0
    <2>1. PICK T \in Nat, k \in Nat :
            T <= t /\ c <= k /\ Committed(W, L, M, T, k) /\ Same(l, L[T], c + 1)
        BY <1>2 DEF Settled
    <2>2. Committed(W2, L2, M2, T, k)
        BY <2>1, CommittedExtends
    <2>3. W[T] # Nil
        BY <2>1 DEF Committed
    <2>4. Grown(L[T], L2[T], T) /\ L[T] \in Logs /\ L2[T] \in Logs
        BY <2>3 DEF Extends, Histories
    <2>5. Same(l, L2[T], c + 1)
        BY <2>1, <2>4, GrownSame
    <2>6. T <= u
        BY <2>1
    <2> QED
        BY <2>1, <2>2, <2>5, <2>6 DEF Settled
<1> QED
    BY <1>1, <1>2

LEMMA CoversExtends ==
    ASSUME NEW W, NEW V, NEW L, NEW M, Histories(W, V, L, M),
           NEW W2, NEW V2, NEW L2, NEW M2, Histories(W2, V2, L2, M2),
           Extends(W, L, M, W2, L2, M2), NEW l \in Logs, NEW u \in Nat, NEW q \in Server,
           Covers(W, L, M, q, l, u),
           \A T, k \in Nat : T < u /\ Acked(W2, L2, M2, q, T, k) => Acked(W, L, M, q, T, k)
    PROVE  Covers(W2, L2, M2, q, l, u)
<1> SUFFICES ASSUME NEW T \in Nat, NEW k \in Nat, T < u, Acked(W2, L2, M2, q, T, k), ~Has(l, T, k)
             PROVE  \E w \in Nat : w < u /\ Lost(W2, L2, T, k, w)
    BY DEF Covers
<1>1. Acked(W, L, M, q, T, k)
    OBVIOUS
<1>2. PICK w \in Nat : w < u /\ Lost(W, L, T, k, w)
    BY <1>1 DEF Covers
<1>3. Lost(W2, L2, T, k, w)
    BY <1>2, LostExtends
<1> QED
    BY <1>2, <1>3

----------------------------------------------------------------------------
(* The inductive invariant: there is a history (W, V, L, M) that explains  *)
(* the state.  V[t] is the quorum that elected the leader of term t.       *)

\* What an AppendEntries says is in the log of the leader of its term.
GoodCall(W, L, M, m) ==
    /\ W[m.term] = m.from
    /\ m.prevLogIndex + Len(m.entries) < Len(L[m.term])
    /\ \A j \in 1..Len(m.entries) : m.entries[j] = L[m.term][m.prevLogIndex + 1 + j]
    /\ \/ m.prevLogTerm = L[m.term][m.prevLogIndex + 1].term
       \/ m.prevLogIndex = 0 /\ m.entries # <<>>
    /\ m.leaderCommit <= m.prevLogIndex + Len(m.entries)
    /\ Settled(W, L, M, L[m.term], m.term, m.leaderCommit)

\* An answer of success is an acknowledgement.
GoodAnswer(W, M, m) ==
    /\ W[m.term] = m.from
    /\ m.success => m.prevLogIndex + m.count <= M[m.to][m.term]

\* The request of a peer that still runs describes the log it has.
GoodVoteCall(m) ==
    Cand(m.from, m.term) =>
        m.lastLogIndex = LastIndex(log[m.from]) /\ m.lastLogTerm = LastTerm(log[m.from])

\* c was committed at index i.
Decreed(W, L, M, i, c) ==
    \E T, k \in Nat : /\ Committed(W, L, M, T, k) /\ i \in Nat /\ 1 <= i /\ i <= k
                      /\ c = L[T][i + 1].cmd

LeaderLogs(W, L, M) ==
    \A s \in Server : state[s] = Leader =>
        /\ W[currentTerm[s]] = s
        /\ L[currentTerm[s]] = log[s]
        /\ M[s][currentTerm[s]] = LastIndex(log[s])

Reigns(W) ==
    \A T \in Nat : W[T] # Nil =>
        /\ currentTerm[W[T]] >= T
        /\ currentTerm[W[T]] = T => state[W[T]] = Leader

Chosen(W, V) == \A T \in Nat : W[T] # Nil => Decided(V[T], T)

LogsFollow(W, L) ==
    /\ \A s \in Server : Follows(W, L, log[s], currentTerm[s])
    /\ \A T \in Nat : W[T] # Nil => Follows(W, L, L[T], T)

Messages(W, L, M) ==
    \A m \in rpcs :
        /\ m.kind = "append" /\ ~m.done => GoodCall(W, L, M, m)
        /\ m.kind = "append" /\ m.done => GoodAnswer(W, M, m)
        /\ m.kind = "vote" /\ ~m.done => GoodVoteCall(m)

VotesCover(W, L, M) ==
    \A q, c \in Server : \A u \in Nat :
        Votes(q, c, u) /\ W[u] = Nil => Covers(W, L, M, q, log[c], u)

QuorumsCover(W, V, L, M) ==
    \A T \in Nat : W[T] # Nil => \A q \in V[T] : Covers(W, L, M, q, L[T], T)

AcksKept(W, L, M) ==
    \A q \in Server : \A T, k \in Nat : Acked(W, L, M, q, T, k) =>
        \/ Has(log[q], T, k)
        \/ \E w \in Nat : w <= currentTerm[q] /\ Lost(W, L, T, k, w)

AcksBounded(W, L, M) ==
    \A q \in Server : \A T \in Nat :
        /\ W[T] = Nil => M[q][T] = 0
        /\ W[T] # Nil => M[q][T] < Len(L[T])
        /\ M[q][T] >= 1 => currentTerm[q] >= T

\* A matchIndex k of a leader of term t with log l, for a peer that has acknowledged a in
\* that term, may be of an earlier reign, but then it counts for no entry of the term.
Matches(l, t, k, a) == k < Len(l) /\ \A c \in Nat : c <= k /\ Has(l, t, c) => c <= a

MatchesAcked(M) ==
    \A s, p \in Server : state[s] = Leader /\ p # s =>
        Matches(log[s], currentTerm[s], matchIndex[s][p], M[p][currentTerm[s]])

CommitsSettled(W, L, M) ==
    \A s \in Server : Settled(W, L, M, log[s], currentTerm[s], commitIndex[s])

AppliedDecreed(W, L, M) ==
    \A s \in Server : \A i \in DOMAIN logs[s] : Decreed(W, L, M, i, logs[s][i])

History(W, V, L, M) ==
    /\ Histories(W, V, L, M)
    /\ LeaderLogs(W, L, M) /\ Reigns(W) /\ Chosen(W, V)
    /\ LogsFollow(W, L) /\ Messages(W, L, M)
    /\ VotesCover(W, L, M) /\ QuorumsCover(W, V, L, M)
    /\ AcksKept(W, L, M) /\ AcksBounded(W, L, M)
    /\ MatchesAcked(M) /\ CommitsSettled(W, L, M) /\ AppliedDecreed(W, L, M)

----------------------------------------------------------------------------
(* What a step may do, with what it adds to the history.                   *)

NewTerms(W, W2, V2, L2, M2) ==
    \A T \in Nat : W[T] = Nil /\ W2[T] # Nil =>
        /\ currentTerm'[W2[T]] = T /\ state'[W2[T]] = Leader
        /\ Decided(V2[T], T)'
        /\ \A q \in V2[T] : Covers(W2, L2, M2, q, L2[T], T)

NewLogs(W, L, W2, L2) ==
    /\ \A T \in Nat : W2[T] # Nil => \/ W[T] # Nil /\ L2[T] = L[T]
                                     \/ Follows(W2, L2, L2[T], T)
    /\ \A s \in Server : log'[s] = log[s] \/ Follows(W2, L2, log'[s], currentTerm'[s])

LeadersStay ==
    \A s \in Server : state[s] = Leader /\ currentTerm'[s] = currentTerm[s] => state'[s] = Leader

CandidatesKeep == \A c \in Server : \A t \in Nat : Cand(c, t)' => log'[c] = log[c]

KeepsAcks(W, L, M, W2, L2) ==
    \A q \in Server : \A T, k \in Nat :
        Acked(W, L, M, q, T, k) /\ Has(log[q], T, k) =>
            Has(log'[q], T, k) \/ Lost(W2, L2, T, k, currentTerm'[q])

NewAcks(W, L, M, W2, L2, M2) ==
    \A q \in Server : \A T, k \in Nat :
        Acked(W2, L2, M2, q, T, k) =>
            Acked(W, L, M, q, T, k) \/ (currentTerm[q] <= T /\ Has(log'[q], T, k))

NewMessages(W2, L2, M2) ==
    \A m \in rpcs' :
        /\ m.kind = "append" /\ ~m.done => m \in rpcs \/ GoodCall(W2, L2, M2, m)
        /\ m.kind = "append" /\ m.done => m \in rpcs \/ GoodAnswer(W2, M2, m)
        /\ m.kind = "vote" /\ ~m.done => m \in rpcs \/ GoodVoteCall(m)'

NewVotesCover(W2, L2, M2) ==
    \A q, c \in Server : \A u \in Nat :
        Votes(q, c, u)' /\ W2[u] = Nil => Votes(q, c, u) \/ Covers(W2, L2, M2, q, log[c], u)

NewCommits(W2, L2, M2) ==
    \A s \in Server : \/ log'[s] = log[s] /\ commitIndex'[s] = commitIndex[s]
                      \/ Settled(W2, L2, M2, log'[s], currentTerm'[s], commitIndex'[s])

NewApplied(W2, L2, M2) ==
    \A s \in Server : \A i \in DOMAIN logs'[s] :
        \/ i \in DOMAIN logs[s] /\ logs'[s][i] = logs[s][i]
        \/ Decreed(W2, L2, M2, i, logs'[s][i])

Advance(W, V, L, M, W2, V2, L2, M2) ==
    /\ Histories(W2, V2, L2, M2)
    /\ Extends(W, L, M, W2, L2, M2)
    /\ \A T \in Nat : W[T] # Nil => V2[T] = V[T]
    /\ NewTerms(W, W2, V2, L2, M2)
    /\ NewLogs(W, L, W2, L2)
    /\ LeadersStay /\ CandidatesKeep
    /\ KeepsAcks(W, L, M, W2, L2) /\ NewAcks(W, L, M, W2, L2, M2)
    /\ NewMessages(W2, L2, M2) /\ NewVotesCover(W2, L2, M2)
    /\ NewCommits(W2, L2, M2) /\ NewApplied(W2, L2, M2)
    /\ LeaderLogs(W2, L2, M2)' /\ AcksBounded(W2, L2, M2)' /\ MatchesAcked(M2)'

----------------------------------------------------------------------------
(* Such a step keeps the invariant.                                        *)

\* Peers that have voted, or elected somebody, in term u acknowledge nothing of an
\* earlier one any more.
LEMMA CoversStays ==
    ASSUME TypeOK, NEW W, NEW V, NEW L, NEW M, Histories(W, V, L, M),
           NEW W2, NEW V2, NEW L2, NEW M2, Histories(W2, V2, L2, M2),
           Extends(W, L, M, W2, L2, M2), NewAcks(W, L, M, W2, L2, M2),
           NEW q \in Server, NEW l \in Logs, NEW u \in Nat, Covers(W, L, M, q, l, u),
           currentTerm[q] >= u
    PROVE  Covers(W2, L2, M2, q, l, u)
<1>1. ASSUME NEW T \in Nat, NEW k \in Nat, T < u, Acked(W2, L2, M2, q, T, k)
      PROVE  Acked(W, L, M, q, T, k)
    <2>1. currentTerm[q] \in Nat /\ ~(currentTerm[q] <= T)
        BY <1>1 DEF TypeOK
    <2> QED
        BY <1>1, <2>1 DEF NewAcks
<1> QED
    BY <1>1, CoversExtends

LEMMA LongerCovers ==
    ASSUME NEW W, NEW L, NEW M, NEW q, NEW F \in Logs, NEW G \in Logs, NEW u \in Nat,
           Covers(W, L, M, q, F, u), Grown(F, G, u)
    PROVE  Covers(W, L, M, q, G, u)
<1>1. \A T, k \in Nat : Has(F, T, k) => Has(G, T, k)
    BY GrownHas
<1> QED
    BY <1>1 DEF Covers

\* A peer whose vote counts has reached the term.
LEMMA VotersThere ==
    ASSUME TypeOK, Elect, NEW q \in Server, NEW c \in Server, NEW u \in Nat, Votes(q, c, u)
    PROVE  currentTerm[q] >= u
<1>1. currentTerm[q] \in Nat
    BY DEF TypeOK
<1>2. Bound(q, u) \/ currentTerm[q] = u
    BY DEF Elect, VotersKnow
<1> QED
    BY <1>1, <1>2 DEF Bound

LEMMA AdvanceTerms ==
    ASSUME TypeOK, TypeOK', Elect, Step,
           NEW W, NEW V, NEW L, NEW M, History(W, V, L, M),
           NEW W2, NEW V2, NEW L2, NEW M2, Advance(W, V, L, M, W2, V2, L2, M2)
    PROVE  Reigns(W2)' /\ Chosen(W2, V2)' /\ LogsFollow(W2, L2)'
<1>1. Histories(W, V, L, M) /\ Histories(W2, V2, L2, M2) /\ Extends(W, L, M, W2, L2, M2)
    BY DEF History, Advance
<1>2. Reigns(W2)'
    <2> SUFFICES ASSUME NEW T \in Nat, W2[T] # Nil
                 PROVE  /\ currentTerm'[W2[T]] >= T
                        /\ currentTerm'[W2[T]] = T => state'[W2[T]] = Leader
        BY DEF Reigns
    <2>1. CASE W[T] = Nil
        BY <2>1 DEF Advance, NewTerms
    <2>2. CASE W[T] # Nil
        <3>1. PICK x \in Server : x = W[T] /\ x = W2[T]
            BY <1>1, <2>2 DEF Histories, Extends
        <3>2. currentTerm[x] >= T /\ (currentTerm[x] = T => state[x] = Leader)
            BY <2>2, <3>1 DEF History, Reigns
        <3>3. currentTerm[x] \in Nat /\ currentTerm'[x] \in Nat /\ currentTerm'[x] >= currentTerm[x]
            BY DEF TypeOK, Step, TermsGrow
        <3>4. state[x] = Leader /\ currentTerm'[x] = currentTerm[x] => state'[x] = Leader
            BY DEF Advance, LeadersStay
        <3> QED
            BY <3>1, <3>2, <3>3, <3>4
    <2> QED
        BY <2>1, <2>2
<1>3. Chosen(W2, V2)'
    <2> SUFFICES ASSUME NEW T \in Nat, W2[T] # Nil PROVE Decided(V2[T], T)'
        BY DEF Chosen
    <2>1. CASE W[T] = Nil
        BY <2>1 DEF Advance, NewTerms
    <2>2. CASE W[T] # Nil
        <3>1. PICK Q \in SUBSET Server : Q = V[T] /\ Q = V2[T]
            BY <1>1, <2>2 DEF Histories, Advance
        <3>2. Decided(Q, T)
            BY <2>2, <3>1 DEF History, Chosen
        <3>3. Decided(Q, T)'
            BY <3>2, DecidedStays
        <3> QED
            BY <3>1, <3>3
    <2> QED
        BY <2>1, <2>2
<1>4. LogsFollow(W2, L2)'
    <2>1. ASSUME NEW s \in Server PROVE Follows(W2, L2, log'[s], currentTerm'[s])
        <3>1. CASE log'[s] = log[s]
            <4>1. PICK l \in Logs : l = log[s]
                BY DEF TypeOK, Logs
            <4>2. PICK t \in Nat : t = currentTerm[s]
                BY DEF TypeOK
            <4>3. PICK u \in Nat : u = currentTerm'[s]
                BY DEF TypeOK
            <4>4. t <= u
                BY <4>2, <4>3 DEF Step, TermsGrow
            <4>5. Follows(W, L, l, t)
                BY <4>1, <4>2 DEF History, LogsFollow
            <4>6. Follows(W2, L2, l, t)
                BY <1>1, <4>5, FollowsExtends
            <4>7. Follows(W2, L2, l, u)
                BY <4>4, <4>6, FollowsLater
            <4> QED
                BY <3>1, <4>1, <4>3, <4>7
        <3> QED
            BY <3>1 DEF Advance, NewLogs
    <2>2. ASSUME NEW T \in Nat, W2[T] # Nil PROVE Follows(W2, L2, L2[T], T)
        <3>1. CASE W[T] # Nil /\ L2[T] = L[T]
            <4>1. Follows(W, L, L[T], T) /\ L[T] \in Logs
                BY <1>1, <3>1 DEF History, LogsFollow, Histories
            <4> QED
                BY <1>1, <3>1, <4>1, FollowsExtends
        <3> QED
            BY <2>2, <3>1 DEF Advance, NewLogs
    <2> QED
        BY <2>1, <2>2 DEF LogsFollow
<1> QED
    BY <1>2, <1>3, <1>4

LEMMA GoodCallStays ==
    ASSUME NEW W, NEW V, NEW L, NEW M, Histories(W, V, L, M),
           NEW W2, NEW V2, NEW L2, NEW M2, Histories(W2, V2, L2, M2),
           Extends(W, L, M, W2, L2, M2), NEW m \in AppendCall, GoodCall(W, L, M, m)
    PROVE  GoodCall(W2, L2, M2, m)
<1>1. PICK t \in Nat : t = m.term
    BY DEF AppendCall
<1>2. PICK b \in Nat : b = m.prevLogIndex
    BY DEF AppendCall
<1>3. PICK es \in Seq(Entry) : es = m.entries
    BY DEF AppendCall
<1>4. PICK c \in Nat : c = m.leaderCommit
    BY DEF AppendCall
<1>5. m.from \in Server /\ m.from # Nil
    BY ServerAssumption DEF AppendCall
<1>6. W[t] = m.from /\ W2[t] = m.from /\ Grown(L[t], L2[t], t)
    BY <1>1, <1>5 DEF GoodCall, Extends
<1>7. PICK F \in Logs : F = L[t]
    BY DEF Histories
<1>8. PICK G \in Logs : G = L2[t]
    BY DEF Histories
<1>9. Len(F) \in Nat /\ Len(G) \in Nat /\ Len(es) \in Nat
    BY <1>3, LogLength
<1>10. Len(F) <= Len(G) /\ \A i \in 1..Len(F) : F[i] = G[i]
    BY <1>6, <1>7, <1>8 DEF Grown, Same
<1>11. /\ b + Len(es) < Len(F)
       /\ \A j \in 1..Len(es) : es[j] = F[b + 1 + j]
       /\ m.prevLogTerm = F[b + 1].term \/ (b = 0 /\ es # <<>>)
       /\ c <= b + Len(es)
       /\ Settled(W, L, M, F, t, c)
    BY <1>1, <1>2, <1>3, <1>4, <1>7 DEF GoodCall
<1>12. b + Len(es) < Len(G)
    BY <1>9, <1>10, <1>11
<1>13. ASSUME NEW j \in 1..Len(es) PROVE es[j] = G[b + 1 + j]
    <2>1. b + 1 + j \in 1..Len(F)
        <3>1. PICK n \in Nat : n = Len(es)
            BY <1>9
        <3> QED
            BY <1>9, <1>11, <3>1, SMTT(30)
    <2> QED
        BY <1>10, <1>11, <2>1
<1>14. F[b + 1] = G[b + 1]
    <2>1. b + 1 \in 1..Len(F)
        BY <1>9, <1>11
    <2> QED
        BY <1>10, <2>1
<1>15. Settled(W2, L2, M2, G, t, c)
    <2>1. Settled(W2, L2, M2, F, t, c)
        BY <1>11, SettledExtends
    <2>2. CASE c = 0
        BY <2>2 DEF Settled
    <2>3. CASE c # 0
        <3>1. PICK T \in Nat, k \in Nat :
                T <= t /\ c <= k /\ Committed(W2, L2, M2, T, k) /\ Same(F, L2[T], c + 1)
            BY <2>1, <2>3 DEF Settled
        <3>2. Same(G, F, c + 1)
            BY <1>9, <1>10, <1>11 DEF Same
        <3>3. Same(G, L2[T], c + 1)
            <4>1. L2[T] \in Logs /\ c + 1 \in Nat
                BY DEF Histories
            <4> QED
                BY <3>1, <3>2, <4>1, SameTrans
        <3> QED
            BY <3>1, <3>3 DEF Settled
    <2> QED
        BY <2>2, <2>3
<1> QED
    BY <1>1, <1>2, <1>3, <1>4, <1>6, <1>8, <1>11, <1>12, <1>13, <1>14, <1>15 DEF GoodCall

LEMMA AdvanceMessages ==
    ASSUME TypeOK, TypeOK', Elect, Step,
           NEW W, NEW V, NEW L, NEW M, History(W, V, L, M),
           NEW W2, NEW V2, NEW L2, NEW M2, Advance(W, V, L, M, W2, V2, L2, M2)
    PROVE  Messages(W2, L2, M2)'
<1>1. Histories(W, V, L, M) /\ Histories(W2, V2, L2, M2) /\ Extends(W, L, M, W2, L2, M2)
    BY DEF History, Advance
<1> SUFFICES ASSUME NEW m \in rpcs'
             PROVE  /\ m.kind = "append" /\ ~m.done => GoodCall(W2, L2, M2, m)
                    /\ m.kind = "append" /\ m.done => GoodAnswer(W2, M2, m)
                    /\ m.kind = "vote" /\ ~m.done => GoodVoteCall(m)'
    BY DEF Messages, GoodCall, GoodAnswer, Settled, Committed, Majority, Same, Has
<1>2. m \in Message
    BY DEF TypeOK
<1>3. m.from \in Server /\ m.to \in Server /\ m.term \in Nat /\ m.from # Nil
    BY <1>2, MessageKinds, ServerAssumption
<1>4. ASSUME m.kind = "append", ~m.done, m \in rpcs PROVE GoodCall(W2, L2, M2, m)
    <2>1. m \in AppendCall /\ GoodCall(W, L, M, m)
        BY <1>2, <1>4, MessageKinds DEF History, Messages
    <2> QED
        BY <1>1, <2>1, GoodCallStays
<1>5. ASSUME m.kind = "append", m.done, m \in rpcs PROVE GoodAnswer(W2, M2, m)
    <2>1. GoodAnswer(W, M, m)
        BY <1>5 DEF History, Messages
    <2>2. W2[m.term] = m.from
        BY <1>1, <1>3, <2>1 DEF GoodAnswer, Extends
    <2>3. M[m.to][m.term] <= M2[m.to][m.term] /\ M[m.to][m.term] \in Nat /\ M2[m.to][m.term] \in Nat
        BY <1>1, <1>3 DEF Extends, Histories
    <2>4. m.prevLogIndex \in Nat /\ m.count \in Nat
        BY <1>2, <1>5, MessageKinds DEF AppendDone
    <2> QED
        BY <2>1, <2>2, <2>3, <2>4 DEF GoodAnswer
<1>6. ASSUME m.kind = "vote", ~m.done, m \in rpcs PROVE GoodVoteCall(m)'
    <2> SUFFICES ASSUME Cand(m.from, m.term)'
                 PROVE  /\ m.lastLogIndex = LastIndex(log'[m.from])
                        /\ m.lastLogTerm = LastTerm(log'[m.from])
        BY DEF GoodVoteCall
    <2>1. m.term <= currentTerm[m.from] /\ currentTerm[m.from] \in Nat
        BY <1>3, <1>6 DEF Elect, Honest, TypeOK
    <2>2. Cand(m.from, m.term) /\ log'[m.from] = log[m.from]
        BY <1>3, <2>1 DEF Step, NoLateCandidate, Advance, CandidatesKeep
    <2>3. GoodVoteCall(m)
        BY <1>6 DEF History, Messages
    <2> QED
        BY <2>2, <2>3 DEF GoodVoteCall
<1> QED
    BY <1>4, <1>5, <1>6 DEF Advance, NewMessages

LEMMA AdvanceCovers ==
    ASSUME TypeOK, TypeOK', Elect, Step,
           NEW W, NEW V, NEW L, NEW M, History(W, V, L, M),
           NEW W2, NEW V2, NEW L2, NEW M2, Advance(W, V, L, M, W2, V2, L2, M2)
    PROVE  VotesCover(W2, L2, M2)' /\ QuorumsCover(W2, V2, L2, M2)
<1>1. Histories(W, V, L, M) /\ Histories(W2, V2, L2, M2) /\ Extends(W, L, M, W2, L2, M2)
    BY DEF History, Advance
<1>2. NewAcks(W, L, M, W2, L2, M2)
    BY DEF Advance
<1>3. VotesCover(W2, L2, M2)'
    <2> SUFFICES ASSUME NEW q \in Server, NEW c \in Server, NEW u \in Nat,
                        Votes(q, c, u)', W2[u] = Nil
                 PROVE  Covers(W2, L2, M2, q, log'[c], u)
        BY DEF VotesCover
    <2>1. log'[c] = log[c]
        BY DEF Votes, Advance, CandidatesKeep
    <2>2. CASE Votes(q, c, u)
        <3>1. W[u] = Nil
            BY <1>1 DEF Extends
        <3>2. PICK l \in Logs : l = log[c]
            BY DEF TypeOK, Logs
        <3>3. Covers(W, L, M, q, l, u)
            BY <2>2, <3>1, <3>2 DEF History, VotesCover
        <3>4. currentTerm[q] >= u
            BY <2>2, VotersThere
        <3>5. Covers(W2, L2, M2, q, l, u)
            BY <1>1, <1>2, <3>3, <3>4, CoversStays
        <3> QED
            BY <2>1, <3>2, <3>5
    <2> QED
        BY <2>1, <2>2 DEF Advance, NewVotesCover
<1>4. QuorumsCover(W2, V2, L2, M2)
    <2> SUFFICES ASSUME NEW T \in Nat, W2[T] # Nil, NEW q \in V2[T]
                 PROVE  Covers(W2, L2, M2, q, L2[T], T)
        BY DEF QuorumsCover
    <2>1. CASE W[T] = Nil
        BY <2>1 DEF Advance, NewTerms
    <2>2. CASE W[T] # Nil
        <3>1. V2[T] = V[T] /\ Grown(L[T], L2[T], T) /\ L[T] \in Logs /\ L2[T] \in Logs
            BY <1>1, <2>2 DEF Advance, Extends, Histories
        <3>2. q \in Server /\ Decided(V[T], T) /\ Covers(W, L, M, q, L[T], T)
            BY <1>1, <2>2, <3>1 DEF History, Chosen, QuorumsCover, Histories
        <3>3. currentTerm[q] >= T
            <4>1. Bound(q, T) /\ currentTerm[q] \in Nat
                BY <3>1, <3>2 DEF Decided, TypeOK
            <4> QED
                BY <4>1 DEF Bound
        <3>4. Covers(W2, L2, M2, q, L[T], T)
            BY <1>1, <1>2, <3>1, <3>2, <3>3, CoversStays
        <3> QED
            BY <3>1, <3>4, LongerCovers
    <2> QED
        BY <2>1, <2>2
<1> QED
    BY <1>3, <1>4

LEMMA AdvanceAcks ==
    ASSUME TypeOK, TypeOK', Elect, Step,
           NEW W, NEW V, NEW L, NEW M, History(W, V, L, M),
           NEW W2, NEW V2, NEW L2, NEW M2, Advance(W, V, L, M, W2, V2, L2, M2)
    PROVE  AcksKept(W2, L2, M2)'
<1>1. Histories(W, V, L, M) /\ Histories(W2, V2, L2, M2) /\ Extends(W, L, M, W2, L2, M2)
    BY DEF History, Advance
<1> SUFFICES ASSUME NEW q \in Server, NEW T \in Nat, NEW k \in Nat,
                    Acked(W2, L2, M2, q, T, k), ~Has(log'[q], T, k)
             PROVE  \E w \in Nat : w <= currentTerm'[q] /\ Lost(W2, L2, T, k, w)
    BY DEF AcksKept
<1>2. PICK t \in Nat : t = currentTerm[q]
    BY DEF TypeOK
<1>3. PICK u \in Nat : u = currentTerm'[q]
    BY DEF TypeOK
<1>4. t <= u
    BY <1>2, <1>3 DEF Step, TermsGrow
<1>5. Acked(W, L, M, q, T, k)
    BY DEF Advance, NewAcks
<1>6. CASE Has(log[q], T, k)
    <2>1. Lost(W2, L2, T, k, u)
        BY <1>3, <1>5, <1>6 DEF Advance, KeepsAcks
    <2> QED
        BY <1>3, <2>1
<1>7. CASE ~Has(log[q], T, k)
    <2>1. PICK w \in Nat : w <= t /\ Lost(W, L, T, k, w)
        BY <1>2, <1>5, <1>7 DEF History, AcksKept
    <2>2. Lost(W2, L2, T, k, w)
        BY <1>1, <2>1, LostExtends
    <2>3. w <= u
        BY <1>4, <2>1
    <2> QED
        BY <1>3, <2>2, <2>3
<1> QED
    BY <1>6, <1>7

LEMMA DecreedExtends ==
    ASSUME NEW W, NEW V, NEW L, NEW M, Histories(W, V, L, M),
           NEW W2, NEW V2, NEW L2, NEW M2, Histories(W2, V2, L2, M2),
           Extends(W, L, M, W2, L2, M2), NEW i, NEW c, Decreed(W, L, M, i, c)
    PROVE  Decreed(W2, L2, M2, i, c)
<1>1. PICK T \in Nat, k \in Nat : /\ Committed(W, L, M, T, k) /\ i \in Nat /\ 1 <= i /\ i <= k
                                  /\ c = L[T][i + 1].cmd
    BY DEF Decreed
<1>2. Committed(W2, L2, M2, T, k)
    BY <1>1, CommittedExtends
<1>3. L[T] \in Logs /\ Grown(L[T], L2[T], T) /\ k < Len(L[T])
    BY <1>1 DEF Committed, Extends, Has, Histories
<1>4. L[T][i + 1] = L2[T][i + 1]
    <2>1. Len(L[T]) \in Nat
        BY <1>3, LogLength
    <2>2. i + 1 \in 1..Len(L[T])
        BY <1>1, <1>3, <2>1
    <2> QED
        BY <1>3, <2>2 DEF Grown, Same
<1> QED
    BY <1>1, <1>2, <1>4 DEF Decreed

LEMMA AdvanceCommits ==
    ASSUME TypeOK, TypeOK', Elect, Step,
           NEW W, NEW V, NEW L, NEW M, History(W, V, L, M),
           NEW W2, NEW V2, NEW L2, NEW M2, Advance(W, V, L, M, W2, V2, L2, M2)
    PROVE  CommitsSettled(W2, L2, M2)' /\ AppliedDecreed(W2, L2, M2)'
<1>1. Histories(W, V, L, M) /\ Histories(W2, V2, L2, M2) /\ Extends(W, L, M, W2, L2, M2)
    BY DEF History, Advance
<1>2. ASSUME NEW s \in Server
      PROVE  Settled(W2, L2, M2, log'[s], currentTerm'[s], commitIndex'[s])
    <2>1. CASE log'[s] = log[s] /\ commitIndex'[s] = commitIndex[s]
        <3>1. PICK l \in Logs : l = log[s]
            BY DEF TypeOK, Logs
        <3>2. PICK t \in Nat : t = currentTerm[s]
            BY DEF TypeOK
        <3>3. PICK u \in Nat : u = currentTerm'[s]
            BY DEF TypeOK
        <3>4. PICK c \in Nat : c = commitIndex[s]
            BY DEF TypeOK
        <3>5. t <= u
            BY <3>2, <3>3 DEF Step, TermsGrow
        <3>6. Settled(W, L, M, l, t, c)
            BY <3>1, <3>2, <3>4 DEF History, CommitsSettled
        <3>7. Settled(W2, L2, M2, l, u, c)
            BY <1>1, <3>5, <3>6, SettledExtends
        <3> QED
            BY <2>1, <3>1, <3>3, <3>4, <3>7
    <2> QED
        BY <2>1 DEF Advance, NewCommits
<1>3. ASSUME NEW s \in Server, NEW i \in DOMAIN logs'[s]
      PROVE  Decreed(W2, L2, M2, i, logs'[s][i])
    <2>1. CASE i \in DOMAIN logs[s] /\ logs'[s][i] = logs[s][i]
        <3>1. Decreed(W, L, M, i, logs[s][i])
            BY <2>1 DEF History, AppliedDecreed
        <3>2. Decreed(W2, L2, M2, i, logs[s][i])
            BY <1>1, <3>1, DecreedExtends
        <3> QED
            BY <2>1, <3>2
    <2> QED
        BY <2>1 DEF Advance, NewApplied
<1> QED
    BY <1>2, <1>3 DEF CommitsSettled, AppliedDecreed

LEMMA AdvanceKeeps ==
    ASSUME TypeOK, TypeOK', Elect, Step,
           NEW W, NEW V, NEW L, NEW M, History(W, V, L, M),
           NEW W2, NEW V2, NEW L2, NEW M2, Advance(W, V, L, M, W2, V2, L2, M2)
    PROVE  History(W2, V2, L2, M2)'
<1>1. Histories(W2, V2, L2, M2)'
    BY DEF Advance, Histories, Logs, Entry
<1>2. LeaderLogs(W2, L2, M2)' /\ AcksBounded(W2, L2, M2)' /\ MatchesAcked(M2)'
    BY DEF Advance
<1>3. QuorumsCover(W2, V2, L2, M2)'
    BY AdvanceCovers
<1> QED
    BY <1>1, <1>2, <1>3, AdvanceTerms, AdvanceMessages, AdvanceCovers, AdvanceAcks, AdvanceCommits
       DEF History

----------------------------------------------------------------------------
(* Steps that add nothing to the history.                                  *)

\* A matchIndex stays good while the leader's log and the acknowledgements grow.
LEMMA MatchesGrow ==
    ASSUME NEW l \in Logs, NEW g \in Logs, Same(l, g, Len(l)), NEW t, NEW k \in Nat,
           NEW a \in Nat, NEW b \in Nat, a <= b, Matches(l, t, k, a)
    PROVE  Matches(g, t, k, b)
<1>1. Len(l) \in Nat /\ Len(g) \in Nat /\ Len(l) <= Len(g) /\ k < Len(l)
    BY LogLength DEF Same, Matches
<1>2. ASSUME NEW c \in Nat, c <= k, Has(g, t, c) PROVE c <= b
    <2>1. c + 1 \in 1..Len(l) /\ c < Len(l)
        BY <1>1, <1>2
    <2>2. l[c + 1] = g[c + 1]
        BY <2>1 DEF Same
    <2>3. Has(l, t, c)
        BY <1>2, <2>1, <2>2 DEF Has
    <2>4. c <= a
        BY <1>2, <2>3 DEF Matches
    <2> QED
        BY <2>4
<1>3. k < Len(g)
    BY <1>1
<1> QED
    BY <1>2, <1>3 DEF Matches

OldLeader(s) == state'[s] = Leader => state[s] = Leader /\ currentTerm'[s] = currentTerm[s]

OldVotes == \A q, c \in Server : \A u \in Nat : Votes(q, c, u)' => Votes(q, c, u)

LEMMA Idle ==
    ASSUME TypeOK, TypeOK', Elect, Step, NEW W, NEW V, NEW L, NEW M, History(W, V, L, M),
           UNCHANGED log, \A s \in Server : OldLeader(s), LeadersStay, MatchesAcked(M)',
           NewMessages(W, L, M), NewVotesCover(W, L, M), NewCommits(W, L, M), NewApplied(W, L, M)
    PROVE  Advance(W, V, L, M, W, V, L, M)
<1>1. Histories(W, V, L, M)
    BY DEF History
<1>2. Extends(W, L, M, W, L, M)
    <2>1. \A T \in Nat : Grown(L[T], L[T], T)
        BY <1>1, GrownRefl DEF Histories
    <2>2. \A q \in Server : \A T \in Nat : M[q][T] \in Nat
        BY <1>1 DEF Histories
    <2> QED
        BY <2>1, <2>2 DEF Extends
<1>3. NewTerms(W, W, V, L, M) /\ NewLogs(W, L, W, L) /\ CandidatesKeep
    BY DEF NewTerms, NewLogs, CandidatesKeep
<1>4. KeepsAcks(W, L, M, W, L) /\ NewAcks(W, L, M, W, L, M)
    BY DEF KeepsAcks, NewAcks
<1>5. LeaderLogs(W, L, M)'
    BY DEF History, LeaderLogs, OldLeader
<1>6. AcksBounded(W, L, M)'
    <2> SUFFICES ASSUME NEW q \in Server, NEW T \in Nat
                 PROVE  /\ W[T] = Nil => M[q][T] = 0
                        /\ W[T] # Nil => M[q][T] < Len(L[T])
                        /\ M[q][T] >= 1 => currentTerm'[q] >= T
        BY DEF AcksBounded
    <2>1. /\ W[T] = Nil => M[q][T] = 0
          /\ W[T] # Nil => M[q][T] < Len(L[T])
          /\ M[q][T] >= 1 => currentTerm[q] >= T
        BY DEF History, AcksBounded
    <2>2. currentTerm[q] \in Nat /\ currentTerm'[q] \in Nat /\ currentTerm'[q] >= currentTerm[q]
        BY DEF TypeOK, Step, TermsGrow
    <2> QED
        BY <2>1, <2>2
<1> QED
    BY <1>1, <1>2, <1>3, <1>4, <1>5, <1>6 DEF Advance

\* Old votes are covered.
LEMMA OldVotesCover ==
    ASSUME OldVotes, NEW W, NEW L, NEW M
    PROVE  NewVotesCover(W, L, M)
BY DEF OldVotes, NewVotesCover

\* No vote is cast while candidates and counts stay and no vote is granted.
LEMMA NoVotes ==
    ASSUME TypeOK, UNCHANGED tally, \A c \in Server : \A t \in Nat : Cand(c, t)' => Cand(c, t),
           \A m \in rpcs' : m.kind = "vote" /\ m.done => m \in rpcs
    PROVE  OldVotes
<1> SUFFICES ASSUME NEW q \in Server, NEW c \in Server, NEW u \in Nat, Votes(q, c, u)'
             PROVE  Votes(q, c, u)
    BY DEF OldVotes
<1>1. Granted(q, c, u)' => Granted(q, c, u)
    BY DEF Granted
<1>2. Counted(q, c, u)' => Counted(q, c, u)
    BY DEF Counted
<1> QED
    BY <1>1, <1>2 DEF Votes

\* Steps that leave the logs and what the leaders know alone.
LEMMA Quiet ==
    ASSUME TypeOK, TypeOK', Elect, Step, NEW W, NEW V, NEW L, NEW M, History(W, V, L, M),
           UNCHANGED <<log, matchIndex, commitIndex, logs>>,
           \A s \in Server : OldLeader(s), LeadersStay,
           NewMessages(W, L, M), NewVotesCover(W, L, M)
    PROVE  Advance(W, V, L, M, W, V, L, M)
<1>1. MatchesAcked(M)'
    BY DEF History, MatchesAcked, OldLeader
<1>2. NewCommits(W, L, M) /\ NewApplied(W, L, M)
    BY DEF NewCommits, NewApplied
<1> QED
    BY <1>1, <1>2, Idle

LEMMA SafeElection ==
    ASSUME TypeOK, TypeOK', Elect, Step, NEW W, NEW V, NEW L, NEW M, History(W, V, L, M),
           NEW s \in Server, startElection(s)
    PROVE  Advance(W, V, L, M, W, V, L, M)
<1>1. /\ state[s] # Leader
      /\ state' = [state EXCEPT ![s] = Candidate]
      /\ currentTerm' = [currentTerm EXCEPT ![s] = @ + 1]
      /\ tally' = [tally EXCEPT ![s] = {}]
      /\ UNCHANGED <<log, matchIndex, commitIndex, logs, rpcs>>
    BY DEF startElection, logVars, leaderVars, testVars
<1>2. PICK t \in Nat : t = currentTerm[s]
    BY DEF TypeOK
<1>3. \A x \in Server : OldLeader(x)
    BY <1>1 DEF OldLeader, TypeOK
<1>4. LeadersStay
    BY <1>1 DEF LeadersStay, TypeOK
<1>5. NewMessages(W, L, M)
    BY <1>1 DEF NewMessages
<1>6. NewVotesCover(W, L, M)
    <2> SUFFICES ASSUME NEW q \in Server, NEW c \in Server, NEW u \in Nat, Votes(q, c, u)',
                        ~Votes(q, c, u)
                 PROVE  Covers(W, L, M, q, log[c], u)
        BY DEF NewVotesCover
    <2>1. CASE c # s
        <3>1. Cand(c, u)' => Cand(c, u)
            BY <1>1, <2>1 DEF Cand, TypeOK
        <3>2. Granted(q, c, u)' => Granted(q, c, u)
            BY <1>1 DEF Granted
        <3>3. Counted(q, c, u)' => Counted(q, c, u)
            BY <1>1, <2>1, ZenonT(60) DEF Counted, TypeOK
        <3> QED
            BY <3>1, <3>2, <3>3 DEF Votes
    <2>2. CASE c = s
        <3>1. u = t + 1
            BY <1>1, <1>2, <2>2 DEF Votes, Cand, TypeOK
        <3>2. ~Granted(q, c, u)'
            <4> SUFFICES ASSUME NEW m \in rpcs, m.from = s, m.term = u PROVE FALSE
                BY <1>1, <2>2 DEF Granted
            <4>1. m.term <= currentTerm[s]
                BY DEF Elect, Honest
            <4> QED
                BY <1>2, <3>1, <4>1
        <3>3. ~Counted(q, c, u)'
            BY <1>1, <2>2 DEF Counted, TypeOK
        <3>4. q = s
            BY <2>2, <3>2, <3>3 DEF Votes
        <3> SUFFICES ASSUME NEW T \in Nat, NEW k \in Nat, Acked(W, L, M, s, T, k), ~Has(log[s], T, k)
                     PROVE  \E w \in Nat : w < u /\ Lost(W, L, T, k, w)
            BY <2>2, <3>4 DEF Covers
        <3>5. PICK w \in Nat : w <= t /\ Lost(W, L, T, k, w)
            BY <1>2 DEF History, AcksKept
        <3> QED
            BY <3>1, <3>5
    <2> QED
        BY <2>1, <2>2
<1> QED
    BY <1>1, <1>3, <1>4, <1>5, <1>6, Quiet

LEMMA SafeRequestVote ==
    ASSUME TypeOK, TypeOK', Elect, Step, NEW W, NEW V, NEW L, NEW M, History(W, V, L, M),
           NEW s \in Server, NEW r \in electing[s], RequestVote(s, r)
    PROVE  Advance(W, V, L, M, W, V, L, M)
<1>1. UNCHANGED <<currentTerm, state, tally, log, matchIndex, commitIndex, logs>>
    BY DEF RequestVote, peerVars, logVars, leaderVars, testVars
<1>2. PICK P \in SUBSET (Server \ {s}) : rpcs' = rpcs \cup {VoteRequest(s, p, r) : p \in P}
    BY DEF RequestVote
<1>3. \A p : LET m == VoteRequest(s, p, r)
             IN  /\ m.kind = "vote" /\ ~m.done /\ m.from = s
                 /\ m.lastLogIndex = LastIndex(log[s]) /\ m.lastLogTerm = LastTerm(log[s])
    BY DEF VoteRequest
<1>4. OldVotes
    <2>1. \A c \in Server : \A t \in Nat : Cand(c, t)' => Cand(c, t)
        BY <1>1 DEF Cand
    <2>2. \A m \in rpcs' : m.kind = "vote" /\ m.done => m \in rpcs
        BY <1>2, <1>3
    <2> QED
        BY <1>1, <2>1, <2>2, NoVotes
<1>5. NewMessages(W, L, M)
    <2> SUFFICES ASSUME NEW m \in rpcs', m \notin rpcs
                 PROVE  m.kind = "vote" /\ GoodVoteCall(m)'
        BY DEF NewMessages
    <2>1. /\ m.kind = "vote" /\ m.from = s
          /\ m.lastLogIndex = LastIndex(log[s]) /\ m.lastLogTerm = LastTerm(log[s])
        BY <1>2, <1>3
    <2>2. LastIndex(log[s])' = LastIndex(log[s]) /\ LastTerm(log[s])' = LastTerm(log[s])
        BY <1>1
    <2> QED
        BY <2>1, <2>2 DEF GoodVoteCall
<1>6. \A x \in Server : OldLeader(x)
    BY <1>1 DEF OldLeader
<1>7. LeadersStay
    BY <1>1 DEF LeadersStay
<1> QED
    BY <1>1, <1>4, <1>5, <1>6, <1>7, OldVotesCover, Quiet

LEMMA SafeHeartBeat ==
    ASSUME TypeOK, TypeOK', CommitInLog, Elect, Step, Index, ~Preempt, NextIndexPositive,
           NEW W, NEW V, NEW L, NEW M, History(W, V, L, M),
           NEW s \in Server, NEW p \in Server, RequestHeartBeat(s, p)
    PROVE  Advance(W, V, L, M, W, V, L, M)
<1>1. UNCHANGED <<currentTerm, state, tally, log, matchIndex, commitIndex, logs>>
    BY DEF RequestHeartBeat, peerVars, logVars, leaderVars, testVars
<1>2. state[s] = Leader
    BY HeartBeatSends
<1>3. PICK r : rpcs' = rpcs \cup {r} /\ Continues(r, s, p)
    BY HeartBeatSends
<1>4. PICK t \in Nat : t = currentTerm[s]
    BY DEF TypeOK
<1>5. PICK l \in Logs : l = log[s]
    BY DEF TypeOK, Logs
<1>6. W[t] = s /\ L[t] = l
    BY <1>2, <1>4, <1>5 DEF History, LeaderLogs
<1>7. PICK c \in Nat : c = commitIndex[s]
    BY DEF TypeOK
<1>8. Len(l) \in Nat /\ c < Len(l) /\ Settled(W, L, M, l, t, c)
    BY <1>4, <1>5, <1>7, LogLength DEF CommitInLog, History, CommitsSettled
<1>9. PICK b \in Nat : b = r.prevLogIndex
    BY <1>3 DEF Continues
<1>10. PICK es \in Seq(Entry) : es = r.entries
    BY <1>3 DEF Continues
<1>11. PICK n \in Nat : n = Len(es)
    BY <1>10
<1>12. /\ r.kind = "append" /\ ~r.done /\ r.from = s /\ r.term = t /\ r.leaderCommit = c
       /\ b + n = LastIndex(l)
       /\ \A j \in 1..n : es[j] = l[b + 1 + j]
       /\ r.prevLogTerm = l[b + 1].term \/ (b = 0 /\ es # <<>>)
    BY <1>3, <1>4, <1>5, <1>7, <1>9, <1>10, <1>11 DEF Continues
<1>13. b + n < Len(l) /\ c <= b + n
    BY <1>8, <1>12 DEF LastIndex
<1>14. GoodCall(W, L, M, r)
    BY <1>6, <1>8, <1>9, <1>10, <1>11, <1>12, <1>13 DEF GoodCall
<1>15. NewMessages(W, L, M)
    BY <1>3, <1>12, <1>14 DEF NewMessages
<1>16. OldVotes
    <2>1. \A x \in Server : \A u \in Nat : Cand(x, u)' => Cand(x, u)
        BY <1>1 DEF Cand
    <2> QED
        BY <1>1, <1>3, <1>12, <2>1, NoVotes
<1>17. \A x \in Server : OldLeader(x)
    BY <1>1 DEF OldLeader
<1>18. LeadersStay
    BY <1>1 DEF LeadersStay
<1> QED
    BY <1>1, <1>15, <1>16, <1>17, <1>18, OldVotesCover, Quiet

\* Steps of nobody: a call is lost, or nothing changes.
LEMMA SafeIdle ==
    ASSUME TypeOK, TypeOK', Elect, Step, NEW W, NEW V, NEW L, NEW M, History(W, V, L, M),
           UNCHANGED <<currentTerm, state, tally, log, matchIndex, commitIndex, logs>>,
           rpcs' \subseteq rpcs
    PROVE  Advance(W, V, L, M, W, V, L, M)
<1>1. OldVotes
    <2>1. \A x \in Server : \A u \in Nat : Cand(x, u)' => Cand(x, u)
        BY DEF Cand
    <2> QED
        BY <2>1, NoVotes
<1>2. NewMessages(W, L, M)
    BY DEF NewMessages
<1>3. \A x \in Server : OldLeader(x)
    BY DEF OldLeader
<1>4. LeadersStay
    BY DEF LeadersStay
<1> QED
    BY <1>1, <1>2, <1>3, <1>4, OldVotesCover, Quiet

LEMMA SafeApplier ==
    ASSUME TypeOK, TypeOK', CommitInLog, Elect, Step,
           NEW W, NEW V, NEW L, NEW M, History(W, V, L, M), NEW s \in Server, applier(s)
    PROVE  Advance(W, V, L, M, W, V, L, M)
<1>1. UNCHANGED <<currentTerm, state, tally, rpcs, log, matchIndex, commitIndex>>
    BY DEF applier, peerVars, leaderVars
<1>2. PICK i \in Nat : i = lastApplied'[s]
    BY DEF TypeOK
<1>3. PICK c \in Nat : c = commitIndex[s]
    BY DEF TypeOK
<1>4. 1 <= i /\ i <= c
    <2>1. lastApplied[s] \in Nat /\ i = lastApplied[s] + 1 /\ c > lastApplied[s]
        BY <1>2, <1>3 DEF applier, TypeOK
    <2> QED
        BY <2>1
<1>5. PICK l \in Logs : l = log[s]
    BY DEF TypeOK, Logs
<1>6. logs' = [logs EXCEPT ![s] = [x \in DOMAIN @ \cup {i} |-> IF x = i THEN At(l, i).cmd ELSE @[x]]]
    BY <1>2, <1>5 DEF applier
<1>7. Decreed(W, L, M, i, l[i + 1].cmd)
    <2>1. PICK t \in Nat : t = currentTerm[s]
        BY DEF TypeOK
    <2>2. Settled(W, L, M, l, t, c)
        BY <1>3, <1>5, <2>1 DEF History, CommitsSettled
    <2>3. PICK T \in Nat, k \in Nat :
            T <= t /\ c <= k /\ Committed(W, L, M, T, k) /\ Same(l, L[T], c + 1)
        BY <1>4, <2>2 DEF Settled
    <2>4. i + 1 \in 1..(c + 1)
        BY <1>4
    <2>5. l[i + 1] = L[T][i + 1]
        BY <2>3, <2>4 DEF Same
    <2>6. i <= k
        BY <1>4, <2>3
    <2> QED
        BY <1>4, <2>3, <2>5, <2>6 DEF Decreed
<1>8. NewApplied(W, L, M)
    <2> SUFFICES ASSUME NEW x \in Server, NEW j \in DOMAIN logs'[x]
                 PROVE  \/ j \in DOMAIN logs[x] /\ logs'[x][j] = logs[x][j]
                        \/ Decreed(W, L, M, j, logs'[x][j])
        BY DEF NewApplied
    <2>1. CASE x \in DOMAIN logs /\ x = s
        <3>1. logs'[s] = [y \in DOMAIN logs[s] \cup {i} |-> IF y = i THEN At(l, i).cmd ELSE logs[s][y]]
            BY <1>6, <2>1
        <3>2. CASE j = i
            <4>1. logs'[x][j] = l[i + 1].cmd
                BY <2>1, <3>1, <3>2 DEF At
            <4> QED
                BY <1>7, <3>2, <4>1
        <3>3. CASE j # i
            BY <2>1, <3>1, <3>3
        <3> QED
            BY <3>2, <3>3
    <2>2. CASE ~(x \in DOMAIN logs /\ x = s)
        BY <1>6, <2>2
    <2> QED
        BY <2>1, <2>2
<1>9. OldVotes
    <2>1. \A x \in Server : \A u \in Nat : Cand(x, u)' => Cand(x, u)
        BY <1>1 DEF Cand
    <2> QED
        BY <1>1, <2>1, NoVotes
<1>10. NewMessages(W, L, M) /\ NewCommits(W, L, M) /\ LeadersStay
    BY <1>1 DEF NewMessages, NewCommits, LeadersStay
<1>11. \A x \in Server : OldLeader(x)
    BY <1>1 DEF OldLeader
<1>12. MatchesAcked(M)'
    BY <1>1 DEF History, MatchesAcked
<1> QED
    BY <1>1, <1>8, <1>9, <1>10, <1>11, <1>12, OldVotesCover, Idle

----------------------------------------------------------------------------
(* Votes.                                                                  *)

\* The last entry of a log that has one.
LEMMA LastEntry ==
    ASSUME NEW W, NEW L \in [Nat -> Logs], NEW l \in Logs, NEW t, Follows(W, L, l, t), Len(l) > 1
    PROVE  \E T \in Nat : /\ T = LastTerm(l) /\ l[Len(l)].term = T /\ T <= t
                          /\ W[T] # Nil /\ Same(l, L[T], Len(l))
<1>1. Len(l) \in Nat /\ Len(l) \in 1..Len(l) /\ Len(l) \in 2..Len(l)
    BY LogLength
<1>2. PICK T \in Nat : T = l[Len(l)].term
    BY <1>1, LogLength
<1>3. T <= t /\ W[T] # Nil /\ Same(l, L[T], Len(l))
    BY <1>1, <1>2 DEF Follows
<1>4. LastIndex(l) + 1 = Len(l)
    BY <1>1 DEF LastIndex
<1>5. LastTerm(l) = T
    BY <1>2, <1>4 DEF LastTerm, At
<1> QED
    BY <1>2, <1>3, <1>5

\* raft.go:555: a voter that finds the log of the candidate at least as new as its own
\* has acknowledged nothing that this log lacks, unless it was lost before.
LEMMA UpToDateCovers ==
    ASSUME TypeOK, NEW W, NEW V, NEW L, NEW M, History(W, V, L, M),
           NEW q \in Server, NEW c \in Server, NEW u \in Nat, W[u] = Nil,
           currentTerm[q] <= u, currentTerm[c] = u,
           NEW m, UpToDate(m, log[q]),
           m.lastLogIndex = LastIndex(log[c]), m.lastLogTerm = LastTerm(log[c])
    PROVE  Covers(W, L, M, q, log[c], u)
<1>1. PICK a \in Logs : a = log[q]
    BY DEF TypeOK, Logs
<1>2. PICK d \in Logs : d = log[c]
    BY DEF TypeOK, Logs
<1> SUFFICES ASSUME NEW T \in Nat, NEW k \in Nat, T < u, Acked(W, L, M, q, T, k), ~Has(d, T, k)
             PROVE  \E w \in Nat : w < u /\ Lost(W, L, T, k, w)
    BY <1>2 DEF Covers
<1>3. L \in [Nat -> Logs] /\ \A w \in Nat : W[w] # Nil => Follows(W, L, L[w], w)
    BY DEF History, Histories, LogsFollow
<1>4. PICK t \in Nat : t = currentTerm[q]
    BY DEF TypeOK
<1>5. Follows(W, L, a, t) /\ Follows(W, L, d, u)
    BY <1>1, <1>2, <1>4 DEF History, LogsFollow
<1>6. CASE ~Has(a, T, k)
    <2>1. PICK w \in Nat : w <= t /\ Lost(W, L, T, k, w)
        BY <1>1, <1>4, <1>6 DEF History, AcksKept
    <2>2. w # u /\ w <= u
        BY <1>4, <2>1 DEF Lost
    <2> QED
        BY <2>1, <2>2
<1>7. CASE Has(a, T, k)
    <2>1. 1 <= k /\ k < Len(a) /\ a[k + 1].term = T /\ Len(a) \in Nat /\ Len(d) \in Nat /\ Len(d) >= 1
        BY <1>7, LogLength DEF Acked, Has
    <2>2. PICK A \in Nat : /\ A = LastTerm(a) /\ a[Len(a)].term = A /\ A <= t
                           /\ W[A] # Nil /\ Same(a, L[A], Len(a))
        BY <1>3, <1>5, <2>1, LastEntry
    <2>3. T <= A
        <3>1. 2 <= k + 1 /\ k + 1 <= Len(a) /\ k + 1 \in Nat
            BY <2>1
        <3>2. Len(a) <= Len(a)
            BY <2>1
        <3>3. PICK i \in Nat : i = k + 1
            BY <3>1
        <3>4. a[i].term <= a[Len(a)].term
            BY <1>3, <1>5, <2>1, <3>1, <3>2, <3>3, TermsAscend
        <3> QED
            BY <2>1, <2>2, <3>3, <3>4
    <2>4. LastTerm(d) > A \/ (LastTerm(d) = A /\ Len(d) >= Len(a))
        <3>1. \/ Len(a) = 1
              \/ LastTerm(d) > A
              \/ LastTerm(d) = A /\ LastIndex(d) >= LastIndex(a)
            BY <1>1, <1>2, <2>2 DEF UpToDate
        <3> QED
            BY <2>1, <3>1 DEF LastIndex
    <2>5. Len(d) > 1
        <3>1. CASE Len(d) = 1
            <4>1. LastTerm(d) = -1
                BY <3>1 DEF LastTerm
            <4> QED
                BY <2>4, <4>1
        <3>2. PICK n \in Nat : n = Len(d) /\ n >= 1
            BY <2>1
        <3> QED
            BY <3>1, <3>2
    <2>6. PICK B \in Nat : /\ B = LastTerm(d) /\ d[Len(d)].term = B /\ B <= u
                           /\ W[B] # Nil /\ Same(d, L[B], Len(d))
        BY <1>3, <1>5, <2>5, LastEntry
    <2>7. B < u
        BY <2>6
    <2>8. L[A] \in Logs /\ L[B] \in Logs
        BY <1>3
    <2>9. CASE B = A /\ Len(d) >= Len(a)
        <3>1. Same(d, L[A], Len(a))
            BY <2>1, <2>6, <2>8, <2>9, SameShorter
        <3>2. Same(L[A], a, Len(a))
            BY <2>2, SameFlip
        <3>3. Same(d, a, Len(a))
            BY <2>1, <2>8, <3>1, <3>2, SameTrans
        <3> QED
            BY <1>7, <2>1, <3>3, HasSame
    <2>10. CASE B > A
        <3>1. ~Has(L[B], T, k)
            <4> SUFFICES ASSUME Has(L[B], T, k) PROVE FALSE
                OBVIOUS
            <4>1. CASE k < Len(d)
                BY <2>1, <2>6, <2>8, <4>1, HasSame
            <4>2. CASE k >= Len(d)
                <5>1. k + 1 <= Len(L[B]) /\ L[B][k + 1].term = T
                    BY <2>8, LogLength DEF Has
                <5>2. Len(d) \in 1..Len(d)
                    BY <2>1
                <5>3. L[B][Len(d)] = d[Len(d)]
                    BY <2>6, <5>2 DEF Same
                <5>4. 2 <= Len(d) /\ Len(d) <= k + 1 /\ k + 1 \in Nat
                    BY <2>1, <2>5, <4>2
                <5>5. Follows(W, L, L[B], B)
                    BY <1>3, <2>6
                <5>6. L[B][Len(d)].term <= L[B][k + 1].term
                    BY <1>3, <2>1, <2>8, <5>1, <5>4, <5>5, TermsAscend
                <5> QED
                    BY <2>3, <2>6, <2>10, <5>1, <5>3, <5>6
            <4> QED
                BY <2>1, <4>1, <4>2
        <3>2. Lost(W, L, T, k, B)
            BY <2>3, <2>6, <2>10, <3>1 DEF Lost
        <3> QED
            BY <2>7, <3>2
    <2> QED
        BY <2>4, <2>6, <2>9, <2>10
<1> QED
    BY <1>6, <1>7

LEMMA SafeVoteHandler ==
    ASSUME TypeOK, TypeOK', Elect, Step, NEW W, NEW V, NEW L, NEW M, History(W, V, L, M),
           NEW m \in rpcs, RequestVoteReply(m)
    PROVE  Advance(W, V, L, M, W, V, L, M)
<1>1. UNCHANGED <<log, matchIndex, commitIndex, logs, tally>>
    BY DEF RequestVoteReply, logVars, leaderVars, testVars
<1>2. PICK p \in Server : p = m.to
    BY MessageKinds DEF TypeOK
<1>3. PICK T \in Nat : T = m.term
    BY MessageKinds DEF TypeOK
<1>4. PICK t \in Nat : t = currentTerm[p]
    BY DEF TypeOK
<1>5. PICK c \in Server : c = m.from
    BY MessageKinds DEF TypeOK
<1>6. m.kind = "vote" /\ ~m.done
    BY DEF RequestVoteReply
<1>7. PICK term \in Nat : term = IF T > t THEN T ELSE t
    OBVIOUS
<1>8. /\ currentTerm' = [currentTerm EXCEPT ![p] = term]
      /\ state' = [state EXCEPT ![p] = IF T > t THEN Follower ELSE @]
    BY <1>2, <1>3, <1>4, <1>7 DEF RequestVoteReply
<1>9. PICK g : /\ rpcs' = (rpcs \ {m}) \cup Answer(m, VoteReply(m, term, g))
               /\ g => T >= term /\ UpToDate(m, log[p])
    BY <1>2, <1>3, <1>4, <1>7 DEF RequestVoteReply
<1>10. PICK r : r = VoteReply(m, term, g)
    OBVIOUS
<1>11. /\ r.kind = "vote" /\ r.done /\ r.from = c /\ r.to = p /\ r.term = T /\ r.granted = g
       /\ \A n \in rpcs' : n \in rpcs \/ n = r
    BY <1>2, <1>3, <1>5, <1>9, <1>10 DEF VoteReply, Answer
<1>12. \A x \in Server : OldLeader(x)
    <2> SUFFICES ASSUME NEW x \in Server, state'[x] = Leader
                 PROVE  state[x] = Leader /\ currentTerm'[x] = currentTerm[x]
        BY DEF OldLeader
    <2>1. CASE x # p
        BY <1>8, <2>1 DEF TypeOK
    <2>2. CASE x = p
        <3>1. ~(T > t)
            BY <1>8, <2>2 DEF TypeOK
        <3> QED
            BY <1>4, <1>7, <1>8, <2>2, <3>1 DEF TypeOK
    <2> QED
        BY <2>1, <2>2
<1>13. LeadersStay
    <2> SUFFICES ASSUME NEW x \in Server, state[x] = Leader, currentTerm'[x] = currentTerm[x]
                 PROVE  state'[x] = Leader
        BY DEF LeadersStay
    <2>1. CASE x # p
        BY <1>8, <2>1 DEF TypeOK
    <2>2. CASE x = p
        <3>1. ~(T > t)
            BY <1>4, <1>7, <1>8, <2>2 DEF TypeOK
        <3> QED
            BY <1>8, <2>2, <3>1 DEF TypeOK
    <2> QED
        BY <2>1, <2>2
<1>14. NewMessages(W, L, M)
    BY <1>11 DEF NewMessages
<1>15. NewVotesCover(W, L, M)
    <2> SUFFICES ASSUME NEW q \in Server, NEW x \in Server, NEW u \in Nat, Votes(q, x, u)',
                        W[u] = Nil, ~Votes(q, x, u)
                 PROVE  Covers(W, L, M, q, log[x], u)
        BY DEF NewVotesCover
    <2>1. Cand(x, u)' /\ Cand(x, u)
        <3>1. Cand(x, u)'
            BY DEF Votes
        <3>2. CASE x # p
            BY <1>8, <3>1, <3>2 DEF Cand, TypeOK
        <3>3. CASE x = p
            <4>1. ~(T > t)
                BY <1>8, <3>1, <3>3 DEF Cand, TypeOK
            <4> QED
                BY <1>4, <1>7, <1>8, <3>1, <3>3, <4>1 DEF Cand, TypeOK
        <3> QED
            BY <3>1, <3>2, <3>3
    <2>2. Counted(q, x, u)' => Counted(q, x, u)
        BY <1>1 DEF Counted
    <2>3. Granted(q, x, u)' /\ ~Granted(q, x, u)
        BY <2>1, <2>2 DEF Votes
    <2>4. g /\ x = c /\ q = p /\ u = T
        <3>1. PICK n \in rpcs' : /\ n.kind = "vote" /\ n.done /\ n.granted
                                 /\ n.from = x /\ n.to = q /\ n.term = u
            BY <2>3 DEF Granted
        <3>2. n = r
            BY <1>11, <2>3, <3>1 DEF Granted
        <3> QED
            BY <1>11, <3>1, <3>2
    <2>5. T >= term /\ UpToDate(m, log[p])
        BY <1>9, <2>4
    <2>6. currentTerm[p] <= T /\ currentTerm[c] = T
        BY <1>4, <1>7, <2>1, <2>4, <2>5 DEF Cand
    <2>7. GoodVoteCall(m)
        BY <1>6 DEF History, Messages
    <2>8. m.lastLogIndex = LastIndex(log[c]) /\ m.lastLogTerm = LastTerm(log[c])
        BY <1>3, <1>5, <2>1, <2>4, <2>7 DEF GoodVoteCall
    <2>9. Covers(W, L, M, p, log[c], T)
        BY <2>4, <2>5, <2>6, <2>8, UpToDateCovers
    <2> QED
        BY <2>4, <2>9
<1> QED
    BY <1>1, <1>12, <1>13, <1>14, <1>15, Quiet

----------------------------------------------------------------------------
(* Votes that are answered.                                                *)

\* N is M with s acknowledging the log of the leader of term t up to v.
Acks(M, N, s, t, v) ==
    /\ N \in [Server -> [Nat -> Nat]]
    /\ N[s][t] = v
    /\ \A q \in Server : \A u \in Nat : q # s \/ u # t => N[q][u] = M[q][u]

LEMMA AckExists ==
    ASSUME NEW M \in [Server -> [Nat -> Nat]], NEW s \in Server, NEW t \in Nat, NEW v \in Nat
    PROVE  \E N : Acks(M, N, s, t, v)
<1>1. PICK f \in [Nat -> Nat] : f = M[s]
    OBVIOUS
<1>2. PICK g : g = [f EXCEPT ![t] = v]
    OBVIOUS
<1>3. g \in [Nat -> Nat] /\ g[t] = v /\ \A u \in Nat : u # t => g[u] = f[u]
    BY <1>2
<1>4. PICK N : N = [M EXCEPT ![s] = g]
    OBVIOUS
<1>5. N \in [Server -> [Nat -> Nat]] /\ N[s] = g /\ \A q \in Server : q # s => N[q] = M[q]
    BY <1>3, <1>4
<1>6. Acks(M, N, s, t, v)
    BY <1>1, <1>3, <1>5 DEF Acks
<1> QED
    BY <1>6

\* The peer that gets an answer of a later term becomes a follower.
LEMMA SafeStepDown ==
    ASSUME TypeOK, TypeOK', Elect, Step, NEW W, NEW V, NEW L, NEW M, History(W, V, L, M),
           NEW s \in Server, NEW r \in Nat, r > currentTerm[s],
           currentTerm' = [currentTerm EXCEPT ![s] = r],
           state' = [state EXCEPT ![s] = Follower],
           UNCHANGED <<tally, log, matchIndex, commitIndex, logs>>, rpcs' \subseteq rpcs
    PROVE  Advance(W, V, L, M, W, V, L, M)
<1>1. currentTerm[s] \in Nat /\ currentTerm'[s] # currentTerm[s]
    BY DEF TypeOK
<1>2. \A x \in Server : OldLeader(x)
    BY DEF OldLeader, TypeOK
<1>3. LeadersStay
    BY <1>1 DEF LeadersStay, TypeOK
<1>4. NewMessages(W, L, M)
    BY DEF NewMessages
<1>5. OldVotes
    <2>1. \A c \in Server : \A u \in Nat : Cand(c, u)' => Cand(c, u)
        BY DEF Cand, TypeOK
    <2> QED
        BY <2>1, NoVotes
<1> QED
    BY <1>2, <1>3, <1>4, <1>5, OldVotesCover, Quiet

\* A vote is counted that was granted before.
LEMMA SafeCounts ==
    ASSUME TypeOK, TypeOK', Elect, Step, NEW W, NEW V, NEW L, NEW M, History(W, V, L, M),
           NEW m \in rpcs, NEW b, b.term = m.term, b.voter = m.to,
           m.kind = "vote", m.done, m.granted,
           tally' = [tally EXCEPT ![m.from] = @ \cup {b}], rpcs' \subseteq rpcs,
           UNCHANGED <<currentTerm, state, log, matchIndex, commitIndex, logs>>
    PROVE  Advance(W, V, L, M, W, V, L, M)
<1>1. \A c \in Server : \A a \in tally'[c] : a \in tally[c] \/ (c = m.from /\ a = b)
    BY MessageKinds DEF TypeOK
<1>2. OldVotes
    <2> SUFFICES ASSUME NEW p \in Server, NEW c \in Server, NEW t \in Nat, Votes(p, c, t)'
                 PROVE  Votes(p, c, t)
        BY DEF OldVotes
    <2>1. Granted(p, c, t)' => Granted(p, c, t)
        BY DEF Granted
    <2>2. Counted(p, c, t)' => Counted(p, c, t) \/ Granted(p, c, t)
        BY <1>1 DEF Counted, Granted
    <2>3. Cand(c, t)' => Cand(c, t)
        BY DEF Cand
    <2> QED
        BY <2>1, <2>2, <2>3 DEF Votes
<1>3. \A x \in Server : OldLeader(x)
    BY DEF OldLeader
<1>4. LeadersStay /\ NewMessages(W, L, M)
    BY DEF LeadersStay, NewMessages
<1> QED
    BY <1>2, <1>3, <1>4, OldVotesCover, Quiet

MatchesInside(s) == \A p \in Server : matchIndex[s][p] < Len(log[s])

\* A leader is elected, with the log it has.
LEMMA SafeWins ==
    ASSUME TypeOK, TypeOK', Elect, Step, NEW W, NEW V, NEW L, NEW M, History(W, V, L, M),
           NEW s \in Server, NEW t \in Nat, t = currentTerm[s],
           NEW Q \in SUBSET Server, Elected(s, Q), MatchesInside(s),
           state' = [state EXCEPT ![s] = Leader], tally' = [tally EXCEPT ![s] = {}],
           UNCHANGED <<currentTerm, log, matchIndex, commitIndex, logs>>, rpcs' \subseteq rpcs
    PROVE  \E W2, V2, L2, M2 : Advance(W, V, L, M, W2, V2, L2, M2)
<1>1. Histories(W, V, L, M)
    BY DEF History
<1>2. W[t] = Nil
    <2> SUFFICES ASSUME W[t] # Nil PROVE FALSE
        OBVIOUS
    <2>1. Decided(V[t], t)
        BY DEF History, Chosen
    <2>2. PICK p \in Server : p \in Q /\ p \in V[t]
        BY <2>1, QuorumsMeet DEF Elected, Decided
    <2> QED
        BY <2>1, <2>2 DEF Elected, Decided
<1>3. PICK l \in Logs : l = log[s]
    BY DEF TypeOK, Logs
<1>4. PICK n \in Nat : n = LastIndex(l) /\ n < Len(l)
    <2>1. Len(l) \in Nat /\ Len(l) >= 1
        BY LogLength
    <2>2. Len(l) - 1 \in Nat /\ Len(l) - 1 < Len(l)
        BY <2>1
    <2> QED
        BY <2>2 DEF LastIndex
<1>5. /\ s # Nil /\ s \in Server \cup {Nil}
      /\ W \in [Nat -> Server \cup {Nil}] /\ V \in [Nat -> SUBSET Server]
      /\ L \in [Nat -> Logs] /\ M \in [Server -> [Nat -> Nat]]
    BY <1>1, ServerAssumption DEF Histories
<1>30. PICK W2 : W2 = [W EXCEPT ![t] = s]
    OBVIOUS
<1>31. PICK V2 : V2 = [V EXCEPT ![t] = Q]
    OBVIOUS
<1>32. PICK L2 : L2 = [L EXCEPT ![t] = l]
    OBVIOUS
<1>6. W2 \in [Nat -> Server \cup {Nil}] /\ W2[t] = s /\ \A u \in Nat : u # t => W2[u] = W[u]
    BY <1>5, <1>30
<1>7. V2 \in [Nat -> SUBSET Server] /\ V2[t] = Q /\ \A u \in Nat : u # t => V2[u] = V[u]
    BY <1>5, <1>31
<1>8. L2 \in [Nat -> Logs] /\ L2[t] = l /\ \A u \in Nat : u # t => L2[u] = L[u]
    BY <1>5, <1>32
<1>33. PICK M2 : Acks(M, M2, s, t, n)
    BY <1>5, AckExists
<1>9. /\ M2 \in [Server -> [Nat -> Nat]]
      /\ M2[s][t] = n
      /\ \A q \in Server : \A u \in Nat : q # s \/ u # t => M2[q][u] = M[q][u]
    BY <1>33 DEF Acks
<1>10. Histories(W2, V2, L2, M2)
    BY <1>6, <1>7, <1>8, <1>9 DEF Histories
<1>11. \A q \in Server : M[q][t] = 0
    BY <1>2 DEF History, AcksBounded
<1>12. \A q \in Server : q # s => M2[q][t] = 0
    BY <1>9, <1>11
<1>13. Extends(W, L, M, W2, L2, M2)
    <2>1. ASSUME NEW T \in Nat, W[T] # Nil PROVE W2[T] = W[T] /\ Grown(L[T], L2[T], T)
        <3>1. T # t
            BY <1>2, <2>1
        <3>2. W2[T] = W[T] /\ L2[T] = L[T] /\ L[T] \in Logs
            BY <1>1, <1>6, <1>8, <3>1 DEF Histories
        <3> QED
            BY <3>2, GrownRefl
    <2>2. ASSUME NEW q \in Server, NEW T \in Nat PROVE M[q][T] <= M2[q][T]
        <3>1. M[q][T] \in Nat /\ M2[q][T] \in Nat
            BY <1>5, <1>9
        <3> QED
            BY <1>9, <1>11, <3>1
    <2> QED
        BY <2>1, <2>2 DEF Extends
<1>14. \A T \in Nat : W[T] # Nil => V2[T] = V[T]
    BY <1>2, <1>7
<1>15. state'[s] = Leader /\ currentTerm'[s] = t /\ \A x \in Server : x # s => state'[x] = state[x]
    BY DEF TypeOK
<1>16. ASSUME NEW q \in Server, NEW T \in Nat, NEW k \in Nat, Acked(W2, L2, M2, q, T, k), T # t
       PROVE  Acked(W, L, M, q, T, k)
    BY <1>6, <1>8, <1>9, <1>16 DEF Acked
<1>17. NewTerms(W, W2, V2, L2, M2)
    <2> SUFFICES ASSUME NEW T \in Nat, W[T] = Nil, W2[T] # Nil
                 PROVE  /\ currentTerm'[W2[T]] = T /\ state'[W2[T]] = Leader
                        /\ Decided(V2[T], T)'
                        /\ \A q \in V2[T] : Covers(W2, L2, M2, q, L2[T], T)
        BY DEF NewTerms
    <2>1. T = t
        BY <1>6
    <2>2. Decided(Q, t)'
        BY <1>15, ElectedDecides
    <2>3. ASSUME NEW q \in Q PROVE Covers(W2, L2, M2, q, l, t)
        <3>1. q \in Server /\ Votes(q, s, t)
            BY DEF Elected
        <3>2. Covers(W, L, M, q, l, t)
            BY <1>2, <1>3, <3>1 DEF History, VotesCover
        <3>3. \A u, k \in Nat : u < t /\ Acked(W2, L2, M2, q, u, k) => Acked(W, L, M, q, u, k)
            BY <1>16, <3>1
        <3> QED
            BY <1>1, <1>10, <1>13, <3>1, <3>2, <3>3, CoversExtends
    <2> QED
        BY <1>6, <1>7, <1>8, <1>15, <2>1, <2>2, <2>3
<1>18. NewLogs(W, L, W2, L2)
    <2>1. Follows(W, L, l, t)
        BY <1>3 DEF History, LogsFollow
    <2>2. Follows(W2, L2, l, t)
        BY <1>1, <1>10, <1>13, <2>1, FollowsExtends
    <2> QED
        BY <1>6, <1>8, <2>2 DEF NewLogs
<1>19. LeadersStay /\ CandidatesKeep
    BY <1>15 DEF LeadersStay, CandidatesKeep
<1>20. KeepsAcks(W, L, M, W2, L2)
    BY DEF KeepsAcks
<1>21. NewAcks(W, L, M, W2, L2, M2)
    <2> SUFFICES ASSUME NEW q \in Server, NEW T \in Nat, NEW k \in Nat,
                        Acked(W2, L2, M2, q, T, k), T = t
                 PROVE  currentTerm[q] <= T /\ Has(log[q], T, k)
        BY <1>16 DEF NewAcks
    <2>1. q = s
        BY <1>12 DEF Acked
    <2> QED
        BY <1>3, <1>8, <2>1 DEF Acked
<1>22. NewMessages(W2, L2, M2)
    BY DEF NewMessages
<1>23. NewVotesCover(W2, L2, M2)
    <2>1. OldVotes
        <3> SUFFICES ASSUME NEW p \in Server, NEW c \in Server, NEW u \in Nat, Votes(p, c, u)'
                     PROVE  Votes(p, c, u)
            BY DEF OldVotes
        <3>1. c # s /\ Cand(c, u)
            BY <1>15 DEF Votes, Cand
        <3>2. Granted(p, c, u)' => Granted(p, c, u)
            BY DEF Granted
        <3>3. Counted(p, c, u)' => Counted(p, c, u)
            BY <3>1, ZenonT(60) DEF Counted, TypeOK
        <3> QED
            BY <3>1, <3>2, <3>3 DEF Votes
    <2> QED
        BY <2>1, OldVotesCover
<1>24. NewCommits(W2, L2, M2) /\ NewApplied(W2, L2, M2)
    BY DEF NewCommits, NewApplied
<1>25. ASSUME NEW x \in Server, x # s, state[x] = Leader
       PROVE  /\ currentTerm[x] \in Nat /\ currentTerm[x] # t
              /\ W[currentTerm[x]] = x /\ L[currentTerm[x]] = log[x]
              /\ M[x][currentTerm[x]] = LastIndex(log[x])
    <2>1. /\ W[currentTerm[x]] = x /\ L[currentTerm[x]] = log[x]
          /\ M[x][currentTerm[x]] = LastIndex(log[x])
        BY <1>25 DEF History, LeaderLogs
    <2>2. x # Nil /\ currentTerm[x] \in Nat
        BY VoteType
    <2> QED
        BY <1>2, <2>1, <2>2
<1>26. LeaderLogs(W2, L2, M2)'
    <2> SUFFICES ASSUME NEW x \in Server, state'[x] = Leader
                 PROVE  /\ W2[currentTerm[x]] = x
                        /\ L2[currentTerm[x]] = log[x]
                        /\ M2[x][currentTerm[x]] = LastIndex(log[x])
        BY DEF LeaderLogs
    <2>1. CASE x = s
        <3>1. W2[t] = s /\ L2[t] = l /\ M2[s][t] = n
            BY <1>6, <1>8, <1>9
        <3> QED
            BY <1>3, <1>4, <2>1, <3>1
    <2>2. CASE x # s
        <3>1. PICK u \in Nat : u = currentTerm[x] /\ u # t
            BY <1>15, <1>25, <2>2
        <3>2. W2[u] = W[u] /\ L2[u] = L[u] /\ M2[x][u] = M[x][u]
            BY <1>6, <1>8, <1>9, <3>1
        <3> QED
            BY <1>15, <1>25, <2>2, <3>1, <3>2
    <2> QED
        BY <2>1, <2>2
<1>27. AcksBounded(W2, L2, M2)'
    <2> SUFFICES ASSUME NEW q \in Server, NEW T \in Nat
                 PROVE  /\ W2[T] = Nil => M2[q][T] = 0
                        /\ W2[T] # Nil => M2[q][T] < Len(L2[T])
                        /\ M2[q][T] >= 1 => currentTerm[q] >= T
        BY DEF AcksBounded
    <2>1. CASE T # t
        <3>1. /\ W[T] = Nil => M[q][T] = 0
              /\ W[T] # Nil => M[q][T] < Len(L[T])
              /\ M[q][T] >= 1 => currentTerm[q] >= T
            BY DEF History, AcksBounded
        <3> QED
            BY <1>6, <1>8, <1>9, <2>1, <3>1
    <2>2. CASE T = t /\ q = s
        <3>1. W2[T] = s /\ L2[T] = l /\ M2[q][T] = n /\ currentTerm[q] = T
            BY <1>6, <1>8, <1>9, <2>2
        <3> QED
            BY <1>4, <1>5, <3>1
    <2>3. CASE T = t /\ q # s
        <3>1. Len(l) \in Nat /\ Len(l) >= 1
            BY LogLength
        <3>2. W2[T] = s /\ L2[T] = l /\ M2[q][T] = 0
            BY <1>6, <1>8, <1>12, <2>3
        <3> QED
            BY <1>5, <3>1, <3>2
    <2> QED
        BY <2>1, <2>2, <2>3
<1>28. MatchesAcked(M2)'
    <2> SUFFICES ASSUME NEW x \in Server, NEW p \in Server, state'[x] = Leader, p # x
                 PROVE  Matches(log[x], currentTerm[x], matchIndex[x][p], M2[p][currentTerm[x]])
        BY DEF MatchesAcked
    <2>1. CASE x = s
        <3>1. PICK a \in Nat : a = M2[p][t]
            BY <1>9
        <3>2. ASSUME NEW c \in Nat, Has(l, t, c) PROVE c <= a
            <4>1. CASE c = 0
                BY <4>1
            <4>2. CASE c # 0
                <5>1. Follows(W, L, l, t)
                    BY <1>3 DEF History, LogsFollow
                <5>2. c + 1 \in 2..Len(l) /\ l[c + 1].term = t
                    <6>1. Len(l) \in Nat /\ c < Len(l) /\ l[c + 1].term = t
                        BY <3>2, LogLength DEF Has
                    <6> QED
                        BY <4>2, <6>1
                <5> QED
                    BY <1>2, <5>1, <5>2 DEF Follows
            <4> QED
                BY <4>1, <4>2
        <3> QED
            BY <1>3, <2>1, <3>1, <3>2 DEF Matches, MatchesInside
    <2>2. CASE x # s
        <3>1. Matches(log[x], currentTerm[x], matchIndex[x][p], M[p][currentTerm[x]])
            BY <1>15, <2>2 DEF History, MatchesAcked
        <3> QED
            BY <1>9, <1>15, <1>25, <2>2, <3>1
    <2> QED
        BY <2>1, <2>2
<1> QED
    BY <1>10, <1>13, <1>14, <1>17, <1>18, <1>19, <1>20, <1>21, <1>22, <1>23, <1>24, <1>26, <1>27, <1>28
       DEF Advance

LEMMA SafeVoteAnswered ==
    ASSUME TypeOK, TypeOK', Elect, Step, NEW W, NEW V, NEW L, NEW M, History(W, V, L, M),
           MatchInLog, NEW m \in rpcs, VoteAnswered(m)
    PROVE  \E W2, V2, L2, M2 : Advance(W, V, L, M, W2, V2, L2, M2)
<1> DEFINE s     == m.from
           stale == currentTerm[s] # m.term \/ state[s] # Candidate
           b     == [round |-> m.id, term |-> m.term, voter |-> m.to]
<1>1. m.kind = "vote" /\ m.done /\ rpcs' \subseteq rpcs
    BY DEF VoteAnswered
<1>2. UNCHANGED <<log, matchIndex, commitIndex, logs>>
    BY DEF VoteAnswered, logVars, testVars
<1>3. \/ UNCHANGED <<currentTerm, state, tally>>
      \/ /\ ~stale
         /\ state' = [state EXCEPT ![s] = Leader]
         /\ tally' = [tally EXCEPT ![s] = {}]
         /\ UNCHANGED currentTerm
      \/ /\ m.granted
         /\ tally' = [tally EXCEPT ![s] = @ \cup {b}]
         /\ UNCHANGED <<currentTerm, state>>
      \/ /\ m.replyTerm > currentTerm[s]
         /\ currentTerm' = [currentTerm EXCEPT ![s] = m.replyTerm]
         /\ state' = [state EXCEPT ![s] = Follower]
         /\ UNCHANGED tally
    BY Zenon DEF VoteAnswered, peerVars
<1>4. s \in Server /\ m.replyTerm \in Nat /\ currentTerm[s] \in Nat
    BY <1>1, MessageKinds, ZenonT(60) DEF TypeOK, VoteDone
<1>5. b.term = m.term /\ b.voter = m.to
    OBVIOUS
<1> HIDE DEF b
<1>6. CASE UNCHANGED <<currentTerm, state, tally>>
    <2>1. Advance(W, V, L, M, W, V, L, M)
        BY <1>1, <1>2, <1>6, SafeIdle
    <2> QED
        BY <2>1
<1>7. CASE /\ ~stale
           /\ state' = [state EXCEPT ![s] = Leader]
           /\ tally' = [tally EXCEPT ![s] = {}]
           /\ UNCHANGED currentTerm
    <2>1. state[s] = Candidate /\ state'[s] = Leader
        BY <1>4, <1>7 DEF TypeOK
    <2>2. PICK Q \in SUBSET Server : Elected(s, Q)
        BY <1>4, <2>1 DEF Step, NewLeaders, Wins
    <2>3. MatchesInside(s)
        BY <1>4, <2>1 DEF MatchInLog, MatchesInside
    <2> HIDE DEF s, stale
    <2>4. PICK t \in Nat : t = currentTerm[s]
        BY <1>4
    <2> QED
        BY <1>1, <1>2, <1>4, <1>7, <2>2, <2>3, <2>4, SafeWins
<1>8. CASE /\ m.granted
           /\ tally' = [tally EXCEPT ![s] = @ \cup {b}]
           /\ UNCHANGED <<currentTerm, state>>
    <2>1. Advance(W, V, L, M, W, V, L, M)
        BY <1>1, <1>2, <1>5, <1>8, SafeCounts
    <2> QED
        BY <2>1
<1>9. CASE /\ m.replyTerm > currentTerm[s]
           /\ currentTerm' = [currentTerm EXCEPT ![s] = m.replyTerm]
           /\ state' = [state EXCEPT ![s] = Follower]
           /\ UNCHANGED tally
    <2>1. Advance(W, V, L, M, W, V, L, M)
        BY <1>1, <1>2, <1>4, <1>9, SafeStepDown
    <2> QED
        BY <2>1
<1> QED
    BY <1>3, <1>6, <1>7, <1>8, <1>9

----------------------------------------------------------------------------
(* Start() makes the log of the leader longer.                             *)

LEMMA Appended ==
    ASSUME NEW l \in Logs, NEW e \in Entry, NEW g, g = Append(l, e)
    PROVE  /\ g \in Logs /\ Len(g) = Len(l) + 1
           /\ Same(l, g, Len(l)) /\ g[Len(l) + 1] = e
           /\ Grown(l, g, e.term)
<1>1. Len(l) \in Nat /\ Len(l) >= 1 /\ l \in Seq(Entry)
    BY LogLength
<1>2. g \in Seq(Entry) /\ Len(g) = Len(l) + 1
    BY <1>1
<1>3. g # <<>>
    BY <1>1, <1>2
<1>4. \A i \in 1..Len(l) : l[i] = g[i]
    BY <1>1
<1>5. g[Len(l) + 1] = e
    BY <1>1
<1>6. Same(l, g, Len(l))
    BY <1>1, <1>2, <1>4 DEF Same
<1>7. \A i \in (Len(l) + 1)..Len(g) : g[i].term = e.term
    BY <1>1, <1>2, <1>5
<1> QED
    BY <1>2, <1>3, <1>5, <1>6, <1>7 DEF Logs, Grown

LEMMA SettledLonger ==
    ASSUME NEW W, NEW L \in [Nat -> Logs], NEW M, NEW l \in Logs, NEW g \in Logs, NEW t \in Nat,
           NEW c \in Nat, Settled(W, L, M, l, t, c), c < Len(l), Same(l, g, Len(l))
    PROVE  Settled(W, L, M, g, t, c)
<1>1. CASE c = 0
    BY <1>1 DEF Settled
<1>2. CASE c # 0
    <2>1. PICK T \in Nat, k \in Nat :
            T <= t /\ c <= k /\ Committed(W, L, M, T, k) /\ Same(l, L[T], c + 1)
        BY <1>2 DEF Settled
    <2>6. Len(l) \in Nat
        BY LogLength
    <2>2. Len(l) \in Nat /\ c + 1 <= Len(l) /\ L[T] \in Logs
        BY <2>6
    <2>3. Same(l, g, c + 1)
        BY <2>2, SameShorter
    <2>4. Same(g, l, c + 1)
        BY <2>3, SameFlip
    <2>5. Same(g, L[T], c + 1)
        BY <2>1, <2>2, <2>4, SameTrans
    <2> QED
        BY <2>1, <2>5 DEF Settled
<1> QED
    BY <1>1, <1>2

LEMMA SafeStart ==
    ASSUME TypeOK, TypeOK', CommitInLog, Elect, Step, ~Preempt,
           NEW W, NEW V, NEW L, NEW M, History(W, V, L, M),
           NEW s \in Server, NEW cmd \in Command, Start(s, cmd)
    PROVE  \E L2, M2 : Advance(W, V, L, M, W, V, L2, M2)
<1>1. /\ state[s] = Leader
      /\ UNCHANGED <<currentTerm, state, commitIndex, matchIndex, tally, rpcs, logs>>
    BY StartAppends DEF peerVars, leaderVars, testVars
<1>2. PICK t \in Nat : t = currentTerm[s]
    BY DEF TypeOK
<1>3. PICK l \in Logs : l = log[s]
    BY DEF TypeOK, Logs
<1>4. PICK e : e = [cmd |-> cmd, term |-> t]
    OBVIOUS
<1>5. e \in Entry /\ e.term = t
    BY <1>4 DEF Entry
<1>6. PICK g : g = Append(l, e)
    OBVIOUS
<1>7. log' = [log EXCEPT ![s] = g]
    BY <1>2, <1>3, <1>4, <1>6, StartAppends
<1>8. log'[s] = g /\ \A x \in Server : x # s => log'[x] = log[x]
    BY <1>7 DEF TypeOK
<1>9. g \in Logs /\ Len(g) = Len(l) + 1 /\ Same(l, g, Len(l)) /\ g[Len(l) + 1] = e /\ Grown(l, g, t)
    BY <1>5, <1>6, Appended
<1>10. PICK n \in Nat : n = Len(l) /\ n >= 1 /\ Len(g) = n + 1 /\ LastIndex(l) = n - 1 /\ LastIndex(g) = n
    <2>1. PICK n \in Nat : n = Len(l) /\ n >= 1
        BY LogLength
    <2> QED
        BY <1>9, <2>1 DEF LastIndex
<1>11. Histories(W, V, L, M)
    BY DEF History
<1>12. /\ s # Nil /\ W \in [Nat -> Server \cup {Nil}] /\ V \in [Nat -> SUBSET Server]
       /\ L \in [Nat -> Logs] /\ M \in [Server -> [Nat -> Nat]]
    BY <1>11, ServerAssumption DEF Histories
<1>13. W[t] = s /\ L[t] = l /\ M[s][t] = n - 1
    BY <1>1, <1>2, <1>3, <1>10 DEF History, LeaderLogs
<1>14. PICK L2 : L2 = [L EXCEPT ![t] = g]
    OBVIOUS
<1>15. L2 \in [Nat -> Logs] /\ L2[t] = g /\ \A u \in Nat : u # t => L2[u] = L[u]
    BY <1>9, <1>12, <1>14
<1>16. PICK M2 : Acks(M, M2, s, t, n)
    BY <1>12, AckExists
<1>17. /\ M2 \in [Server -> [Nat -> Nat]]
       /\ M2[s][t] = n
       /\ \A q \in Server : \A u \in Nat : q # s \/ u # t => M2[q][u] = M[q][u]
    BY <1>16 DEF Acks
<1>18. Histories(W, V, L2, M2)
    BY <1>12, <1>15, <1>17 DEF Histories
<1>19. Extends(W, L, M, W, L2, M2)
    <2>1. ASSUME NEW T \in Nat PROVE Grown(L[T], L2[T], T)
        <3>1. CASE T = t
            BY <1>9, <1>13, <1>15, <3>1
        <3>2. CASE T # t
            <4>1. L2[T] = L[T] /\ L[T] \in Logs
                BY <1>12, <1>15, <3>2
            <4> QED
                BY <4>1, GrownRefl
        <3> QED
            BY <3>1, <3>2
    <2>2. ASSUME NEW q \in Server, NEW T \in Nat PROVE M[q][T] <= M2[q][T]
        <3>1. M[q][T] \in Nat /\ M2[q][T] \in Nat
            BY <1>12, <1>17
        <3>2. CASE q = s /\ T = t
            <4>1. M[q][T] = n - 1 /\ M2[q][T] = n
                BY <1>13, <1>17, <3>2
            <4> QED
                BY <4>1
        <3>3. CASE ~(q = s /\ T = t)
            <4>1. M2[q][T] = M[q][T]
                BY <1>17, <3>3
            <4> QED
                BY <3>1, <4>1
        <3> QED
            BY <3>2, <3>3
    <2> QED
        BY <2>1, <2>2 DEF Extends
<1>20. Follows(W, L2, g, t)
    <2>1. Follows(W, L, l, t)
        BY <1>2, <1>3 DEF History, LogsFollow
    <2>2. Follows(W, L2, l, t)
        BY <1>11, <1>18, <1>19, <2>1, FollowsExtends
    <2>3. g[1] = Dummy
        <3>1. 1 \in 1..Len(l)
            BY <1>10
        <3> QED
            BY <1>9, <2>2, <3>1 DEF Follows, Same
    <2>4. ASSUME NEW i \in 2..Len(g)
          PROVE  g[i].term <= t /\ W[g[i].term] # Nil /\ Same(g, L2[g[i].term], i)
        <3>1. i \in Nat /\ 2 <= i /\ i <= n + 1
            BY <1>10
        <3>2. CASE i = n + 1
            <4>1. g[i].term = t
                BY <1>5, <1>9, <1>10, <3>2
            <4>2. Same(g, g, i)
                BY <1>10, <3>1 DEF Same
            <4> QED
                BY <1>12, <1>13, <1>15, <4>1, <4>2
        <3>3. CASE i # n + 1
            <4>1. i \in 2..Len(l) /\ i \in 1..Len(l) /\ i <= Len(l)
                BY <1>10, <3>1, <3>3
            <4>2. g[i] = l[i]
                BY <1>9, <4>1 DEF Same
            <4>3. PICK u \in Nat : u = l[i].term
                BY <4>1, LogLength
            <4>4. u <= t /\ W[u] # Nil /\ Same(l, L2[u], i)
                BY <2>2, <4>1, <4>3 DEF Follows
            <4>5. Same(l, g, i)
                BY <1>9, <1>10, <3>1, <4>1, SameShorter
            <4>6. Same(g, l, i)
                BY <4>5, SameFlip
            <4>7. L2[u] \in Logs
                BY <1>15
            <4>8. Same(g, L2[u], i)
                BY <1>9, <3>1, <4>4, <4>6, <4>7, SameTrans
            <4> QED
                BY <4>2, <4>3, <4>4, <4>8
        <3> QED
            BY <3>2, <3>3
    <2> QED
        BY <2>3, <2>4 DEF Follows
<1>21. NewTerms(W, W, V, L2, M2)
    BY DEF NewTerms
<1>22. NewLogs(W, L, W, L2)
    <2>1. \A T \in Nat : W[T] # Nil => \/ W[T] # Nil /\ L2[T] = L[T]
                                       \/ Follows(W, L2, L2[T], T)
        BY <1>15, <1>20
    <2>2. \A x \in Server : log'[x] = log[x] \/ Follows(W, L2, log'[x], currentTerm'[x])
        BY <1>1, <1>2, <1>8, <1>20
    <2> QED
        BY <2>1, <2>2 DEF NewLogs
<1>23. LeadersStay /\ CandidatesKeep
    BY <1>1, <1>8 DEF LeadersStay, CandidatesKeep, Cand
<1>24. KeepsAcks(W, L, M, W, L2)
    <2> SUFFICES ASSUME NEW q \in Server, NEW T \in Nat, NEW k \in Nat, Has(log[q], T, k)
                 PROVE  Has(log'[q], T, k)
        BY DEF KeepsAcks
    <2>1. CASE q = s
        BY <1>3, <1>8, <1>9, <2>1, GrownHas
    <2>2. CASE q # s
        BY <1>8, <2>2
    <2> QED
        BY <2>1, <2>2
<1>25. NewAcks(W, L, M, W, L2, M2)
    <2> SUFFICES ASSUME NEW q \in Server, NEW T \in Nat, NEW k \in Nat, Acked(W, L2, M2, q, T, k)
                 PROVE  \/ Acked(W, L, M, q, T, k)
                        \/ currentTerm[q] <= T /\ Has(log'[q], T, k)
        BY DEF NewAcks
    <2>1. W[T] # Nil /\ 1 <= k /\ k <= M2[q][T] /\ Has(L2[T], T, k)
        BY DEF Acked
    <2>2. CASE T # t
        BY <1>15, <1>17, <2>1, <2>2 DEF Acked
    <2>3. CASE T = t /\ q = s
        BY <1>2, <1>8, <1>15, <2>1, <2>3
    <2>4. CASE T = t /\ q # s
        <3>1. M2[q][t] = M[q][t] /\ M[q][t] < Len(L[t]) /\ M[q][t] \in Nat
            BY <1>12, <1>13, <1>17, <2>4, ZenonT(60) DEF History, AcksBounded
        <3>2. k < n /\ Has(g, t, k) /\ k <= M[q][t]
            BY <1>10, <1>13, <1>15, <2>1, <2>4, <3>1
        <3>3. Has(l, t, k)
            BY <1>9, <1>10, <3>2, HasSame
        <3> QED
            BY <1>12, <1>13, <2>1, <2>4, <3>2, <3>3 DEF Acked
    <2> QED
        BY <2>2, <2>3, <2>4
<1>26. NewMessages(W, L2, M2) /\ NewApplied(W, L2, M2)
    BY <1>1 DEF NewMessages, NewApplied
<1>27. NewVotesCover(W, L2, M2)
    <2>1. \A x \in Server : \A u \in Nat : Cand(x, u)' => Cand(x, u)
        BY <1>1 DEF Cand
    <2>2. OldVotes
        BY <1>1, <2>1, NoVotes
    <2> QED
        BY <2>2, OldVotesCover
<1>28. NewCommits(W, L2, M2)
    <2>1. PICK c \in Nat : c = commitIndex[s] /\ c < Len(l)
        BY <1>3 DEF TypeOK, CommitInLog
    <2>2. Settled(W, L, M, l, t, c)
        BY <1>2, <1>3, <2>1 DEF History, CommitsSettled
    <2>3. t <= t
        OBVIOUS
    <2>4. Settled(W, L2, M2, l, t, c)
        BY <1>11, <1>18, <1>19, <2>2, <2>3, SettledExtends
    <2>5. Settled(W, L2, M2, g, t, c)
        BY <1>9, <1>15, <2>1, <2>4, SettledLonger
    <2> QED
        BY <1>1, <1>2, <1>8, <2>1, <2>5 DEF NewCommits
<1>29. LeaderLogs(W, L2, M2)'
    <2> SUFFICES ASSUME NEW x \in Server, state[x] = Leader
                 PROVE  /\ W[currentTerm[x]] = x
                        /\ L2[currentTerm[x]] = log'[x]
                        /\ M2[x][currentTerm[x]] = LastIndex(log'[x])
        BY <1>1 DEF LeaderLogs
    <2>1. CASE x = s
        <3>1. W[t] = s /\ L2[t] = g /\ M2[s][t] = n
            BY <1>13, <1>15, <1>17
        <3> QED
            BY <1>2, <1>8, <1>10, <2>1, <3>1
    <2>2. CASE x # s
        <3>1. PICK u \in Nat : u = currentTerm[x]
            BY DEF TypeOK
        <3>2. W[u] = x /\ L[u] = log[x] /\ M[x][u] = LastIndex(log[x])
            BY <3>1 DEF History, LeaderLogs
        <3>3. u # t
            BY <1>13, <2>2, <3>2
        <3>4. L2[u] = L[u] /\ M2[x][u] = M[x][u]
            BY <1>15, <1>17, <3>3
        <3> QED
            BY <1>8, <2>2, <3>1, <3>2, <3>4
    <2> QED
        BY <2>1, <2>2
<1>30. AcksBounded(W, L2, M2)'
    <2> SUFFICES ASSUME NEW q \in Server, NEW T \in Nat
                 PROVE  /\ W[T] = Nil => M2[q][T] = 0
                        /\ W[T] # Nil => M2[q][T] < Len(L2[T])
                        /\ M2[q][T] >= 1 => currentTerm[q] >= T
        BY <1>1 DEF AcksBounded
    <2>1. /\ W[T] = Nil => M[q][T] = 0
          /\ W[T] # Nil => M[q][T] < Len(L[T])
          /\ M[q][T] >= 1 => currentTerm[q] >= T
        BY DEF History, AcksBounded
    <2>2. CASE T # t
        <3>1. L2[T] = L[T] /\ M2[q][T] = M[q][T]
            BY <1>15, <1>17, <2>2
        <3> QED
            BY <2>1, <3>1
    <2>3. CASE T = t /\ q = s
        <3>1. W[T] = s /\ L2[T] = g /\ M2[q][T] = n /\ currentTerm[q] = T
            BY <1>2, <1>13, <1>15, <1>17, <2>3
        <3> QED
            BY <1>10, <1>12, <3>1
    <2>4. CASE T = t /\ q # s
        <3>1. W[T] = s /\ L2[T] = g /\ M2[q][T] = M[q][T] /\ L[T] = l /\ M[q][T] \in Nat
            BY <1>12, <1>13, <1>15, <1>17, <2>4
        <3>2. W[T] # Nil /\ M[q][T] < n /\ Len(L2[T]) = n + 1
            BY <1>10, <1>12, <2>1, <3>1
        <3>3. PICK a \in Nat : a = M[q][T]
            BY <3>1
        <3>4. M2[q][T] < Len(L2[T])
            BY <3>1, <3>2, <3>3
        <3> QED
            BY <2>1, <3>1, <3>2, <3>4
    <2> QED
        BY <2>2, <2>3, <2>4
<1>31. MatchesAcked(M2)'
    <2> SUFFICES ASSUME NEW x \in Server, NEW p \in Server, state[x] = Leader, p # x
                 PROVE  Matches(log'[x], currentTerm'[x], matchIndex'[x][p], M2[p][currentTerm'[x]])
        BY <1>1 DEF MatchesAcked
    <2>1. PICK u \in Nat : u = currentTerm[x]
        BY DEF TypeOK
    <2>2. PICK k \in Nat : k = matchIndex[x][p]
        <3>1. matchIndex \in [Server -> [Server -> Nat]]
            BY DEF TypeOK
        <3> QED
            BY <3>1
    <2>3. M[p][u] <= M2[p][u] /\ M[p][u] \in Nat /\ M2[p][u] \in Nat
        BY <1>12, <1>17, <1>19, SMTT(30) DEF Extends
    <2>4. log[x] \in Logs /\ log'[x] \in Logs
        BY DEF TypeOK, Logs
    <2>5. Same(log[x], log'[x], Len(log[x]))
        <3>1. CASE x = s
            BY <1>3, <1>8, <1>9, <3>1
        <3>2. CASE x # s
            <4>1. log'[x] = log[x] /\ Len(log[x]) \in Nat
                BY <1>8, <2>4, <3>2, LogLength
            <4> QED
                BY <4>1 DEF Same
        <3> QED
            BY <3>1, <3>2
    <2>6. Matches(log[x], u, k, M[p][u])
        BY <2>1, <2>2 DEF History, MatchesAcked
    <2>7. Matches(log'[x], u, k, M2[p][u])
        BY <2>3, <2>4, <2>5, <2>6, MatchesGrow
    <2> QED
        BY <1>1, <2>1, <2>2, <2>7
<1>32. \A T \in Nat : W[T] # Nil => V[T] = V[T]
    OBVIOUS
<1> QED
    BY <1>18, <1>19, <1>21, <1>22, <1>23, <1>24, <1>25, <1>26, <1>27, <1>28, <1>29, <1>30, <1>31, <1>32
       DEF Advance

----------------------------------------------------------------------------
(* Answers to AppendEntries.                                               *)

\* raft.go:237-252: what a leader counts a majority for, in its own term, is committed.
LEMMA CountedCommits ==
    ASSUME TypeOK, NEW W, NEW V, NEW L, NEW M, History(W, V, L, M),
           NEW s \in Server, state[s] = Leader, NEW t \in Nat, t = currentTerm[s],
           NEW c \in Nat, 1 <= c, c < Len(log[s]), NEW match \in [Server -> Nat],
           \A q \in Server : q # s => Matches(log[s], t, match[q], M[q][t]), Commits(s, c, match)
    PROVE  Settled(W, L, M, log[s], t, c)
<1>1. PICK l \in Logs : l = log[s]
    BY DEF TypeOK, Logs
<1>2. Len(l) \in Nat /\ c + 1 <= Len(l) /\ c <= LastIndex(l)
    <2>1. Len(l) \in Nat
        BY LogLength
    <2> QED
        BY <1>1, <2>1 DEF LastIndex
<1>3. W[t] = s /\ L[t] = l /\ M[s][t] = LastIndex(l)
    BY <1>1 DEF History, LeaderLogs
<1>4. Has(l, t, c)
    <2>1. l[c + 1].term = t
        BY <1>1 DEF Commits, At
    <2> QED
        BY <1>1, <2>1 DEF Has
<1> DEFINE P == {p \in Server \ {s} : match[p] >= c}
           Q == P \cup {s}
<1>5. Majority(Cardinality(Q)) /\ Q \subseteq Server
    <2>1. IsFiniteSet(P) /\ s \notin P
        BY ServerAssumption, FS_Subset
    <2>2. Cardinality(Q) = Cardinality(P) + 1 /\ Cardinality(P) \in Nat
        BY <2>1, FS_AddElement, FS_CardinalityType
    <2>3. Majority(1 + Cardinality(P))
        BY DEF Commits, Acknowledged
    <2> HIDE DEF P, Q
    <2>4. 1 + Cardinality(P) = Cardinality(Q)
        BY <2>2
    <2> QED
        BY <2>3, <2>4 DEF P, Q
<1>6. ASSUME NEW q \in Q PROVE c <= M[q][t]
    <2>1. CASE q = s
        BY <1>2, <1>3, <2>1
    <2>2. CASE q # s
        <3>1. q \in P
            BY <2>2
        <3>2. q \in Server /\ match[q] >= c
            BY <3>1
        <3> HIDE DEF P, Q
        <3>3. Matches(l, t, match[q], M[q][t])
            BY <1>1, <2>2, <3>2, Zenon
        <3>4. c <= match[q]
            BY <3>2
        <3> QED
            BY <1>4, <3>3, <3>4 DEF Matches
    <2> QED
        BY <2>1, <2>2
<1>7. W[t] # Nil
    BY <1>3, ServerAssumption
<1> HIDE DEF P, Q
<1>8. Committed(W, L, M, t, c)
    BY <1>3, <1>4, <1>5, <1>6, <1>7 DEF Committed
<1>9. Same(l, L[t], c + 1)
    BY <1>2, <1>3 DEF Same
<1>10. t <= t /\ c <= c
    OBVIOUS
<1> QED
    BY <1>1, <1>8, <1>9, <1>10 DEF Settled

LEMMA SafeAcked ==
    ASSUME TypeOK, TypeOK', Elect, Step, NEW W, NEW V, NEW L, NEW M, History(W, V, L, M),
           NEW m \in rpcs, m.kind = "append", m.done, m.success, m.count > 0,
           currentTerm[m.from] = m.term, rpcs' \subseteq rpcs, NEW last, NEW match,
           last = m.prevLogIndex + m.count,
           match = [matchIndex[m.from] EXCEPT ![m.to] = last],
           matchIndex' = [matchIndex EXCEPT ![m.from] = match],
           commitIndex' = [commitIndex EXCEPT ![m.from] =
                              IF Commits(m.from, last, match) THEN last ELSE @],
           UNCHANGED <<currentTerm, state, tally, log, logs>>
    PROVE  Advance(W, V, L, M, W, V, L, M)
<1>1. PICK s \in Server : s = m.from
    BY MessageKinds DEF TypeOK
<1>2. PICK p \in Server : p = m.to /\ p # s
    BY <1>1, MessageKinds DEF TypeOK, Elect, Honest
<1>3. PICK t \in Nat : t = currentTerm[s] /\ t = m.term
    BY <1>1 DEF TypeOK
<1>4. m \in AppendDone
    BY MessageKinds DEF TypeOK
<1>5. last \in Nat /\ 1 <= last
    <2>1. PICK a \in Nat, b \in Nat : a = m.prevLogIndex /\ b = m.count
        BY <1>4 DEF AppendDone
    <2> QED
        BY <2>1
<1>6. W[t] = s /\ last <= M[p][t]
    BY <1>1, <1>2, <1>3 DEF History, Messages, GoodAnswer
<1>7. s # Nil
    BY ServerAssumption
<1>8. state[s] = Leader
    BY <1>3, <1>6, <1>7 DEF History, Reigns
<1>9. PICK l \in Logs : l = log[s]
    BY DEF TypeOK, Logs
<1>10. L[t] = l /\ Len(l) \in Nat
    BY <1>3, <1>8, <1>9, LogLength DEF History, LeaderLogs
<1>11. last < Len(l)
    <2>1. M[p][t] < Len(L[t])
        BY <1>6, <1>7 DEF History, AcksBounded
    <2>2. M[p][t] \in Nat
        BY DEF History, Histories
    <2> QED
        BY <1>5, <1>6, <1>10, <2>1, <2>2
<1>12. matchIndex \in [Server -> [Server -> Nat]] /\ matchIndex[s] \in [Server -> Nat]
    BY DEF TypeOK
<1>13. match \in [Server -> Nat] /\ match[p] = last /\ \A y \in Server : y # p => match[y] = matchIndex[s][y]
    BY <1>1, <1>2, <1>5, <1>12
<1>14. matchIndex'[s] = match /\ \A x \in Server : x # s => matchIndex'[x] = matchIndex[x]
    BY <1>1, <1>12
<1>15. ASSUME NEW q \in Server, q # s PROVE Matches(l, t, match[q], M[q][t])
    <2>1. CASE q = p
        <3>1. PICK a \in Nat : a = M[p][t]
            BY DEF History, Histories
        <3>2. last <= a /\ match[q] = last
            BY <1>6, <1>13, <2>1, <3>1
        <3>3. \A c \in Nat : c <= last => c <= a
            BY <1>5, <3>2
        <3> QED
            BY <1>11, <2>1, <3>1, <3>2, <3>3 DEF Matches
    <2>2. CASE q # p
        <3>1. Matches(l, t, matchIndex[s][q], M[q][t])
            BY <1>3, <1>8, <1>9, <1>15 DEF History, MatchesAcked
        <3> QED
            BY <1>13, <2>2, <3>1
    <2> QED
        BY <2>1, <2>2
<1>16. MatchesAcked(M)'
    <2> SUFFICES ASSUME NEW x \in Server, NEW q \in Server, state[x] = Leader, q # x
                 PROVE  Matches(log[x], currentTerm[x], matchIndex'[x][q], M[q][currentTerm[x]])
        BY DEF MatchesAcked
    <2>1. CASE x = s
        <3>1. Matches(l, t, match[q], M[q][t])
            BY <1>15, <2>1
        <3> QED
            BY <1>3, <1>9, <1>14, <2>1, <3>1
    <2>2. CASE x # s
        <3>1. Matches(log[x], currentTerm[x], matchIndex[x][q], M[q][currentTerm[x]])
            BY DEF History, MatchesAcked
        <3> QED
            BY <1>14, <2>2, <3>1
    <2> QED
        BY <2>1, <2>2
<1>17. commitIndex'[s] = (IF Commits(s, last, match) THEN last ELSE commitIndex[s])
        /\ \A x \in Server : x # s => commitIndex'[x] = commitIndex[x]
    BY <1>1, ZenonT(60) DEF TypeOK
<1>18. Commits(s, last, match) => Settled(W, L, M, log[s], t, last)
    BY <1>3, <1>5, <1>8, <1>9, <1>11, <1>13, <1>15, CountedCommits
<1>19. NewCommits(W, L, M)
    BY <1>3, <1>17, <1>18 DEF NewCommits
<1>20. OldVotes
    <2>1. \A x \in Server : \A u \in Nat : Cand(x, u)' => Cand(x, u)
        BY DEF Cand
    <2> QED
        BY <2>1, NoVotes
<1>21. NewMessages(W, L, M) /\ NewApplied(W, L, M) /\ LeadersStay
    BY DEF NewMessages, NewApplied, LeadersStay
<1>22. \A x \in Server : OldLeader(x)
    BY DEF OldLeader
<1> QED
    BY <1>16, <1>19, <1>20, <1>21, <1>22, OldVotesCover, Idle

LEMMA SafeAppendAnswered ==
    ASSUME TypeOK, TypeOK', Elect, Step, NEW W, NEW V, NEW L, NEW M, History(W, V, L, M),
           NEW m \in rpcs, AppendAnswered(m)
    PROVE  Advance(W, V, L, M, W, V, L, M)
<1> DEFINE s     == m.from
           last  == m.prevLogIndex + m.count
           match == [matchIndex[s] EXCEPT ![m.to] = last]
<1>1. m.kind = "append" /\ m.done /\ rpcs' \subseteq rpcs
    BY DEF AppendAnswered
<1>2. UNCHANGED <<log, logs, tally>>
    BY DEF AppendAnswered, testVars
<1>3. \/ UNCHANGED <<currentTerm, state, matchIndex, commitIndex>>
      \/ /\ m.replyTerm > currentTerm[s]
         /\ currentTerm' = [currentTerm EXCEPT ![s] = m.replyTerm]
         /\ state' = [state EXCEPT ![s] = Follower]
         /\ UNCHANGED <<matchIndex, commitIndex>>
      \/ /\ currentTerm[s] = m.term /\ m.count > 0 /\ m.success
         /\ matchIndex' = [matchIndex EXCEPT ![s] = match]
         /\ commitIndex' = [commitIndex EXCEPT ![s] =
                               IF Commits(s, last, match) THEN last ELSE @]
         /\ UNCHANGED <<currentTerm, state>>
    BY Zenon DEF AppendAnswered, peerVars, leaderVars
<1>4. s \in Server /\ m.replyTerm \in Nat
    BY <1>1, MessageKinds, ZenonT(60) DEF TypeOK, AppendDone
<1>5. CASE UNCHANGED <<currentTerm, state, matchIndex, commitIndex>>
    BY <1>1, <1>2, <1>5, SafeIdle
<1>6. CASE /\ m.replyTerm > currentTerm[s]
           /\ currentTerm' = [currentTerm EXCEPT ![s] = m.replyTerm]
           /\ state' = [state EXCEPT ![s] = Follower]
           /\ UNCHANGED <<matchIndex, commitIndex>>
    BY <1>1, <1>2, <1>4, <1>6, SafeStepDown
<1>7. CASE /\ currentTerm[s] = m.term /\ m.count > 0 /\ m.success
           /\ matchIndex' = [matchIndex EXCEPT ![s] = match]
           /\ commitIndex' = [commitIndex EXCEPT ![s] =
                                 IF Commits(s, last, match) THEN last ELSE @]
           /\ UNCHANGED <<currentTerm, state>>
    <2>1. last = m.prevLogIndex + m.count /\ match = [matchIndex[m.from] EXCEPT ![m.to] = last]
        OBVIOUS
    <2> HIDE DEF last, match
    <2> QED
        BY <1>1, <1>2, <1>7, <2>1, SafeAcked
<1> QED
    BY <1>3, <1>5, <1>6, <1>7

----------------------------------------------------------------------------
(* The handler of AppendEntries.                                           *)

\* The follower's log l, which is the leader's log F up to index b, after the entries of F
\* that follow.  Nothing in which l agreed with F is lost.
LEMMA MergeFollows ==
    ASSUME NEW W, NEW L \in [Nat -> Logs], NEW l \in Logs, NEW F \in Logs,
           NEW t \in Nat, NEW T \in Nat, t <= T, Follows(W, L, l, t), Follows(W, L, F, T),
           NEW b \in Nat, NEW es \in Seq(Entry), NEW n \in Nat, n = Len(es), b + n < Len(F),
           \A j \in 1..n : es[j] = F[b + 1 + j], Same(l, F, b + 1), NEW r, r = Merge(l, b, es)
    PROVE  /\ r \in Logs /\ Same(r, F, b + n + 1) /\ Follows(W, L, r, T)
           /\ \A i \in Nat : Same(l, F, i) => Same(r, F, i)
<1>1. Len(l) \in Nat /\ Len(F) \in Nat /\ l \in Seq(Entry) /\ b + 1 <= Len(l) /\ b < Len(l)
    <2>1. Len(l) \in Nat /\ Len(F) \in Nat /\ l \in Seq(Entry)
        BY LogLength
    <2> QED
        BY <2>1 DEF Same
\* Where an entry of l has the term of that of F, they are the same up to there.
<1>2. ASSUME NEW i \in Nat, b + i < Len(l), i \in 1..n, l[b + i + 1].term = es[i].term
      PROVE  Same(l, F, b + i + 1)
    <2>1. PICK k \in Nat : k = b + i /\ k >= 1 /\ k < Len(l) /\ k < Len(F)
        BY <1>1, <1>2
    <2>2. b + 1 + i = k + 1 /\ b + i + 1 = k + 1
        BY <1>2, <2>1
    <2>3. es[i] = F[k + 1] /\ l[k + 1].term = es[i].term
        BY <1>2, <2>2
    <2>4. PICK u \in Nat : u = l[k + 1].term
        <3>1. k + 1 \in 1..Len(l)
            BY <1>1, <2>1
        <3> QED
            BY <3>1, LogLength
    <2>5. Has(l, u, k) /\ Has(F, u, k)
        BY <2>1, <2>3, <2>4 DEF Has
    <2>6. Same(l, F, k + 1)
        BY <2>1, <2>5, LogsMatch
    <2> QED
        BY <2>2, <2>6
<1>3. CASE r = l /\ HasAll(l, b, es)
    <2>1. Same(l, F, b + n + 1)
        <3>1. CASE n = 0
            BY <3>1
        <3>2. CASE n # 0
            <4>1. n \in 1..n
                BY <3>2
            <4>2. b + n < Len(l) /\ l[b + n + 1].term = es[n].term
                BY <1>3, <4>1 DEF HasAll
            <4> QED
                BY <1>2, <4>1, <4>2
        <3> QED
            BY <3>1, <3>2
    <2>2. Follows(W, L, l, T)
        BY FollowsLater
    <2> QED
        BY <1>3, <2>1, <2>2
<1>4. ASSUME NEW j \in 1..Len(es), CutsAt(l, b, es, r, j)
      PROVE  /\ r \in Logs /\ Same(r, F, b + n + 1) /\ Follows(W, L, r, T)
             /\ \A i \in Nat : Same(l, F, i) => Same(r, F, i)
    <2>7. /\ j \in 1..n
          /\ b + j <= Len(l)
          /\ \A i \in 1..(j - 1) : b + i < Len(l) /\ l[b + i + 1].term = es[i].term
          /\ b + j < Len(l) => l[b + j + 1].term # es[j].term
          /\ r \in Seq(Entry) /\ Len(r) = b + 1 + n
          /\ \A i \in 1..(b + j) : r[i] = l[i]
          /\ \A i \in (b + j + 1)..(b + 1 + n) : r[i] = es[i - b - 1]
        BY <1>4 DEF CutsAt
    <2>1. Same(l, F, b + j)
        <3>1. CASE j = 1
            BY <3>1
        <3>2. CASE j # 1
            <4>1. PICK i \in Nat : i = j - 1 /\ i \in 1..(j - 1) /\ i \in 1..n /\ b + i + 1 = b + j
                BY <3>2
            <4> QED
                BY <1>2, <2>7, <4>1
        <3> QED
            BY <3>1, <3>2
    <2>2. r \in Logs
        <3>1. r # <<>>
            BY <2>7
        <3> QED
            BY <2>7, <3>1 DEF Logs
    <2>3. ASSUME NEW i \in 1..(b + n + 1) PROVE r[i] = F[i]
        <3>1. CASE i <= b + j
            <4>1. i \in 1..(b + j)
                BY <3>1
            <4> QED
                BY <2>7, <2>1, <4>1 DEF Same
        <3>2. CASE i > b + j
            <4>1. i \in (b + j + 1)..(b + 1 + n)
                BY <3>2
            <4>2. PICK x \in 1..n : x = i - b - 1
                BY <2>7, <3>2
            <4>3. b + 1 + x = i
                BY <4>2
            <4>5. r[i] = es[i - b - 1]
                BY <2>7, <4>1, Zenon
            <4>6. es[x] = F[b + 1 + x]
                BY Zenon
            <4>4. r[i] = es[x] /\ es[x] = F[b + 1 + x]
                BY <4>2, <4>5, <4>6
            <4> QED
                BY <4>3, <4>4
        <3> QED
            BY <3>1, <3>2
    <2>4. Same(r, F, b + n + 1)
        <3>1. b + n + 1 <= Len(r) /\ b + n + 1 <= Len(F)
            BY <1>1, <2>7
        <3> QED
            BY <2>3, <3>1 DEF Same
    <2>5. Follows(W, L, r, T)
        <3>1. Len(r) = b + n + 1
            BY <2>7
        <3>2. Same(r, F, Len(r))
            BY <2>4, <3>1
        <3> QED
            BY <2>2, <3>2, FollowsShorter
    <2>6. ASSUME NEW i \in Nat, Same(l, F, i) PROVE Same(r, F, i)
        <3>1. CASE i <= b + n + 1
            BY <2>2, <2>4, <3>1, SameShorter
        <3>2. CASE i > b + n + 1
            <4>1. i <= Len(l)
                BY <2>6 DEF Same
            <4>2. b + j < Len(l) /\ b + j + 1 \in 1..i
                BY <1>1, <2>7, <3>2, <4>1
            <4>3. l[b + j + 1] = F[b + j + 1]
                BY <2>6, <4>2 DEF Same
            <4>4. b + 1 + j = b + j + 1
                OBVIOUS
            <4>6. es[j] = F[b + 1 + j]
                BY <2>7, Zenon
            <4>5. es[j] = F[b + j + 1]
                BY <4>4, <4>6
            <4> QED
                BY <2>7, <4>2, <4>3, <4>5
        <3> QED
            BY <3>1, <3>2
    <2> QED
        BY <2>2, <2>4, <2>5, <2>6
<1>5. \/ r = l /\ HasAll(l, b, es)
      \/ \E j \in 1..Len(es) : CutsAt(l, b, es, r, j)
    BY <1>1, MergeShape
<1> QED
    BY <1>3, <1>4, <1>5

\* A log that is the same as a settled one up to c is settled up to there.
LEMMA SettledSame ==
    ASSUME NEW W, NEW L \in [Nat -> Logs], NEW M, NEW l \in Logs, NEW g \in Logs, NEW t \in Nat,
           NEW c \in Nat, Settled(W, L, M, l, t, c), Same(g, l, c + 1)
    PROVE  Settled(W, L, M, g, t, c)
<1>1. CASE c = 0
    BY <1>1 DEF Settled
<1>2. CASE c # 0
    <2>1. PICK T \in Nat, k \in Nat :
            T <= t /\ c <= k /\ Committed(W, L, M, T, k) /\ Same(l, L[T], c + 1)
        BY <1>2 DEF Settled
    <2>2. L[T] \in Logs /\ c + 1 \in Nat
        OBVIOUS
    <2>3. Same(g, L[T], c + 1)
        BY <2>1, <2>2, SameTrans
    <2> QED
        BY <2>1, <2>3 DEF Settled
<1> QED
    BY <1>1, <1>2

\* raft.go:310 and 337: the test of the entry before the new ones makes the logs agree there.
LEMMA PrevSame ==
    ASSUME NEW W, NEW L \in [Nat -> Logs], NEW l \in Logs, NEW F \in Logs,
           NEW t \in Nat, NEW T \in Nat, Follows(W, L, l, t), Follows(W, L, F, T),
           NEW m, NEW b \in Nat, b = m.prevLogIndex, b < Len(F),
           m.prevLogTerm = F[b + 1].term \/ (b = 0 /\ m.entries # <<>>), PrevMatches(m, l)
    PROVE  Same(l, F, b + 1)
<1>1. Len(l) \in Nat /\ Len(F) \in Nat /\ Len(l) >= 1
    BY LogLength
<1>2. CASE b = 0
    <2>1. l[1] = Dummy /\ F[1] = Dummy
        BY DEF Follows
    <2> QED
        BY <1>1, <1>2, <2>1 DEF Same
<1>3. CASE b # 0
    <2>5. m.prevLogIndex # 0
        BY <1>3
    <2>6. m.prevLogIndex <= LastIndex(l) /\ At(l, m.prevLogIndex).term = m.prevLogTerm
        BY <2>5, Zenon DEF PrevMatches
    <2>1. b <= LastIndex(l) /\ At(l, b).term = m.prevLogTerm
        BY <2>6, Zenon
    <2>2. b < Len(l) /\ b >= 1 /\ l[b + 1].term = F[b + 1].term
        BY <1>1, <1>3, <2>1, SMTT(30) DEF LastIndex, At
    <2>3. PICK u \in Nat : u = l[b + 1].term
        <3>1. b + 1 \in 1..Len(l)
            BY <1>1, <2>2, SMTT(30)
        <3> QED
            BY <3>1, LogLength
    <2>4. Has(l, u, b) /\ Has(F, u, b)
        BY <2>2, <2>3 DEF Has
    <2> QED
        BY <2>2, <2>4, LogsMatch
<1> QED
    BY <1>2, <1>3

\* The peer p follows the leader of term T (it was not in a later one).
LEMMA FollowerMoves ==
    ASSUME TypeOK, TypeOK', Elect, NEW W, NEW V, NEW L, NEW M, History(W, V, L, M),
           NEW p \in Server, NEW T \in Nat, W[T] # p, UNCHANGED tally,
           currentTerm' = [currentTerm EXCEPT ![p] = T],
           state' = [state EXCEPT ![p] = Follower],
           \A m \in rpcs' : m.kind = "vote" => m \in rpcs
    PROVE  /\ currentTerm'[p] = T /\ state'[p] = Follower
           /\ \A x \in Server : x # p => currentTerm'[x] = currentTerm[x] /\ state'[x] = state[x]
           /\ \A x \in Server : OldLeader(x)
           /\ LeadersStay /\ OldVotes
<1>1. currentTerm'[p] = T /\ \A x \in Server : x # p => currentTerm'[x] = currentTerm[x]
    BY DEF TypeOK
<1>2. state'[p] = Follower /\ \A x \in Server : x # p => state'[x] = state[x]
    BY DEF TypeOK
<1>3. \A x \in Server : OldLeader(x)
    BY <1>1, <1>2 DEF OldLeader
<1>4. LeadersStay
    <2>1. state[p] = Leader => currentTerm[p] # T
        BY DEF History, LeaderLogs
    <2> QED
        BY <1>1, <1>2, <2>1 DEF LeadersStay
<1>5. OldVotes
    <2>1. \A c \in Server : \A u \in Nat : Cand(c, u)' => Cand(c, u)
        BY <1>1, <1>2 DEF Cand
    <2> QED
        BY <2>1, NoVotes
<1> QED
    BY <1>1, <1>2, <1>3, <1>4, <1>5

\* The leader of term T offers p the n entries es after index b, and says that c is committed.
Offers(W, L, M, p, T, b, es, n, c) ==
    /\ W[T] # Nil /\ W[T] # p /\ currentTerm[p] <= T
    /\ n = Len(es) /\ b + n < Len(L[T])
    /\ \A j \in 1..n : es[j] = L[T][b + 1 + j]
    /\ Same(log[p], L[T], b + 1)
    /\ c <= b + n /\ Settled(W, L, M, L[T], T, c)

\* p takes them over; its commitIndex becomes d.
Takes(p, T, b, es, c, new, d) ==
    /\ new = Merge(log[p], b, es) /\ log' = [log EXCEPT ![p] = new]
    /\ commitIndex' = [commitIndex EXCEPT ![p] = d]
    /\ \/ d = commitIndex[p] /\ new = log[p]
       \/ d = MinOf(c, LastIndex(new))
    /\ currentTerm' = [currentTerm EXCEPT ![p] = T]
    /\ state' = [state EXCEPT ![p] = Follower]
    /\ UNCHANGED <<tally, matchIndex, logs>>

\* r is its answer to the leader f.
Answers(r, f, p, T, b, n) ==
    /\ r.kind = "append" /\ r.done /\ r.from = f /\ r.to = p /\ r.term = T
    /\ r.prevLogIndex = b /\ r.count = n
    /\ rpcs' \subseteq rpcs \cup {r}

\* A follower takes the entries over and acknowledges the leader's log up to the last.
LEMMA SafeAccepts ==
    ASSUME TypeOK, TypeOK', Elect, Step, NEW W, NEW V, NEW L, NEW M, History(W, V, L, M),
           NEW p \in Server, NEW T \in Nat, NEW b \in Nat, NEW es \in Seq(Entry), NEW n \in Nat,
           NEW c \in Nat, NEW new, NEW d, NEW r, Offers(W, L, M, p, T, b, es, n, c),
           Takes(p, T, b, es, c, new, d), Answers(r, W[T], p, T, b, n)
    PROVE  \E M2 : Advance(W, V, L, M, W, V, L, M2)
<1>1. Histories(W, V, L, M)
    BY DEF History
<1>2. /\ W \in [Nat -> Server \cup {Nil}] /\ V \in [Nat -> SUBSET Server]
      /\ L \in [Nat -> Logs] /\ M \in [Server -> [Nat -> Nat]]
    BY <1>1 DEF Histories
<1>3. PICK l \in Logs : l = log[p]
    BY DEF TypeOK, Logs
<1>4. PICK F \in Logs : F = L[T]
    BY <1>2
<1>5. PICK t \in Nat : t = currentTerm[p] /\ t <= T
    BY DEF TypeOK, Offers
<1>6. Follows(W, L, l, t) /\ Follows(W, L, F, T) /\ W[T] # Nil
    BY <1>3, <1>4, <1>5 DEF History, LogsFollow, Offers
<1>7. /\ new \in Logs /\ Same(new, F, b + n + 1) /\ Follows(W, L, new, T)
      /\ \A i \in Nat : Same(l, F, i) => Same(new, F, i)
    <2>1. /\ n = Len(es) /\ b + n < Len(F) /\ (\A j \in 1..n : es[j] = F[b + 1 + j])
          /\ Same(l, F, b + 1)
        BY <1>3, <1>4, Zenon DEF Offers
    <2>2. new = Merge(l, b, es)
        BY <1>3 DEF Takes
    <2> QED
        BY <1>2, <1>5, <1>6, <2>1, <2>2, MergeFollows
<1>8. /\ currentTerm'[p] = T /\ state'[p] = Follower
      /\ \A x \in Server : x # p => currentTerm'[x] = currentTerm[x] /\ state'[x] = state[x]
      /\ \A x \in Server : OldLeader(x)
      /\ LeadersStay /\ OldVotes
    <2>1. W[T] # p /\ UNCHANGED tally
        BY DEF Offers, Takes
    <2>2. currentTerm' = [currentTerm EXCEPT ![p] = T] /\ state' = [state EXCEPT ![p] = Follower]
        BY DEF Takes
    <2>3. \A m \in rpcs' : m.kind = "vote" => m \in rpcs
        BY DEF Answers
    <2> QED
        BY <2>1, <2>2, <2>3, FollowerMoves
<1>9. log'[p] = new /\ \A x \in Server : x # p => log'[x] = log[x]
    BY DEF TypeOK, Takes
<1>10. PICK a \in Nat : a = M[p][T]
    BY <1>2
<1>11. PICK v \in Nat : v = IF a <= b + n THEN b + n ELSE a
    OBVIOUS
<1>12. PICK M2 : Acks(M, M2, p, T, v)
    BY <1>2, AckExists
<1>13. /\ M2 \in [Server -> [Nat -> Nat]]
       /\ M2[p][T] = v
       /\ \A q \in Server : \A u \in Nat : q # p \/ u # T => M2[q][u] = M[q][u]
    BY <1>12 DEF Acks
<1>14. Histories(W, V, L, M2)
    BY <1>2, <1>13 DEF Histories
<1>15. a < Len(F) /\ v < Len(F) /\ Len(F) \in Nat
    <2>1. a < Len(F)
        BY <1>4, <1>6, <1>10 DEF History, AcksBounded
    <2>2. Len(F) \in Nat /\ b + n < Len(F)
        BY <1>4, LogLength DEF Offers
    <2> QED
        BY <1>11, <2>1, <2>2
<1>16. Extends(W, L, M, W, L, M2)
    <2>1. \A u \in Nat : Grown(L[u], L[u], u)
        BY <1>2, GrownRefl
    <2>2. ASSUME NEW q \in Server, NEW u \in Nat PROVE M[q][u] <= M2[q][u]
        <3>1. M[q][u] \in Nat
            BY <1>2
        <3>2. CASE q = p /\ u = T
            <4>1. a <= v
                BY <1>11
            <4> QED
                BY <1>10, <1>13, <3>2, <4>1
        <3>3. CASE ~(q = p /\ u = T)
            <4>1. M2[q][u] = M[q][u]
                BY <1>13, <3>3
            <4> QED
                BY <3>1, <4>1
        <3> QED
            BY <3>2, <3>3
    <2> QED
        BY <2>1, <2>2 DEF Extends
<1>17. NewTerms(W, W, V, L, M2) /\ NewApplied(W, L, M2)
    BY DEF NewTerms, NewApplied, Takes
<1>18. NewLogs(W, L, W, L)
    BY <1>7, <1>8, <1>9 DEF NewLogs
<1>19. CandidatesKeep
    BY <1>8, <1>9 DEF CandidatesKeep, Cand
<1>20. KeepsAcks(W, L, M, W, L)
    <2> SUFFICES ASSUME NEW q \in Server, NEW u \in Nat, NEW k \in Nat,
                        Acked(W, L, M, q, u, k), Has(log[q], u, k)
                 PROVE  Has(log'[q], u, k) \/ Lost(W, L, u, k, currentTerm'[q])
        BY DEF KeepsAcks
    <2>1. CASE q # p
        BY <1>9, <2>1
    <2>2. CASE q = p
        <3>1. 1 <= k /\ Has(L[u], u, k) /\ Has(l, u, k)
            BY <1>3, <2>2 DEF Acked
        <3>2. CASE Has(F, u, k)
            <4>1. Same(l, F, k + 1)
                BY <1>2, <1>6, <3>1, <3>2, LogsMatch
            <4>2. Same(new, F, k + 1) /\ k < k + 1 /\ k + 1 \in Nat
                BY <1>7, <4>1
            <4>3. Has(new, u, k)
                BY <1>7, <3>2, <4>2, HasSame
            <4> QED
                BY <1>9, <2>2, <4>3
        <3>3. CASE ~Has(F, u, k)
            <4>1. u # T
                BY <1>4, <3>1, <3>3
            <4>2. Len(l) \in Nat
                BY LogLength
            <4>3. k + 1 \in 2..Len(l) /\ l[k + 1].term = u
                BY <3>1, <4>2 DEF Has
            <4>4. u <= t
                BY <1>6, <4>3 DEF Follows
            <4>5. u < T
                BY <1>5, <4>1, <4>4
            <4>6. Lost(W, L, u, k, T)
                BY <1>4, <1>6, <3>3, <4>5 DEF Lost
            <4> QED
                BY <1>8, <2>2, <4>6
        <3> QED
            BY <3>2, <3>3
    <2> QED
        BY <2>1, <2>2
<1>21. NewAcks(W, L, M, W, L, M2)
    <2> SUFFICES ASSUME NEW q \in Server, NEW u \in Nat, NEW k \in Nat,
                        Acked(W, L, M2, q, u, k), ~Acked(W, L, M, q, u, k)
                 PROVE  currentTerm[q] <= u /\ Has(log'[q], u, k)
        BY DEF NewAcks
    <2>1. 1 <= k /\ k <= M2[q][u] /\ ~(k <= M[q][u]) /\ Has(L[u], u, k)
        BY DEF Acked
    <2>2. q = p /\ u = T
        BY <1>13, <2>1
    <2>3. k <= v /\ ~(k <= a) /\ Has(F, T, k)
        BY <1>4, <1>10, <1>13, <2>1, <2>2
    <2>4. k < b + n + 1 /\ b + n + 1 \in Nat
        BY <1>11, <2>3
    <2>5. Has(new, T, k)
        BY <1>7, <2>3, <2>4, HasSame
    <2> QED
        BY <1>5, <1>9, <2>2, <2>5
<1>22. NewMessages(W, L, M2)
    <2>1. GoodAnswer(W, M2, r)
        <3>2. b + n <= v
            BY <1>11
        <3>1. b + n <= M2[p][T]
            BY <1>13, <3>2
        <3> QED
            BY <3>1 DEF GoodAnswer, Answers
    <2> QED
        BY <2>1 DEF NewMessages, Answers
<1>23. NewVotesCover(W, L, M2)
    BY <1>8, OldVotesCover
<1>24. NewCommits(W, L, M2)
    <2>1. commitIndex'[p] = d /\ \A x \in Server : x # p => commitIndex'[x] = commitIndex[x]
        BY DEF TypeOK, Takes
    <2>2. CASE d = commitIndex[p] /\ new = log[p]
        BY <1>9, <2>1, <2>2 DEF NewCommits
    <2>3. CASE d = MinOf(c, LastIndex(new))
        <3>1. PICK z \in Nat : z = Len(new) /\ b + n + 1 <= z
            BY <1>7, LogLength DEF Same
        <3>2. d = c
            <4>1. c <= z - 1
                BY <3>1 DEF Offers
            <4> QED
                BY <2>3, <3>1, <4>1 DEF MinOf, LastIndex
        <3>3. T <= T
            OBVIOUS
        <3>4. Settled(W, L, M2, F, T, c)
            <4>1. Settled(W, L, M, F, T, c)
                BY <1>4 DEF Offers
            <4> QED
                BY <1>1, <1>14, <1>16, <3>3, <4>1, SettledExtends
        <3>5. c + 1 <= b + n + 1 /\ c + 1 \in Nat /\ b + n + 1 \in Nat
            BY DEF Offers
        <3>6. Same(new, F, c + 1)
            BY <1>7, <3>5, SameShorter
        <3>7. Settled(W, L, M2, new, T, c)
            BY <1>2, <1>7, <3>4, <3>6, SettledSame
        <3> QED
            BY <1>8, <1>9, <2>1, <3>2, <3>7 DEF NewCommits
    <2> QED
        BY <2>2, <2>3 DEF Takes
<1>25. ASSUME NEW x \in Server, state'[x] = Leader
       PROVE  x # p /\ state[x] = Leader /\ currentTerm'[x] = currentTerm[x] /\ log'[x] = log[x]
    BY <1>8, <1>9, <1>25
<1>26. LeaderLogs(W, L, M2)'
    <2> SUFFICES ASSUME NEW x \in Server, state'[x] = Leader
                 PROVE  /\ W[currentTerm'[x]] = x
                        /\ L[currentTerm'[x]] = log'[x]
                        /\ M2[x][currentTerm'[x]] = LastIndex(log'[x])
        BY DEF LeaderLogs
    <2>1. PICK u \in Nat : u = currentTerm[x]
        BY DEF TypeOK
    <2>2. W[u] = x /\ L[u] = log[x] /\ M[x][u] = LastIndex(log[x])
        BY <1>25, <2>1 DEF History, LeaderLogs
    <2>3. M2[x][u] = M[x][u]
        BY <1>13, <1>25
    <2> QED
        BY <1>25, <2>1, <2>2, <2>3
<1>27. AcksBounded(W, L, M2)'
    <2> SUFFICES ASSUME NEW q \in Server, NEW u \in Nat
                 PROVE  /\ W[u] = Nil => M2[q][u] = 0
                        /\ W[u] # Nil => M2[q][u] < Len(L[u])
                        /\ M2[q][u] >= 1 => currentTerm'[q] >= u
        BY DEF AcksBounded
    <2>1. /\ W[u] = Nil => M[q][u] = 0
          /\ W[u] # Nil => M[q][u] < Len(L[u])
          /\ M[q][u] >= 1 => currentTerm[q] >= u
        BY DEF History, AcksBounded
    <2>2. CASE q = p /\ u = T
        <3>1. M2[q][u] = v /\ L[u] = F /\ W[u] # Nil /\ currentTerm'[q] = u
            BY <1>4, <1>6, <1>8, <1>13, <2>2
        <3> QED
            BY <1>15, <3>1
    <2>3. CASE ~(q = p /\ u = T)
        <3>1. M2[q][u] = M[q][u]
            BY <1>13, <2>3
        <3>2. currentTerm[q] \in Nat /\ currentTerm'[q] \in Nat /\ currentTerm'[q] >= currentTerm[q]
            BY DEF TypeOK, Step, TermsGrow
        <3> QED
            BY <2>1, <3>1, <3>2, SMTT(30)
    <2> QED
        BY <2>2, <2>3
<1>28. MatchesAcked(M2)'
    <2> SUFFICES ASSUME NEW x \in Server, NEW q \in Server, state'[x] = Leader, q # x
                 PROVE  Matches(log'[x], currentTerm'[x], matchIndex'[x][q], M2[q][currentTerm'[x]])
        BY DEF MatchesAcked
    <2>10. UNCHANGED matchIndex
        BY DEF Takes
    <2>1. PICK u \in Nat : u = currentTerm[x]
        BY DEF TypeOK
    <2>2. PICK k \in Nat : k = matchIndex[x][q]
        <3>1. matchIndex \in [Server -> [Server -> Nat]]
            BY DEF TypeOK
        <3> QED
            BY <3>1
    <2>3. Matches(log[x], u, k, M[q][u])
        BY <1>25, <2>1, <2>2 DEF History, MatchesAcked
    <2>6. M[q][u] \in Nat
        BY <1>2
    <2>7. M2 \in [Server -> [Nat -> Nat]]
        BY <1>13
    <2>4. M[q][u] \in Nat /\ M2[q][u] \in Nat
        BY <2>6, <2>7
    <2>5. M[q][u] <= M2[q][u]
        BY <1>16 DEF Extends
    <2>8. log[x] \in Logs /\ Same(log[x], log[x], Len(log[x]))
        <3>1. log[x] \in Logs
            BY DEF TypeOK, Logs
        <3>2. Len(log[x]) \in Nat
            BY <3>1, LogLength
        <3> QED
            BY <3>1, <3>2 DEF Same
    <2>9. Matches(log[x], u, k, M2[q][u])
        BY <2>3, <2>4, <2>5, <2>8, MatchesGrow
    <2> QED
        BY <1>25, <2>1, <2>2, <2>9, <2>10
<1>29. \A u \in Nat : W[u] # Nil => V[u] = V[u]
    OBVIOUS
<1> QED
    BY <1>8, <1>14, <1>16, <1>17, <1>18, <1>19, <1>20, <1>21, <1>22, <1>23, <1>24, <1>26, <1>27, <1>28, <1>29
       DEF Advance

LEMMA SafeAppendHandler ==
    ASSUME TypeOK, TypeOK', Elect, Step, NEW W, NEW V, NEW L, NEW M, History(W, V, L, M),
           NEW m \in rpcs, RequestAppendEntriesReply(m)
    PROVE  \E M2 : Advance(W, V, L, M, W, V, L, M2)
<1>1. PICK p \in Server : p = m.to
    BY MessageKinds DEF TypeOK
<1>2. PICK f \in Server : f = m.from /\ f # p
    BY <1>1, MessageKinds DEF TypeOK, Elect, Honest
<1>3. PICK T \in Nat : T = m.term
    BY MessageKinds DEF TypeOK
<1> DEFINE old == T < currentTerm[p]
           ok  == ~old /\ PrevMatches(m, log[p])
           new == IF ok THEN Merge(log[p], m.prevLogIndex, m.entries) ELSE log[p]
<1>4. /\ m.kind = "append" /\ ~m.done
      /\ IF old THEN UNCHANGED peerVars
         ELSE /\ currentTerm' = [currentTerm EXCEPT ![p] = T]
              /\ state' = [state EXCEPT ![p] = Follower]
      /\ log' = [log EXCEPT ![p] = new]
      /\ commitIndex' = [commitIndex EXCEPT ![p] = CommitAfter(m, ok, new, @)]
      /\ rpcs' = (rpcs \ {m}) \cup Answer(m, AppendReply(m, currentTerm'[p], ok))
      /\ UNCHANGED <<tally, matchIndex, logs>>
    BY <1>1, <1>2, <1>3, Zenon DEF RequestAppendEntriesReply, leaderVars, testVars
<1>5. m \in AppendCall
    BY <1>4, MessageKinds DEF TypeOK
<1>6. PICK b \in Nat : b = m.prevLogIndex
    BY <1>5 DEF AppendCall
<1>7. PICK es \in Seq(Entry) : es = m.entries
    BY <1>5 DEF AppendCall
<1>8. PICK n \in Nat : n = Len(es)
    OBVIOUS
<1>9. PICK c \in Nat : c = m.leaderCommit
    BY <1>5 DEF AppendCall
<1>10. PICK r : r = AppendReply(m, currentTerm'[p], ok)
    OBVIOUS
<1>11. /\ r.kind = "append" /\ r.done /\ r.from = f /\ r.to = p /\ r.term = T
       /\ r.prevLogIndex = b /\ r.count = n /\ r.success = ok
    BY <1>1, <1>2, <1>3, <1>6, <1>7, <1>8, <1>10 DEF AppendReply
<1>12. rpcs' \subseteq rpcs \cup {r}
    BY <1>4, <1>10 DEF Answer
<1>13. /\ W[T] = f /\ f # Nil
       /\ b + n < Len(L[T])
       /\ \A j \in 1..n : es[j] = L[T][b + 1 + j]
       /\ m.prevLogTerm = L[T][b + 1].term \/ (b = 0 /\ m.entries # <<>>)
       /\ c <= b + n
       /\ Settled(W, L, M, L[T], T, c)
    <2>1. GoodCall(W, L, M, m)
        BY <1>4 DEF History, Messages
    <2>2. f # Nil
        BY ServerAssumption
    <2> QED
        BY <1>2, <1>3, <1>6, <1>7, <1>8, <1>9, <2>1, <2>2 DEF GoodCall
<1>14. commitIndex[p] \in Nat /\ currentTerm[p] \in Nat
    BY DEF TypeOK
<1>15. PICK d : d = CommitAfter(m, ok, new, commitIndex[p])
    OBVIOUS
<1>16. commitIndex' = [commitIndex EXCEPT ![p] = d]
    BY <1>4, <1>15
<1>17. CASE ~ok
    <2>1. new = log[p] /\ d = commitIndex[p]
        BY <1>15, <1>17 DEF CommitAfter
    <2> HIDE DEF ok, new
    <2>2. UNCHANGED <<log, commitIndex>>
        BY <1>4, <1>16, <2>1 DEF TypeOK
    <2>3. NewMessages(W, L, M)
        <3>1. GoodAnswer(W, M, r)
            BY <1>11, <1>13, <1>17 DEF GoodAnswer
        <3> QED
            BY <1>11, <1>12, <3>1 DEF NewMessages
    <2>4. (\A x \in Server : OldLeader(x)) /\ LeadersStay /\ OldVotes
        <3>1. CASE old
            <4>1. UNCHANGED <<currentTerm, state>>
                BY <1>4, <3>1 DEF peerVars
            <4>2. \A x \in Server : \A u \in Nat : Cand(x, u)' => Cand(x, u)
                BY <4>1 DEF Cand
            <4>3. OldVotes
                BY <1>4, <1>11, <1>12, <4>2, NoVotes
            <4> QED
                BY <4>1, <4>3 DEF OldLeader, LeadersStay
        <3>2. CASE ~old
            <4>1. currentTerm' = [currentTerm EXCEPT ![p] = T] /\ state' = [state EXCEPT ![p] = Follower]
                BY <1>4, <3>2
            <4>2. W[T] # p /\ UNCHANGED tally /\ \A x \in rpcs' : x.kind = "vote" => x \in rpcs
                BY <1>2, <1>4, <1>11, <1>12, <1>13
            <4> QED
                BY <4>1, <4>2, FollowerMoves
        <3> QED
            BY <3>1, <3>2
    <2>5. Advance(W, V, L, M, W, V, L, M)
        BY <1>4, <2>2, <2>3, <2>4, OldVotesCover, Quiet
    <2> QED
        BY <2>5
<1>18. CASE ok
    <2>1. ~old /\ PrevMatches(m, log[p]) /\ new = Merge(log[p], b, es)
        BY <1>6, <1>7, <1>18
    <2>2. \/ d = commitIndex[p] /\ es = <<>>
          \/ d = MinOf(c, LastIndex(new))
        BY <1>7, <1>9, <1>15, <1>18, Zenon DEF CommitAfter
    <2> HIDE DEF ok, new
    <2>3. currentTerm[p] <= T
        BY <1>14, <2>1
    <2>4. PICK l \in Logs : l = log[p]
        BY DEF TypeOK, Logs
    <2>5. PICK t \in Nat : t = currentTerm[p]
        BY <1>14
    <2>6. L \in [Nat -> Logs] /\ Follows(W, L, l, t) /\ Follows(W, L, L[T], T)
        BY <1>13, <2>4, <2>5 DEF History, Histories, LogsFollow
    <2>7. PICK F \in Logs : F = L[T] /\ b < Len(F)
        <3>1. L[T] \in Logs /\ Len(L[T]) \in Nat
            BY <2>6, LogLength
        <3> QED
            BY <1>13, <3>1
    <2>8. Same(log[p], L[T], b + 1)
        <3>1. Same(l, F, b + 1)
            BY <1>6, <1>13, <2>1, <2>4, <2>6, <2>7, PrevSame
        <3> QED
            BY <2>4, <2>7, <3>1
    <2>9. Offers(W, L, M, p, T, b, es, n, c)
        BY <1>2, <1>8, <1>13, <2>3, <2>8 DEF Offers
    <2>10. es = <<>> => new = log[p]
        BY <2>1 DEF Merge
    <2>11. PICK g : g = new
        OBVIOUS
    <2>12. Takes(p, T, b, es, c, g, d)
        <3>1. log' = [log EXCEPT ![p] = g] /\ g = Merge(log[p], b, es)
            BY <1>4, <2>1, <2>11
        <3>2. (d = commitIndex[p] /\ g = log[p]) \/ d = MinOf(c, LastIndex(g))
            BY <2>2, <2>10, <2>11
        <3> QED
            BY <1>4, <1>16, <2>1, <3>1, <3>2 DEF Takes
    <2>13. Answers(r, W[T], p, T, b, n)
        BY <1>11, <1>12, <1>13 DEF Answers
    <2> QED
        BY <2>9, <2>12, <2>13, SafeAccepts
<1> QED
    BY <1>17, <1>18

----------------------------------------------------------------------------
(* The invariant holds.                                                    *)

Explained == \E W, V, L, M : History(W, V, L, M)

LEMMA SafetyInit == Init => Explained
<1> SUFFICES ASSUME Init PROVE Explained
    OBVIOUS
<1>1. PICK W : W = [T \in Nat |-> Nil]
    OBVIOUS
<1>2. PICK V : V = [T \in Nat |-> {}]
    OBVIOUS
<1>3. PICK L : L = [T \in Nat |-> FreshLog]
    OBVIOUS
<1>4. PICK M : M = [q \in Server |-> [T \in Nat |-> 0]]
    OBVIOUS
<1>5. FreshLog \in Logs /\ Len(FreshLog) = 1 /\ FreshLog[1] = Dummy
    <2>1. Dummy \in Entry
        BY DEF Dummy, Entry
    <2> QED
        BY <2>1 DEF FreshLog, Logs
<1>6. \A T \in Nat : W[T] = Nil
    BY <1>1
<1>7. \A q \in Server : \A T \in Nat : M[q][T] = 0
    BY <1>4
<1>8. Histories(W, V, L, M)
    <2>1. W \in [Nat -> Server \cup {Nil}] /\ V \in [Nat -> SUBSET Server]
        BY <1>1, <1>2
    <2>2. L \in [Nat -> Logs]
        BY <1>3, <1>5
    <2>3. M \in [Server -> [Nat -> Nat]]
        BY <1>4
    <2> QED
        BY <2>1, <2>2, <2>3 DEF Histories
<1>9. /\ rpcs = {}
      /\ \A s \in Server : /\ state[s] = Follower /\ log[s] = FreshLog
                           /\ commitIndex[s] = 0 /\ logs[s] = <<>>
    BY DEF Init
<1>10. LeaderLogs(W, L, M) /\ MatchesAcked(M) /\ Messages(W, L, M)
    BY <1>9 DEF LeaderLogs, MatchesAcked, Messages
<1>11. Reigns(W) /\ Chosen(W, V) /\ QuorumsCover(W, V, L, M)
    BY <1>6 DEF Reigns, Chosen, QuorumsCover
<1>12. LogsFollow(W, L)
    <2>1. \A t : Follows(W, L, FreshLog, t)
        BY <1>5 DEF Follows
    <2> QED
        BY <1>6, <1>9, <2>1 DEF LogsFollow
<1>13. VotesCover(W, L, M) /\ AcksKept(W, L, M)
    BY <1>6 DEF VotesCover, AcksKept, Covers, Acked
<1>14. AcksBounded(W, L, M)
    BY <1>6, <1>7 DEF AcksBounded
<1>15. CommitsSettled(W, L, M)
    BY <1>9 DEF CommitsSettled, Settled
<1>16. AppliedDecreed(W, L, M)
    BY <1>9 DEF AppliedDecreed
<1>17. History(W, V, L, M)
    BY <1>8, <1>10, <1>11, <1>12, <1>13, <1>14, <1>15, <1>16 DEF History
<1> QED
    BY <1>17 DEF Explained

LEMMA SafetyNext ==
    ASSUME Sound, Elect, Index, Undisturbed, NextIndexPositive, MatchInLog, Explained,
           [Next]_vars
    PROVE  Explained'
<1> USE DEF Undisturbed
<1>1. TypeOK /\ CommitInLog /\ TypeOK' /\ Step
    BY SoundNext, NextIsStep DEF Sound
<1>2. PICK W, V, L, M : History(W, V, L, M)
    BY DEF Explained
<1>3. ASSUME NEW W2, NEW V2, NEW L2, NEW M2, Advance(W, V, L, M, W2, V2, L2, M2)
      PROVE  Explained'
    <2>1. History(W2, V2, L2, M2)'
        BY <1>1, <1>2, <1>3, AdvanceKeeps
    <2> QED
        BY <2>1 DEF Explained
<1>4. CASE UNCHANGED vars
    <2>1. Advance(W, V, L, M, W, V, L, M)
        BY <1>1, <1>2, <1>4, SafeIdle DEF vars, peerVars, logVars, leaderVars, testVars
    <2> QED
        BY <1>3, <2>1
<1>5. ASSUME NEW s \in Server, startElection(s) PROVE Explained'
    BY <1>1, <1>2, <1>3, <1>5, SafeElection
<1>6. ASSUME NEW s \in Server, NEW r \in electing[s], RequestVote(s, r) PROVE Explained'
    BY <1>1, <1>2, <1>3, <1>6, SafeRequestVote
<1>7. ASSUME NEW s \in Server, NEW p \in Server, RequestHeartBeat(s, p) PROVE Explained'
    BY <1>1, <1>2, <1>3, <1>7, SafeHeartBeat
<1>8. ASSUME NEW s \in Server, NEW c \in Command, Start(s, c) PROVE Explained'
    BY <1>1, <1>2, <1>3, <1>8, SafeStart
<1>9. ASSUME NEW s \in Server, applier(s) PROVE Explained'
    BY <1>1, <1>2, <1>3, <1>9, SafeApplier
<1>10. ASSUME NEW s \in Server, start1(s) PROVE FALSE
    <2>1. restarts \in Nat
        BY <1>1 DEF TypeOK
    <2>2. restarts < MaxRestart
        BY <1>10, Zenon DEF start1
    <2> QED
        BY <2>1, <2>2
<1>11. ASSUME NEW m \in rpcs, RequestVoteReply(m) PROVE Explained'
    BY <1>1, <1>2, <1>3, <1>11, SafeVoteHandler
<1>12. ASSUME NEW m \in rpcs, VoteAnswered(m) PROVE Explained'
    BY <1>1, <1>2, <1>3, <1>12, SafeVoteAnswered
<1>13. ASSUME NEW m \in rpcs, RequestAppendEntriesReply(m) PROVE Explained'
    BY <1>1, <1>2, <1>3, <1>13, SafeAppendHandler
<1>14. ASSUME NEW m \in rpcs, AppendAnswered(m) PROVE Explained'
    BY <1>1, <1>2, <1>3, <1>14, SafeAppendAnswered
<1>15. ASSUME NEW m \in rpcs, Lose(m) PROVE Explained'
    <2>1. /\ UNCHANGED <<currentTerm, state, tally, log, matchIndex, commitIndex, logs>>
          /\ rpcs' \subseteq rpcs
        BY <1>15 DEF Lose, peerVars, logVars, leaderVars, testVars
    <2> QED
        BY <1>1, <1>2, <1>3, <2>1, SafeIdle
<1>16. CASE Next
    BY <1>5, <1>6, <1>7, <1>8, <1>9, <1>10, <1>11, <1>12, <1>13, <1>14, <1>15, <1>16 DEF Next
<1> QED
    BY <1>4, <1>16

LEMMA SafetyInvariant ==
    Undisturbed /\ Spec /\ []NextIndexPositive /\ []MatchInLog => [](TypeOK /\ Explained)
<1>1. Init => Explained
    BY SafetyInit
<1>2. /\ Election /\ Index /\ NextIndexPositive /\ MatchInLog /\ Explained
      /\ [Next]_vars
      => Explained'
    BY SafetyNext DEF Election
<1>3. Election => TypeOK
    BY DEF Election, Sound
<1> QED
    BY <1>1, <1>2, <1>3, IndexInvariant, PTL DEF Spec

----------------------------------------------------------------------------
(* What the invariant says of committed entries.                           *)

\* Every later leader has a committed entry.  The first one that lacked it was elected by
\* a quorum with a peer that had acknowledged the entry and would not have voted for it.
LEMMA CommittedStays ==
    ASSUME TypeOK, NEW W, NEW V, NEW L, NEW M, History(W, V, L, M),
           NEW T \in Nat, NEW k \in Nat, Committed(W, L, M, T, k),
           NEW u \in Nat, T < u, W[u] # Nil
    PROVE  Has(L[u], T, k)
<1> SUFFICES ASSUME ~Has(L[u], T, k) PROVE FALSE
    OBVIOUS
<1> DEFINE S == {w \in Nat : Lost(W, L, T, k, w)}
<1>1. u \in S
    BY DEF Lost
<1>2. PICK w \in S : \A x \in S : w <= x
    <2>1. S \subseteq Nat /\ S # {}
        BY <1>1
    <2> HIDE DEF S
    <2>2. Min(S) \in S /\ \A x \in S : Min(S) <= x
        BY <2>1, MinInSet
    <2> QED
        BY <2>2
<1>3. w \in Nat /\ W[w] # Nil /\ T < w /\ ~Has(L[w], T, k)
    BY DEF Lost
<1>4. PICK Q \in SUBSET Server : Majority(Cardinality(Q)) /\ \A q \in Q : k <= M[q][T]
    BY DEF Committed
<1>5. Decided(V[w], w)
    BY <1>3 DEF History, Chosen
<1>6. PICK q \in Server : q \in Q /\ q \in V[w]
    BY <1>4, <1>5, QuorumsMeet DEF Decided
<1>7. Covers(W, L, M, q, L[w], w)
    BY <1>3, <1>6 DEF History, QuorumsCover
<1>8. Acked(W, L, M, q, T, k)
    BY <1>4, <1>6 DEF Acked, Committed
<1>9. PICK x \in Nat : x < w /\ Lost(W, L, T, k, x)
    BY <1>3, <1>7, <1>8 DEF Covers
<1>10. x \in S
    BY <1>9
<1>11. w <= x
    BY <1>2, <1>10
<1> QED
    BY <1>3, <1>9, <1>11

\* The log of a leader of this or a later term agrees with what is committed.
LEMMA CommittedAgrees ==
    ASSUME TypeOK, NEW W, NEW V, NEW L, NEW M, History(W, V, L, M),
           NEW T \in Nat, NEW k \in Nat, Committed(W, L, M, T, k),
           NEW u \in Nat, T <= u, W[u] # Nil
    PROVE  Same(L[T], L[u], k + 1)
<1>1. L \in [Nat -> Logs] /\ L[T] \in Logs /\ L[u] \in Logs
    BY DEF History, Histories
<1>2. W[T] # Nil /\ k >= 1 /\ Has(L[T], T, k)
    BY DEF Committed
<1>3. CASE T = u
    <2>1. Len(L[T]) \in Nat /\ k < Len(L[T])
        BY <1>1, <1>2, LogLength DEF Has
    <2> QED
        BY <1>3, <2>1 DEF Same
<1>4. CASE T # u
    <2>1. T < u
        BY <1>4
    <2>2. Has(L[u], T, k)
        BY <2>1, CommittedStays
    <2>3. Follows(W, L, L[T], T) /\ Follows(W, L, L[u], u)
        BY <1>2 DEF History, LogsFollow
    <2> QED
        BY <1>1, <1>2, <2>2, <2>3, LogsMatch
<1> QED
    BY <1>3, <1>4

LEMMA CompleteLeaders ==
    ASSUME TypeOK, Explained
    PROVE  LeaderCompleteness
<1>1. PICK W, V, L, M : History(W, V, L, M)
    BY DEF Explained
<1> SUFFICES ASSUME NEW s \in Server, NEW t \in Server,
                    state[s] = Leader, currentTerm[s] >= currentTerm[t]
             PROVE  /\ commitIndex[t] < Len(log[s])
                    /\ \A i \in 1..commitIndex[t] : At(log[s], i) = At(log[t], i)
    BY DEF LeaderCompleteness
<1>2. log[s] \in Logs /\ log[t] \in Logs /\ commitIndex[t] \in Nat
    BY DEF TypeOK, Logs
<1>3. currentTerm[s] \in Nat /\ currentTerm[t] \in Nat
    BY DEF TypeOK
<1>4. Len(log[s]) \in Nat /\ Len(log[s]) >= 1
    BY <1>2, LogLength
<1>5. W[currentTerm[s]] # Nil /\ L[currentTerm[s]] = log[s]
    BY <1>1, ServerAssumption DEF History, LeaderLogs
<1>6. Settled(W, L, M, log[t], currentTerm[t], commitIndex[t])
    BY <1>1 DEF History, CommitsSettled
<1>7. CASE commitIndex[t] = 0
    BY <1>4, <1>7
<1>8. CASE commitIndex[t] # 0
    <2>1. PICK T, k \in Nat : /\ T <= currentTerm[t] /\ commitIndex[t] <= k
                              /\ Committed(W, L, M, T, k)
                              /\ Same(log[t], L[T], commitIndex[t] + 1)
        BY <1>6, <1>8 DEF Settled
    <2>2. L[T] \in Logs
        BY <1>1 DEF History, Histories
    <2>3. T <= currentTerm[s]
        BY <1>3, <2>1
    <2>4. Same(L[T], log[s], k + 1)
        BY <1>1, <1>3, <1>5, <2>1, <2>3, CommittedAgrees
    <2>5. commitIndex[t] + 1 \in Nat /\ k + 1 \in Nat /\ commitIndex[t] + 1 <= k + 1
        BY <1>2, <2>1
    <2>6. Same(L[T], log[s], commitIndex[t] + 1)
        BY <1>2, <2>2, <2>4, <2>5, SameShorter
    <2>7. Same(log[t], log[s], commitIndex[t] + 1)
        BY <1>2, <2>1, <2>2, <2>5, <2>6, SameTrans
    <2> QED
        BY <1>2, <1>4, <2>7 DEF Same, At
<1> QED
    BY <1>7, <1>8

LEMMA DecreesAgree ==
    ASSUME TypeOK, NEW W, NEW V, NEW L, NEW M, History(W, V, L, M),
           NEW T \in Nat, NEW k \in Nat, Committed(W, L, M, T, k),
           NEW u \in Nat, NEW n \in Nat, Committed(W, L, M, u, n),
           T <= u, NEW i \in Nat, 1 <= i, i <= k
    PROVE  L[T][i + 1] = L[u][i + 1]
<1>1. W[u] # Nil
    BY DEF Committed
<1>2. Same(L[T], L[u], k + 1)
    BY <1>1, CommittedAgrees
<1>3. i + 1 \in 1..(k + 1)
    OBVIOUS
<1> QED
    BY <1>2, <1>3, Zenon DEF Same

LEMMA AgreedApplies ==
    ASSUME TypeOK, Explained
    PROVE  ApplyAgree
<1>1. PICK W, V, L, M : History(W, V, L, M)
    BY DEF Explained
<1> SUFFICES ASSUME NEW s \in Server, NEW t \in Server, NEW i \in DOMAIN logs[s] \cap DOMAIN logs[t]
             PROVE  logs[s][i] = logs[t][i]
    BY DEF ApplyAgree
<1>2. Decreed(W, L, M, i, logs[s][i]) /\ Decreed(W, L, M, i, logs[t][i])
    BY <1>1 DEF History, AppliedDecreed
<1>3. PICK T, k \in Nat : /\ Committed(W, L, M, T, k) /\ i \in Nat /\ 1 <= i /\ i <= k
                          /\ logs[s][i] = L[T][i + 1].cmd
    BY <1>2 DEF Decreed
<1>4. PICK u, n \in Nat : /\ Committed(W, L, M, u, n) /\ i <= n
                          /\ logs[t][i] = L[u][i + 1].cmd
    BY <1>2 DEF Decreed
<1>5. L[T][i + 1] = L[u][i + 1]
    <2>1. CASE T <= u
        BY <1>1, <1>3, <1>4, <2>1, DecreesAgree
    <2>2. CASE u <= T
        BY <1>1, <1>3, <1>4, <2>2, DecreesAgree
    <2> QED
        BY <2>1, <2>2
<1> QED
    BY <1>3, <1>4, <1>5

\* A leader has every entry that a peer of its own or an earlier term has committed: the
\* election rule of RequestVoteReply, the consistency check and the merge of
\* RequestAppendEntriesReply and the count of AppendAnswered keep it together.  Calls are
\* lost, late, reordered and overlap, and former leaders are elected again, with any number
\* of peers, terms and entries.  Beside restarts and preempted leaders (Undisturbed) only
\* the code's two defects are excluded: a nextIndex lowered to 0 by overlapping rejections
\* (raft.go:254-257) and a candidate whose old matchIndex reaches past its log (497-499).
THEOREM LeadersComplete ==
    Undisturbed /\ Spec /\ []NextIndexPositive /\ []MatchInLog => []LeaderCompleteness
<1>1. TypeOK /\ Explained => LeaderCompleteness
    BY CompleteLeaders
<1> QED
    BY <1>1, SafetyInvariant, PTL

\* Under the same conditions, no two peers hand different commands of one index to their
\* applyCh: what the tester's reader compares.  Neither condition can be dropped: the runs
\* raft_double_backoff and raft_stale_match apply different commands where one of them fails.
THEOREM AppliesAgree ==
    Undisturbed /\ Spec /\ []NextIndexPositive /\ []MatchInLog => []ApplyAgree
<1>1. TypeOK /\ Explained => ApplyAgree
    BY AgreedApplies
<1> QED
    BY <1>1, SafetyInvariant, PTL
=============================================================================
