# Verification of MitDistribution

TLA+ models of the repository's working systems, with TLC runs on small
instances and TLAPS proofs for all instances: the MapReduce framework
(`src/mr`), the Raft library (`src/raft`), the simulated network (`src/labrpc`)
with the harnesses that start, stop and partition servers on it
(`src/kvraft/config.go`, `src/shardkv/config.go`), the clerks of the sharded
service, and the linearizability checker (`src/porcupine`). Paths below are
relative to the repository's Go root.

## 1. Inventory

| Part | State | Operations | Talks to |
|---|---|---|---|
| Raft peer, `raft/raft.go` | `currentTerm`, `voteFor`, `state`, `log`, `commitIndex`, `lastApplied`, `nextIndex`, `matchIndex` under `rf.mu` | `startElection`, `RequestVote` and its reply goroutines, `RequestVoteReply`, `RequestHeartBeat` and its reply goroutines, `RequestAppendEntriesReply`, `Start`, `applier`, `Make`, `Kill` | other peers by RPC, the service through `applyCh` |
| Raft goroutines, `raft/raft.go:713-804` | which loops run, `electionResetCh`, `rf.dead` | `electionLoop`, `leaderBeatLoop`, `resetElectionTimer`, `Kill` | the handlers, through `rf.state` and the channel |
| Raft tester, `raft/config.go` | `logs`, `connected`, `endnames`, `saved` | `crash1`, `start1`, `connect`, `disconnect`, `checkOneLeader`, the reader of `applyCh`, `one`, `wait` | peers, network |
| Persister, `raft/persister.go` | two byte slices under a lock | `Save*`, `Read*`, `Copy` | nobody writes it: `persist()` is empty |
| Network, `labrpc/labrpc.go` | `ends`, `enabled`, `servers`, `connections`, `reliable`, the goroutines of a call and their channels | `Call`, `processReq`, `isServerDead`, `MakeEnd`, `Connect`, `Enable`, `AddServer`, `DeleteServer`, `Reliable`, `Cleanup` | everything in the labs |
| kvraft tester, `kvraft/config.go` | `kvservers`, `saved`, `endnames`, `clerks` under `cfg.mu` | `StartServer`, `ShutdownServer`, `connect`, `disconnect`, `partition`, `make_partition`, `makeClient`, `ConnectClient`, `deleteClient`, `cleanup` | network, persisters, servers |
| shardkv tester, `shardkv/config.go` | groups of servers, masters, `saved`, end names; ends made by `make_end` | `StartServer`, `ShutdownServer`, `StartMasterServer`, `makeClient`, `make_end`, `cleanup` | network, persisters, servers |
| MapReduce master, `mr/master.go`, `main/mrmaster.go` | `mmap`, `rtask`, `mstart`, `rstart`, `mdone`, `rdone`, `nextId` under `m.lock` | `GiveTask`, `TaskFinish`, `mIsFinished`, `rIsFinished`, `Done`, `MakeMaster` | workers by RPC |
| MapReduce worker, `mr/worker.go` | its id and task; files in the working directory | `Worker`, `doMap`, `doReduce`, `CallforTask`, `CallforTaskFinish` | master by RPC, other workers through the files |
| Sequential MapReduce, `main/mrsequential.go` | none | read, sort, group, write | the reference that `test-mr.sh` compares with |
| Porcupine, `porcupine/`, `models/kv.go` | of each search the list of entries, state, bitset, stack, cache, longest prefixes; of the whole the channel, `kill`, the count | `checkSingle`, `checkParallel`, `makeEntries`, `convertEntries`, `lift`, `unlift`, the bitset's operations | the KV tests |
| Clerks, `shardkv/client.go`, `shardmaster/client.go` | a cached configuration, the server tried next | `Get`, `PutAppend`, `Query`, `Join`, `Leave`, `Move` | shardmaster and groups by RPC |
| kvraft, shardmaster, shardkv servers | empty stubs | | labrpc |
| labgob, visualization, `mrapps`, `main/*` leftovers | none that matters | encoding, HTML, plug-ins | |

What is hard here:

* goroutines that look at the role in one critical section and act in another
  (`RequestHeartBeat`, `Start`, the two loops), and reply goroutines of old terms;
* messages lost, delayed and reordered by `labrpc`, peers restarted by the tester;
* logs that conflict after a change of leader, and the arithmetic on
  `nextIndex` that repairs them;
* workers that crash between any two renames, stragglers that report a task
  somebody else has now, and a master that decides from time-outs only;
* a call in `labrpc` that reads end and server once and answers much later, when
  the server may be gone, replaced or cut off; three goroutines per call that
  must all end;
* a server that is shut down while its handlers run: they write to a persister
  that is being superseded, and the ends of the old instance must stay off;
* a backtracking search that undoes four structures together, a cache that may
  prune only what cannot succeed, goroutines that are killed while others
  answer, and a time-out that races the last answer;
* clerks with a configuration that is out of date, and calls that failed but ran.

What makes each part correct: one leader per term and one useful vote per peer
and term; logs that agree on what is committed, with every index the code uses
inside the log; loops that hand over to each other without a gap and stop after
`Kill()`; output files that appear complete or not at all; a `Done()` that is
true only when all of them are there, and that does become true, with the
lines a sequential run would write; calls whose handler runs at most once, and
that return; acknowledged effects that survive a restart; links that follow the
partition in force; a checker whose `Ok` and `Illegal` are both right; clerks
that return, and that repeat an operation only after a failed call. `PROJECT.json` lists the hazards at their lines with the properties that would catch them.

## 2. Modules

| Module | Models |
|---|---|
| `Raft` | any number of peers, the RPCs between them, the lossy network, restarts, the tester's record of applied commands |
| `MCRaft` | symmetry and a pruning constraint for `Raft` |
| `MCRaftStale` | a schedule for five peers of `Raft` |
| `RaftProofs` | proofs about `Raft`: types, indices inside the log; one leader per term, one useful vote; the logs, commitment, what is applied |
| `RaftLoops`, `RaftLoopsProofs` | the goroutines of one peer, and proofs |
| `Rpc` | the abstract specification of remote calls |
| `LabRpc` | the network of `labrpc`; implements `Rpc` |
| `LabRpcProofs` | proofs about `LabRpc`: types, and that it implements `Rpc` |
| `KvConfig`, `ShardConfig` | the testers of kvraft and shardkv, each composed with `LabRpc` and persisters |
| `KvConfigProofs`, `ShardConfigProofs` | proofs about the two testers, on top of `LabRpcProofs` |
| `MCHarness` | `LabRpc`, `KvConfig` and `ShardConfig` on small instances |
| `MapReduceJob` | the abstract specification of a job |
| `MapReduce` | master, workers, intermediate and output files |
| `Grouping` | how records are dealt out and grouped, by a worker and by `mrsequential` |
| `MCMapReduce` | a small job, and all small data for it |
| `MapReduceProofs` | proofs about `MapReduce`, including that it implements `MapReduceJob` |
| `LinkedEntries`, `Bitset` | the pointers and the words that the search works on |
| `KvModel` | `models/kv.go`, and how a history becomes lists of entries |
| `Porcupine` | `checkSingle` and `checkParallel` |
| `MCPorcupine` | all small histories, and linearizability over all keys at once |
| `PorcupineProofs` | proofs about `Porcupine`: the structures of a search, both verdicts, and the longest partial linearizations |
| `Clerk`, `ClerkProofs` | the clerks of shardkv and of the shardmaster, and proofs |

### Raft

One action is one critical section of `rf.mu`:

| Action | Code |
|---|---|
| `startElection(s)` | `startElection`, up to the unlock |
| `RequestVote(s, r)` | `RequestVote`: second lock, arguments, the calls |
| `RequestVoteReply(m)` | the vote handler |
| `VoteAnswered(m)` | the goroutine in `RequestVote` after its `Call` returned true |
| `RequestHeartBeat(s, p)` | the goroutine in `RequestHeartBeat` up to its call |
| `RequestAppendEntriesReply(m)` | the AppendEntries handler |
| `AppendAnswered(m)` | that goroutine after its `Call` returned true |
| `Start(s, c)` | `Start` |
| `applier(s)` | one tick of `applier` and the tester's reader |
| `Lose(m)` | `processReq` fails a call |
| `start1(s)` | the tester's `crash1` and `start1`, with `Make` |

`rpcs` holds every call that is under way: first as a request (`done = FALSE`),
then, in the handler's step, as its answer. `labrpc` delays and loses but never
duplicates, so a call is in one place at a time; two identical heartbeats are
told apart by `id`. A vote call's `id` is its round, since `voteNum` belongs to
one call of `RequestVote`. Calls of a restarted peer get `id = Gone`: they may
still be handled, but their answers have nobody to go to.

The log keeps the dummy entry of `make([]Log,1)`, because the code sends it
when `nextIndex` is 0. `At(l, i)` is Go's `l[i]`. Time is left out: an election
time-out or a heartbeat may come whenever the code's conditions allow it, so
every real schedule is a behaviour of the model.

`Preempt` says whether a role change may fall between "this peer leads"
(`GetState` in `Start` and in `leaderBeatLoop`) and the lock its goroutine or
caller takes next. The code allows it, so the honest setting is `TRUE`; with
`FALSE` the model shows what holds when that window is not hit. With `TRUE`,
`led` remembers the terms in which such a goroutine may have been started.
Where the code would panic on an index (a send with `nextIndex` outside the log,
`rf.log[cmt]` behind its end) the action is not enabled.

Bounds: `MaxTerm`, `MaxLog`, `MaxInFlight`, `MaxRpcs`, `MaxRestart`, each a
guard of one action.

### RaftLoops

The same peer seen from its long-running goroutines. Each loop is a slot with a
program counter; looking at `GetState()` and acting on it are two steps. What
the handlers and vote goroutines do is reduced to its effect on `rf.state` and
`electionResetCh` (`Wins`, `StepsDown`, `TimerReset`), allowed at any time: this
is more than `Raft` allows, so what holds here holds there. Bound: `Loop`, the
number of goroutines at one time. The applier, which looks only at `rf.dead` and the log,
is an action of `Raft` and not in this module: `KillStops` is about the election and
the beat loops.

### MapReduce

The master's handlers are actions; GiveTask is split by what it answers
(`GiveMap`, `NoMapLeft`, `GiveReduce`, `NoReduceLeft`, `NothingLeft`). The range
over the Go map `m.mmap` has no order, the one over the slice `m.rtask` has.
A worker's steps are those others can see: its RPCs, each `os.Rename`, the
reading of the intermediate files. Start times are abstracted to zero, fresh
or older than five seconds. A file `mr-f-r` is a pair in `files`; an output is
the set of inputs whose records it was computed from (map functions are
deterministic, so re-executions write the same bytes). `HasKeys` says which
inputs have keys of which partition; a partition without keys gets no output
file, as in `worker.go:110-112`. An RPC that fails ends the worker, so lost
requests and replies are `Crash` before or after the handler's step.

`MapReduceJob` is what the submitter relies on: `Publish(r)` makes an output
appear with all its inputs, once; `Finish` needs all of them. The mapping is
`result <- outputs, done <- mdone /\ rdone`.

`Grouping` has no state: `doReduce` and `mrsequential` are operators on sequences
of pairs, written along the two loops that keep a current key and flush it when
the key changes and once more at the end. An application's reduce function is left
open by keeping the whole bag of values of a key. `MCMapReduce!SameOutput` joins the two
levels: in every final state of the job the outputs, computed from the inputs
that `MapReduce` says went into them, have the lines of the sequential run, for
every hash of the keys and every emission of up to two pairs per input.

### LabRpc and Rpc

A call is three goroutines: the caller (`client[c]`), `processReq` (`proc[c]`)
and the one that runs the handler (`handler[c]`), plus the one that drains a
reply nobody waits for (`drain[c]`). An action is one critical section of `rn.mu`
or one rendezvous on a channel. `info[c]` is what `readEndnameInfo` returned;
`isServerDead` reads the tables anew. The 100 ms poll may come at any time, and
so may the short, long and reordering delays, which are therefore not modelled as
such; a request or reply is dropped only when the network was unreliable when the
call was read. Encoding, counters and the look-up of a method by name are left out;
names of ends are fresh, as the random strings of the code are.

`Rpc` is what a caller may rely on and what `Raft` and `Clerk` use: a call is
executed at most once, and returns true only after it was. The mapping forgets
everything but what the caller sees and whether the method ran.

### KvConfig and ShardConfig

Both contain `LabRpc` (`INSTANCE` on the same variables) and add what the harness
keeps. `ShutdownServer` and `StartServer` are sequences of steps (`pc`), one for each
call of the network or of a persister, interleaved with the network's. The
servers are stubs in the repository, so a handler is known by one thing: when it
returns, what it did is in the Persister its server was *started* with
(`store`), which need not be the one in `cfg.saved` any more. Instances and
objects are told apart by a generation, bounded by `MaxGen`; killed instances may
still call. `Leader()` is any server: no state of the stubs decides it.
`shardkv`'s servers make further ends with `make_end`, which the harness does not
record. Two arrays of that harness are made with the other's length, `cfg.n` for one name
per master and `cfg.nmasters` for one row per server (`shardkv/config.go:121`, `367`): where Go would panic on their index the action is not
enabled.

`MCHarness` runs four small systems in one state space: the variable `test`, chosen
in `Init` and never changed, says which. They share the network's code and so most
of the properties; what one does not have is `None`.

### Porcupine

A step is one iteration of `checkSingle`'s loop in one goroutine, one send on the
result channel, or one receive of `checkParallel`. The search works on the same
structures as the code: `next` and `prev` pointers that `lift` and `unlift`
change, a bitset in words (`WordSize` bits, 64 in the code), a stack, a cache.
The cache's hash only chooses a bucket and is left out: a look-up compares bitset
and state, as `cacheContains` does. `kill` is the atomic flag read at the head of
the loop. `limited` says whether a time-out was given; if so it may come at any
time. `KvModel` has `Init`, `Step` and `Partition` of the KV model and makes the
entry lists out of operations (`makeEntries`, sorted by time) or events
(`convertEntries`, `renumber`). Partitions are numbered by key; Go's order of a
map is irrelevant to the verdict because the goroutines interleave freely.

### Clerk

The shardkv clerk's loop, with `Query` of the shardmaster clerk inside it, and a
second shardmaster clerk that joins, moves and leaves groups meanwhile. The servers
are external: a replica that does not lead says so, a group that does not own the
shard in the configuration it knows says so, otherwise it serves. A call may fail
with the request lost, run, or still on its way: then it waits in `late` (the
shardmaster's) or `lateOps` (a group's) and is handled at any later time, also after the
operation has returned. Requests carry no number, so a server cannot tell a
retry from the first try: `runs[n]` counts how often the servers carried out the
`n`-th operation, `fails[n]` its failed calls, and `OncePerFailure` says that every
run after the first is due to a failed call. Sleeps are steps that take any time. Bounds: `MaxConfigs`, `MaxFaults`,
`MaxElections`, `MaxOps`.

## 3. Runs

| Run | Instance | Shows |
|---|---|---|
| `raft_elections` | 4 peers, 2 terms, 2 calls under way | `ElectionSafety`, `VoteOnce`. Four peers because with an even number a bare half must not do; two terms so that old votes and heartbeats meet a newer term |
| `raft_replication` | 3 peers, 2 commands, 2 terms, 1 entry per log beyond the dummy (plus what replication adds), two AppendEntries per pair and term | `LeaderCompleteness`, `ApplyAgree`: two leaders write different commands at the same index and the conflict is repaired, while beats and the calls of `Start` overlap |
| `raft_restart` | 3 peers, a restart, `Preempt` | `TypeOK`, `CommitInLog`: indices stay inside logs even where agreement is lost |
| `raft_late_heartbeat` | 3 peers, 3 terms, `Preempt` | violation of `ElectionSafety` |
| `raft_no_persist` | 3 peers, 1 term, a restart | violation of `ElectionSafety` |
| `raft_double_backoff` | 3 peers, two AppendEntries per pair | violation of `ApplyAgree` |
| `raft_stale_match` | 5 peers, 4 terms, 2 commands, one schedule of links | violation of `ApplyAgree` |
| `raft_loops` | 3 goroutine slots | `LoopAlive`, `SilentFollowerRuns`, `KillStops` |
| `mapreduce` | 2 workers that may crash, 2 inputs, 3 partitions (one empty); 3 keys, 2 values, up to 2 pairs per input | `TypeOK`, `MapFinishedHasFiles`, `SameOutput`, `JobSpec`, `Terminates` |
| `harness` | the network with one call, one end, one server name and two server objects; kvraft's harness with one server started up to three times, a clerk and a call; the same with three servers started twice, without calls; shardkv's with one group, one master, a clerk and a call | `TypeOK`, `AtMostOnce`, `CallReturns`, `HandlerEnds`, `AckedIsSaved`, `OldInstanceIsolated`, `LinksFollowGroups`, `LeaderInMinority` |
| `porcupine` | every history of 3 operations (put, append, get) on one key, or with one on a second key, as operations; put and get also as events; words of 2 bits | `TypeOK`, `BitsetIsSet`, `ListIsRemaining`, `OkSound`, `IllegalSound`, `LongestIsLongest`, `WholeVerdict`, `Answers`, `SearchesEnd` |
| `clerk` | 2 groups and the shardmaster with 2 replicas each, 2 shards, 3 configurations, one failed call, one change of leader | `TypeOK`, `OncePerFailure`, `ClerkReturns` |

The passing Raft and clerk runs stop at their bounds, so they do not check
deadlock; a MapReduce job, a test and a check of a history really end. Two workers are enough for every pair of original
and straggler; a third would only repeat the second's role. `QuietPeer` prunes
the search for two of the counterexamples and is used by no passing run.
`raft_replication` has two constraints: it does not go on from states in which a leader's
`nextIndex` is 0 (`NextIndexPositive`: from there the code goes wrong, as
`raft_double_backoff` shows), and for the sake of size only one peer at a time is between
`startElection` and the lock of `RequestVote` (`OneRound`); the theorems of section 4
do without the second.

Why the other bounds are enough. In the network calls share nothing but the
tables of ends and servers, which the tester changes at will, so that one call
meets every order of changes; two server objects under one name are what it takes to
delete and re-add a server under a running handler. Three starts of a server let a
handler of the first meet the third's persister; three servers are the smallest
number with two groups of which one has a link inside. Three operations give
every overlap of a call, a return and a third operation, backtracking over two
lifts, and with words of two bits a bitset of two words. Three configurations let
a shard come, go and move while the clerk holds an old one. `MCRaftStale` prunes to
one schedule of links and leaders because five peers in four terms are out of reach;
constraints only remove behaviours, so the counterexample is one of `Raft`.

The four violations, as the runs show them:

* *Late heartbeat.* A peer leads term 1, starts its heartbeat goroutines, is
  deposed and becomes a candidate of a later term. A goroutine that gets the
  lock only now (`raft.go:201-203`) sends AppendEntries with that term. The
  receiver, which had voted for another candidate, sets `voteFor` to the sender
  (306) and then grants it a vote too.
* *No persistence.* `persist()` and `readPersist()` do nothing; a restarted
  peer votes a second time in the term.
* *Double back-off.* A follower rejects two calls that were sent with the same
  `nextIndex = 2`; each rejection lowers it (254, 257), to 0. The next request
  carries `rf.log[0:]`, the dummy included, with `PrevLogIndex = 0`, which is
  always accepted (337), and the dummy lands at index 1.
* *Stale match.* Winning an election resets `nextIndex` but not `matchIndex`
  (`raft.go:497-499`), and the commit rule counts it (239-247). Peer 1 leads
  term 1 and peer 2 acknowledges two entries; peer 3 leads term 2 and overwrites
  them at peer 1 only; peer 1 leads term 3, sends a new entry at index 2 to one
  peer, counts 2's old acknowledgement as well and commits with two of five
  copies. Peer 3 wins term 4 and commits something else there.

Four limits of the code that a property's statement leaves room for:

* `make_partition()` with an even number of servers leaves a place of `p2` at its
  zero value, so that server 0 may be in both groups (`kvraft/config.go:342`);
  `LeaderInMinority` is stated and checked for odd numbers, which the test that calls it uses (five).
* A shut-down shardkv instance can still send on ends it made with `make_end`
  (`shardkv/config.go:245`); `OldInstanceIsolated` is about the ends the harness
  knows.
* `connect`, `disconnect`, `partition` and `ConnectAll` (`kvraft/config.go:123-186`) would
  enable ends of a server that is shut down. `KvConfig!AllUp` assumes of the tests that they
  call these only while all servers run, as `test_test.go:240-258` and `390-408` do;
  `OldInstanceIsolated` rests on it.
* The KV model has no partition of events, so `CheckEvents` judges several keys as one
  store (`checker.go:254`); `WholeVerdict` covers events of a single key.

### Fairness

`RaftLoops` assumes weak fairness of each loop's step and of the passing of
deadlines: the loops sleep 5 ms and continue, and hold no lock while asleep.
No fairness is assumed of `Wins`, `StepsDown` or `TimerReset`, which depend on
others. `MapReduce` assumes weak fairness of each worker's steps (a worker that
crashed has none), of the clock and of the polling `main()`; `Terminates` says of the
behaviours in which one worker survives that the job ends, since without one no
job can.

`LabRpc` assumes weak fairness of the network's own goroutines. Nothing is assumed
of the tester, of callers or of handlers: `CallReturns` excepts the one case in
which the code waits for ever, a handler that does not return at a server that
stays. `Porcupine` assumes weak fairness of the searches and of `checkParallel`, and
none of the time-out; `Answers` needs a partition, because an empty history
without a time-out has nobody to answer. `Clerk` assumes weak fairness of the
clerk's goroutine and that groups learn of configurations; failures and elections
end at their bounds, and `ClerkReturns` asks that the shard ends up at a group
that has joined.

## 4. Proofs

All proofs hold for every number of peers, workers, files, and so on.

* `RaftProofs!TypeCorrect`, `RaftProofs!CommittedInLog`. The inductive invariant
  `Sound` is their conjunction. Neither goes alone: types need a nonempty log and a
  valid slice, and `commitIndex < Len(log)` needs types. The core is
  `MergeType` (what the append handler makes of a log) and the fact that every
  assignment to `commitIndex` is followed by no cut: the one handler that cuts
  the log assigns `commitIndex` in the same step, clamped to the new length. No
  assumption on restarts or preemption is made.
* `RaftProofs!OneLeader`, `RaftProofs!OneUsefulVote`, under
  `Undisturbed` (no restart, `~Preempt`), which is exactly what the runs
  `raft_no_persist` and `raft_late_heartbeat` show to be needed. The textbook
  argument (a majority voted for the leader, two majorities meet) cannot be read
  off `voteFor` here, for two reasons: AppendEntries overwrites it, and
  `RequestVote` may send requests of a term its peer is no candidate of. The
  invariant `Elect` therefore follows each vote from the voter's step through
  the answer (`Granted`) to the count (`Counted`), and says of a voter that it
  still votes for the candidate or is `Bound`: it has left the term, or its
  `voteFor` names a peer that can no longer win it. A leader's term is `Decided`
  by a majority of bound peers whose votes count for nobody. `Honest` (an
  AppendEntries is never from a candidate of its term) is where `~Preempt` is
  used; terms that never fall are where the absence of restarts is. The proof is in
  two halves: whatever a `Step` is, it keeps `Elect`; and every action of `Next`
  is a `Step`.
* `RaftProofs!LeadersComplete`, `RaftProofs!AppliesAgree`, under `Undisturbed` and, as
  conditions on the behaviour, `[]NextIndexPositive` (no leader's `nextIndex` is 0)
  and `[]MatchInLog` (no candidate has a `matchIndex` that reaches past its log). They
  are conditions because the code does not ensure them: overlapping rejections lower
  `nextIndex` one by one, and an election does not reset `matchIndex`.
  The runs `raft_double_backoff` and `raft_stale_match` show `ApplyAgree` violated without
  the one and without the other. Nothing else is assumed: any number of calls may
  be under way between two peers, answers come in any order, and a former leader
  may lead again with the acknowledgements of its earlier reign, as long as they
  lie inside its log.

  That they are harmless then is the point of `MatchesAcked`: a `matchIndex` inside the log
  may be larger than what the follower has acknowledged in this term, but the entries up to it
  that could be counted, those of the leader's own term, were all written after the
  election, behind it. The invariant `Index` says where calls lie:
  an AppendEntries of a leader ends inside the leader's log (`CallsInLog`), and
  `nextIndex` is at most the length of the log (`NextIndexBelow`).

  The invariant `Explained` says that some history
  explains the state: `W[t]` the leader of term `t`, `V[t]` the quorum that elected
  it, `L[t]` the log it has or last had as leader, and `M[q][t]` how far peer `q`
  has acknowledged that log. Every log follows the logs of
  the leaders of its entries' terms (`Follows`, hence log matching: `LogsMatch`); calls
  under way are parts of the leader's log and answers are acknowledgements
  (`Messages`); a peer keeps what it acknowledged, and a log it votes for has it,
  unless a leader in between had already lost it (`AcksKept`, `VotesCover`,
  `Covers`); a `commitIndex` is covered by an entry of the leader's own term that a
  majority acknowledged (`Settled`), and so is every applied command (`Decreed`). The
  proof has three parts. `AdvanceKeeps`: a step that moves the
  history as `Advance` allows keeps the invariant. One lemma per action (`SafeElection`
  to `SafeAppendHandler`) gives the history after it. `CommittedStays`: the first
  leader to lack a committed entry was elected by a quorum with a peer that acknowledged
  it, and the log it voted for covers that. `MergeShape` and `UpToDateCovers` are where the
  merge of the append handler and the comparison of the vote handler are used.
* `RaftLoopsProofs!AlwaysAlive`. `LoopAlive` is inductive with the types: the only
  loop that ends while the peer lives has just seen the role that another loop
  serves, or turns into that loop.
* `MapReduceProofs!Invariance`. `Inv` strengthens `MapFinishedHasFiles` by what a
  map worker has renamed so far (`MapProgress`) and by the order of the phases and
  what a reduce worker holds (`ReduceProgress`).
* `MapReduceProofs!Refinement`. From `Inv`, every step publishes one complete
  output, finishes, or changes nothing the submitter sees.
* `LabRpcProofs!TypeCorrect`, `LabRpcProofs!Refinement`. `CallInv` says how far the
  goroutines of one call may be apart: nothing runs before the request was taken
  off the channel, a handler has run exactly once from its return on, and what the
  caller gets as success comes from a handler that is done. Nothing is assumed of
  what a tester does to the tables.
* `KvConfigProofs`: `TypeCorrect`, `AckedSafe`, `OldIsolated`, `GroupsRespected`,
  `LeaderCutOff`, for any `N` and `MaxGen` (`Constants`; the run's instances satisfy
  it, and `LeaderCutOff` is for odd `N`). The network's part of the invariant is
  `LabRpcProofs!CallInv`, taken over by `INSTANCE`. `Instances` says which
  persister belongs to which generation and at which step of
  `StartServer`/`ShutdownServer` it is replaced; `Effect` follows the effect of a
  call from the persister of the object that ran it to the one in `cfg.saved`, where it
  must be before the reply is let through; `LinksAreUp` lets links be enabled only
  between servers that are neither being started nor shut down.
* `ShardConfigProofs`: `TypeCorrect`, `AckedSafe`, `OldSilent`, under `Constants` (no
  group is numbered 0, the number that the model gives to the masters; a server can be started once;
  nil is none of the things a table holds). The invariant has the same parts as
  that of `KvConfigProofs`. `Instances` differs in that a server which was never started has
  no persister at all, and in that the masters are started once and never shut
  down; `OwnEndsOff` is inductive with it, because the ends a start enables
  are those of a generation that nothing has stopped, and `make_end` enables
  ends of its own kind only.

  The run `harness` checks, on `MCHarness`'s instances, the conjunctions of the
  formulas that these two modules and `LabRpcProofs` prove part by part.
* `ClerkProofs!TypeCorrect`, `ClerkProofs!RetriesOnly`. `OncePerFailure` is not inductive:
  a late request may run at any time. `OpsAccount` charges every operation for what has
  run, for each request of it that may still run late, and for the try that is
  under way, and says that this never exceeds one more than its failed calls;
  `CtlAccount` does the same for the other clerk's operations and the configurations
  they make. The charge for the try under way is dropped only with a reply on which the clerk
  returns, and a reply on which it goes on is never that of a server that carried
  the operation out (`ServeStep`).
* `PorcupineProofs`, for every sequential model `Step`, every history and every word
  size: `TypeCorrect`, `BitsetExact`, `ListExact`, `OkIsSound`, `IllegalIsSound`,
  `LongestIsRight`. The invariant of one search (`Search`) is stated over its
  values: the stack is an accepted sequence of operations that respects the
  real-time order; the list is the history with the entries of the stack lifted one
  after the other, so that `unlift` undoes the last lift; the bitset has the
  stack's operations; every cached configuration is that of a level of the stack or is
  `Over`; and at every level everything before the current entry was tried and
  is over. A configuration is `Over` when it is `Dead` (no linearization of the
  rest) and `Explored` (`longest` is long enough for every partial linearization
  that goes through it). `OverEnd` carries this upwards when the search pops, and
  at the bottom it is the verdict; `LinearizableIsAlive` connects `Dead`
  with the `Linearizable` of `OkSound` and `IllegalSound`.

  For `LongestIsRight` the invariant follows the sets of operations for which
  `longest` has long enough sequences already (`Covered(i)`). They only
  grow: `LongestAfter` keeps the longer of two, and adds the set of
  the stack at each pop, which is what the search has to know before it leaves a
  configuration for good (`BacktrackCovers`); a search that succeeds has the whole
  history on its stack (`CompleteCovers`). `Noted` says that what is recorded is an
  accepted sequence, `Longest` that a search which ended by itself has covered
  everything it can, `Waited` that the checker answers only after every search
  ended. A killed search has covered less, and the property claims nothing of it.

  The model's histories are sequences in which each id has one call and one
  later return (`PartsAssumption`), and nil is no sequence (`NilAssumption`); TLC
  evaluates both on the histories of the run.

Only model-checked: everything about liveness (`SilentFollowerRuns`,
`KillStops`, `Terminates`, `CallReturns`, `HandlerEnds`, `Answers`, `SearchesEnd`,
`ClerkReturns`: fairness is beyond the prover), and what a recursion over data
computes (`SameOutput`, `WholeVerdict`: an induction over the data of a job or
over a history, which the prover cannot do). No module declares a RECURSIVE operator.

## 5. Plan

Done: the modules above and the proofs of section 4. Nothing of the plan is left.

### Not modelled

* The servers of kvraft, shardmaster and shardkv and the kvraft clerk: empty
  bodies. `shardmaster/config.go` is `kvraft/config.go` but for types.
* `one`, `wait` and `nCommitted` of the Raft tester: they only look at what was
  applied. Statistics and byte counts of all testers.
* The two byte slices of the persister: nothing in the repository writes them.
* labgob (reflection), the HTML of the visualization, `mrapps` (pure plug-ins; their
  crashes are the worker's), the leftover commands of other labs.
* Cases outside the instances: a cluster of one peer, which never elects a leader
  because the majority is only tested when a vote arrives (`raft.go:491`); two
  election loops in `rf.rand` at once (797), a data race without effect on the
  model, in which time-outs are arbitrary; the pattern `mr-*-R`, which
  also matches `mr-out-R` of an earlier execution (`mr/worker.go:85`); operations
  with equal time stamps; shardkv groups of several servers.
