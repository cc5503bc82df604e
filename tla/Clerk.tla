------------------------------- MODULE Clerk -------------------------------
(***************************************************************************)
(* The clerks of the sharded key/value service (shardkv/client.go) and of  *)
(* its shardmaster (shardmaster/client.go).  A shardkv clerk sends an      *)
(* operation to the group that its cached configuration names for the      *)
(* key's shard, replica by replica, and asks the shardmaster again when    *)
(* nobody served it.  A second clerk changes configurations meanwhile.     *)
(*                                                                         *)
(* The servers' handlers are not in the repository: they appear here by    *)
(* what the clerks take their replies to mean.  A call is what labrpc      *)
(* makes of it (module Rpc): answered, failed with the request lost or run *)
(* nevertheless, or failed with the request still on its way.              *)
(***************************************************************************)
EXTENDS Integers, Sequences, FiniteSets

CONSTANTS
  NShards, Gids,
  Replicas,     \* servers of a group, and of the shardmaster
  Keys,         \* keys, by the code of their first letter
  MaxConfigs,   \* bound: configurations
  MaxFaults,    \* bound: calls that fail
  MaxElections, \* bound: changes of a leader
  MaxOps        \* bound: operations of the shardkv clerk

ASSUME NShardsAssumption == NShards \in Nat \ {0}
ASSUME ReplicasAssumption == Replicas \in Nat \ {0}
ASSUME GidsAssumption == 0 \notin Gids
ASSUME MaxConfigsAssumption == MaxConfigs \in Nat \ {0}

VARIABLES
  configs,   \* the shardmaster's configurations, oldest first
  mleader,   \* the replica that leads the shardmaster
  gleader,   \* gleader[g]: the replica that leads group g
  seen,      \* seen[g]: how many configurations group g knows
  pc, op,    \* the shardkv clerk: where it is, and its operation
  config,    \* ck.config
  si,        \* the replica it tries
  smi,       \* the shardmaster replica that sm.Query() tries
  ctl, ctlOp, cmi,  \* the other clerk: "idle" or "asking", for what, and whom
  late,      \* requests to the shardmaster whose calls failed, still on their way
  lateOps,   \* the same of requests to the groups
  runs,      \* runs[n]: how often the servers carried out the clerk's n-th operation
  fails,     \* fails[n]: how many of its calls failed
  asked, ctlFails, \* operations and failed calls of the other clerk
  faults, elections, ops  \* counters for the bounds

envVars == <<mleader, gleader, seen, elections>>
ckVars == <<pc, op, config, si, smi, fails, ops>>
kvVars == <<runs, lateOps>>
ctlVars == <<ctl, ctlOp, cmi, asked, ctlFails>>
vars == <<configs, envVars, ckVars, kvVars, ctlVars, late, faults>>

Shards == 0 .. NShards - 1
Servers == 0 .. Replicas - 1
Config == [shards : [Shards -> Gids \cup {0}], groups : SUBSET Gids]
EmptyConfig == [shards |-> [s \in Shards |-> 0], groups |-> {}]
Latest == configs[Len(configs)]
NoOp == [kind |-> "none", key |-> 0]
NoCtl == [kind |-> "none", gid |-> 0, shard |-> 0]

\* int(key[0]) % NShards.
key2shard(key) == key % NShards

Init ==
  /\ configs = <<EmptyConfig>>
  /\ mleader \in Servers
  /\ gleader \in [Gids -> Servers]
  /\ seen = [g \in Gids |-> 1]
  /\ pc = "idle" /\ op = NoOp /\ config = EmptyConfig /\ si = 0 /\ smi = 0
  /\ ctl = "idle" /\ ctlOp = NoCtl /\ cmi = 0
  /\ late = {} /\ lateOps = {}
  /\ runs = <<>> /\ fails = <<>> /\ asked = 0 /\ ctlFails = 0
  /\ faults = 0 /\ elections = 0 /\ ops = 0

-----------------------------------------------------------------------------
(* The servers, as the clerks see them (external). *)

\* What replica r of group g may reply to operation o.
Served == {"OK", "ErrNoKey"}
Replies(g, r, o) ==
  IF gleader[g] # r THEN {"ErrWrongLeader"}
  ELSE IF configs[seen[g]].shards[key2shard(o.key)] # g THEN {"ErrWrongGroup"}
  ELSE IF o.kind = "Get" THEN Served ELSE {"OK"}

\* A server handles the clerk's n-th operation and comes to the reply err.  Nothing
\* in a request tells it from its repetition.
Runs(n, err) == runs' = [runs EXCEPT ![n] = @ + (IF err \in Served THEN 1 ELSE 0)]

\* The configurations that may follow c after request q.
Successors(c, q) ==
  LET Over(G) == IF G = {} THEN {[EmptyConfig EXCEPT !.groups = {}]}
                 ELSE {[shards |-> f, groups |-> G] : f \in [Shards -> G]}
  IN CASE q.kind = "Join"  -> Over(c.groups \cup {q.gid})
       [] q.kind = "Leave" -> Over(c.groups \ {q.gid})
       [] q.kind = "Move"  -> {[c EXCEPT !.shards[q.shard] = q.gid]}

\* Replica r of the shardmaster runs request q: only the leader does.
MasterRuns(r, q) ==
  IF r = mleader
  THEN /\ Len(configs) < MaxConfigs
       /\ \E c \in Successors(Latest, q) : configs' = Append(configs, c)
  ELSE UNCHANGED configs

\* A group learns of the next configuration.
GroupLearns(g) ==
  /\ seen[g] < Len(configs)
  /\ seen' = [seen EXCEPT ![g] = @ + 1]
  /\ UNCHANGED <<configs, mleader, gleader, elections, ckVars, kvVars, ctlVars, late, faults>>

Elects ==
  /\ elections < MaxElections
  /\ elections' = elections + 1
  /\ \/ mleader' \in Servers /\ UNCHANGED gleader
     \/ gleader' \in [Gids -> Servers] /\ UNCHANGED mleader
  /\ UNCHANGED <<configs, seen, ckVars, kvVars, ctlVars, late, faults>>

\* One more call fails.
Fault == faults < MaxFaults /\ faults' = faults + 1

\* A request to the shardmaster whose call failed is run after all.
LateRuns(q) ==
  /\ late' = late \ {q}
  /\ MasterRuns(q.replica, q.op)
  /\ UNCHANGED <<envVars, ckVars, kvVars, ctlVars, faults>>

\* The same of a request to a group, maybe long after the clerk's operation returned.
LateServes(q) ==
  /\ lateOps' = lateOps \ {q}
  /\ \E err \in Replies(q.gid, q.replica, q.op) : Runs(q.n, err)
  /\ UNCHANGED <<configs, envVars, ckVars, ctlVars, late, faults>>

-----------------------------------------------------------------------------
(* The shardkv clerk: Get() and PutAppend(). *)

\* A mutation: no look at whether the group is there.
TriesAnyway(c, key) == config' = c /\ pc' = "serving" /\ si' = 0 /\ smi' = 0

\* The head of the loop: whom to try under configuration c.
LoopHead(c, key) ==
  /\ config' = c
  /\ pc' = IF c.shards[key2shard(key)] \in c.groups THEN "serving" ELSE "asking"
  /\ si' = 0
  /\ smi' = 0

Start(kind, key) ==
  /\ pc = "idle"
  /\ ops < MaxOps
  /\ ops' = ops + 1
  /\ op' = [kind |-> kind, key |-> key]
  /\ runs' = Append(runs, 0) /\ fails' = Append(fails, 0)
  /\ LoopHead(config, key)
  /\ UNCHANGED <<configs, envVars, ctlVars, late, lateOps, faults>>

\* A mutation: PutAppend() does not return on OK.
GoesOn(err) == op.kind = "Get" /\ err \in Served

\* The replies on which Get() and PutAppend() return.
Accepts(err) == err = "OK" \/ (op.kind = "Get" /\ err = "ErrNoKey")

\* "not ok, or ErrWrongLeader": the next server, or the shardmaster.
NextServer ==
  /\ pc' = IF si + 1 < Replicas THEN "serving" ELSE "asking"
  /\ si' = IF si + 1 < Replicas THEN si + 1 ELSE 0

\* The call to the replica si of the group.
Serve ==
  LET gid == config.shards[key2shard(op.key)]
      request == [gid |-> gid, replica |-> si, op |-> op, n |-> ops, call |-> faults]
  IN /\ pc = "serving"
     /\ \/ /\ \E err \in Replies(gid, si, op) :
                /\ Runs(ops, err)
                /\ \/ Accepts(err) /\ pc' = "idle" /\ UNCHANGED si
                   \/ ~Accepts(err) /\ err = "ErrWrongGroup" /\ pc' = "asking" /\ UNCHANGED si
                   \/ ~Accepts(err) /\ err # "ErrWrongGroup" /\ NextServer
           /\ UNCHANGED <<fails, lateOps, faults>>
        \/ /\ Fault /\ NextServer
           /\ fails' = [fails EXCEPT ![ops] = @ + 1]
           /\ \/ \E err \in Replies(gid, si, op) : Runs(ops, err) /\ UNCHANGED lateOps
              \/ UNCHANGED runs /\ lateOps' \in {lateOps, lateOps \cup {request}}
     /\ UNCHANGED <<configs, envVars, ctlVars, op, config, smi, ops, late>>

\* A mutation: the clerk keeps the configuration that it has.
KeepsConfig == config

\* sm.Query(-1): replica smi, if it leads, tells the latest configuration.
Queried == Latest

Query ==
  /\ pc = "asking"
  /\ \/ /\ smi = mleader
        /\ LoopHead(Queried, op.key)
        /\ UNCHANGED faults
     \/ /\ (smi # mleader /\ UNCHANGED faults) \/ Fault
        /\ smi' = (smi + 1) % Replicas
        /\ UNCHANGED <<pc, config, si>>
  /\ UNCHANGED <<configs, envVars, ctlVars, kvVars, op, fails, ops, late>>

-----------------------------------------------------------------------------
(* The clerk of the shardmaster: Join(), Leave() and Move(). *)

Ask(q) ==
  /\ ctl = "idle"
  /\ Len(configs) < MaxConfigs
  /\ ctl' = "asking" /\ ctlOp' = q /\ cmi' = 0 /\ asked' = asked + 1
  /\ UNCHANGED <<configs, envVars, ckVars, kvVars, ctlFails, late, faults>>

Join(g) == g \notin Latest.groups /\ Ask([kind |-> "Join", gid |-> g, shard |-> 0])
Leave(g) == g \in Latest.groups /\ Ask([kind |-> "Leave", gid |-> g, shard |-> 0])
Move(s, g) == g \in Latest.groups /\ Ask([kind |-> "Move", gid |-> g, shard |-> s])

\* ok && reply.WrongLeader == false.
RightLeader(r) == r = mleader

NextMaster == cmi' = (cmi + 1) % Replicas /\ UNCHANGED ctl

\* The call to the shardmaster replica cmi.
CtlCall ==
  LET request == [replica |-> cmi, op |-> ctlOp, call |-> faults]
  IN /\ ctl = "asking"
     /\ \/ /\ MasterRuns(cmi, ctlOp)
           /\ \/ RightLeader(cmi) /\ ctl' = "idle" /\ UNCHANGED cmi
              \/ ~RightLeader(cmi) /\ NextMaster
           /\ UNCHANGED <<ctlFails, late, faults>>
        \/ /\ Fault /\ NextMaster
           /\ ctlFails' = ctlFails + 1
           /\ \/ MasterRuns(cmi, ctlOp) /\ UNCHANGED late
              \/ UNCHANGED configs /\ late' \in {late, late \cup {request}}
     /\ UNCHANGED <<envVars, ckVars, kvVars, ctlOp, asked>>

-----------------------------------------------------------------------------
Clerks == Serve \/ Query

Next ==
  \/ \E k \in Keys : Start("Get", k) \/ Start("PutAppend", k)
  \/ Clerks
  \/ \E g \in Gids : Join(g) \/ Leave(g) \/ GroupLearns(g)
  \/ \E g \in Gids, s \in Shards : Move(s, g)
  \/ CtlCall
  \/ Elects
  \/ \E q \in late : LateRuns(q)
  \/ \E q \in lateOps : LateServes(q)

Spec == Init /\ [][Next]_vars

\* The clerk's goroutine runs, and groups follow the shardmaster.
FairSpec ==
  /\ Spec
  /\ WF_vars(Clerks)
  /\ \A g \in Gids : WF_vars(GroupLearns(g))

-----------------------------------------------------------------------------
(* Properties. *)

\* The variables have their types, and the clerk only tries servers of a
\* group that its own configuration has.
TypeOK ==
  /\ configs \in Seq(Config) /\ Len(configs) \in 1 .. MaxConfigs
  /\ mleader \in Servers /\ gleader \in [Gids -> Servers]
  /\ seen \in [Gids -> 1 .. Len(configs)]
  /\ pc \in {"idle", "serving", "asking"} /\ ctl \in {"idle", "asking"}
  /\ pc = "serving" => config.shards[key2shard(op.key)] \in config.groups
  /\ \E n \in 1 .. Len(configs) : config = configs[n]
  /\ si \in Servers /\ smi \in Servers /\ cmi \in Servers
  /\ ops \in Nat /\ asked \in Nat /\ ctlFails \in Nat
  /\ runs \in Seq(Nat) /\ Len(runs) = ops /\ fails \in Seq(Nat) /\ Len(fails) = ops

\* shardkv/client.go:117-120 and shardmaster/client.go:58: no request carries a
\* number, so that a failed call and its retry may both take effect, the first even
\* after the second or after the operation has returned.  But nothing else repeats
\* an operation: it runs at most once more than its calls failed, however groups,
\* shards and leaders change meanwhile.
OncePerFailure ==
  /\ \A n \in 1 .. ops : runs[n] <= 1 + fails[n]
  /\ Len(configs) - 1 <= asked + ctlFails

\* shardkv/client.go:65: "keeps trying forever in the face of all other
\* errors".  However stale the clerk's configuration is, and whoever led when
\* it last asked, it returns if the key's shard ends up at a joined group.
ClerkReturns ==
  \A k \in Keys : <>[](Latest.shards[key2shard(k)] \in Latest.groups) =>
    (pc # "idle" /\ op.key = k ~> pc = "idle")
=============================================================================
