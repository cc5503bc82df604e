---------------------------- MODULE ClerkProofs ----------------------------
(***************************************************************************)
(* Proofs about Clerk, for any groups, replicas, configurations and faults *)
(***************************************************************************)
EXTENDS Clerk, FiniteSetTheorems, TLAPS

Requests == [kind : {"Join", "Leave", "Move"}, gid : Gids, shard : Shards]

\* What the shardmaster is asked for is a request.
Requested ==
  /\ ctl = "asking" => ctlOp \in Requests
  /\ \A q \in late : q.op \in Requests

\* Late requests (among S) of the n-th operation, and whether the k-th,
\* with the clerk at l, is still under way.
LateOf(S, n) == {q \in S : q.n = n}
Open(l, k, n) == IF n = k /\ l # "idle" THEN 1 ELSE 0

\* A request that may still run, late or because the operation is under way, is
\* one for which a call has failed or which is the first: the account from which
\* every run is paid.
OpsAccount ==
  /\ IsFiniteSet(lateOps) /\ \A q \in lateOps : q.n \in 1 .. ops
  /\ pc # "idle" => ops \in 1 .. ops
  /\ \A n \in 1 .. ops : runs[n] + Cardinality(LateOf(lateOps, n)) + Open(pc, ops, n) <= 1 + fails[n]

\* The same of the other clerk's operations, all in one.
CtlAccount ==
  /\ IsFiniteSet(late)
  /\ Len(configs) - 1 + Cardinality(late) + (IF ctl = "asking" THEN 1 ELSE 0)
       <= asked + ctlFails

Inv == TypeOK /\ Requested /\ OpsAccount /\ CtlAccount

----------------------------------------------------------------------------
(* Configurations and replicas. *)

LEMMA EmptyIsConfig == EmptyConfig \in Config
BY DEF EmptyConfig, Config

LEMMA SuccessorConfigs ==
    ASSUME NEW c \in Config, NEW q \in Requests, NEW d \in Successors(c, q)
    PROVE  d \in Config
<1> DEFINE Over(G) == IF G = {} THEN {[EmptyConfig EXCEPT !.groups = {}]}
                      ELSE {[shards |-> f, groups |-> G] : f \in [Shards -> G]}
<1>1. ASSUME NEW G \in SUBSET Gids PROVE Over(G) \subseteq Config
    BY EmptyIsConfig DEF Config
<1>2. c.groups \cup {q.gid} \in SUBSET Gids /\ c.groups \ {q.gid} \in SUBSET Gids
    BY DEF Config, Requests
<1>3. CASE q.kind = "Join"
    <2>1. d \in Over(c.groups \cup {q.gid})
        BY <1>3 DEF Successors
    <2> HIDE DEF Over
    <2> QED
        BY <1>1, <1>2, <2>1
<1>4. CASE q.kind = "Leave"
    <2>1. d \in Over(c.groups \ {q.gid})
        BY <1>4 DEF Successors
    <2> HIDE DEF Over
    <2> QED
        BY <1>1, <1>2, <2>1
<1>5. CASE q.kind = "Move"
    <2>1. d = [c EXCEPT !.shards[q.shard] = q.gid]
        BY <1>5 DEF Successors
    <2> QED
        BY <2>1 DEF Config, Requests
<1> QED
    BY <1>3, <1>4, <1>5 DEF Requests

\* The types of what the shardmaster and the groups keep.
Configs ==
  /\ configs \in Seq(Config) /\ Len(configs) \in 1 .. MaxConfigs
  /\ seen \in [Gids -> 1 .. Len(configs)]
  /\ \E n \in 1 .. Len(configs) : config = configs[n]

\* The shardmaster only adds configurations.
LEMMA MasterKeeps ==
    ASSUME Configs, NEW r, NEW q \in Requests, MasterRuns(r, q), UNCHANGED <<seen, config>>
    PROVE  /\ Configs'
           /\ Len(configs') = Len(configs) + (IF UNCHANGED configs THEN 0 ELSE 1)
           /\ r # mleader => UNCHANGED configs
<1>1. CASE UNCHANGED configs
    BY <1>1 DEF Configs
<1>2. ASSUME NEW c \in Successors(Latest, q), configs' = Append(configs, c),
             Len(configs) < MaxConfigs, r = mleader
      PROVE  Configs' /\ Len(configs') = Len(configs) + 1 /\ configs' # configs
    <2>1. Latest \in Config
        BY DEF Configs, Latest
    <2>2. c \in Config
        BY <2>1, SuccessorConfigs
    <2>3. /\ configs' \in Seq(Config) /\ Len(configs') = Len(configs) + 1
          /\ \A n \in 1 .. Len(configs) : configs'[n] = configs[n]
        BY <1>2, <2>2 DEF Configs
    <2>4. Len(configs') \in 1 .. MaxConfigs
        BY <1>2, <2>3, MaxConfigsAssumption DEF Configs
    <2>5. 1 .. Len(configs) \subseteq 1 .. Len(configs')
        BY <2>3 DEF Configs
    <2> QED
        BY <2>3, <2>4, <2>5 DEF Configs
<1> QED
    BY <1>1, <1>2 DEF MasterRuns

LEMMA NextReplica ==
    ASSUME NEW r \in Servers
    PROVE  (r + 1) % Replicas \in Servers /\ (r + 1 < Replicas => r + 1 \in Servers) /\ 0 \in Servers
BY ReplicasAssumption DEF Servers

----------------------------------------------------------------------------
(* Counting. *)

\* One more of s[n], or as many as before.
LEMMA Counts ==
    ASSUME NEW s \in Seq(Nat), NEW n \in 1 .. Len(s), NEW k \in Nat, NEW t,
           t = [s EXCEPT ![n] = @ + k]
    PROVE  /\ t \in Seq(Nat) /\ Len(t) = Len(s) /\ t[n] = s[n] + k
           /\ \A m \in 1 .. Len(s) : m # n => t[m] = s[m]
OBVIOUS

\* What a run adds.
LEMMA RunsCount ==
    ASSUME TypeOK, NEW n \in 1 .. ops, NEW err, Runs(n, err)
    PROVE  /\ runs' \in Seq(Nat) /\ Len(runs') = ops
           /\ runs'[n] = runs[n] + (IF err \in Served THEN 1 ELSE 0)
           /\ \A m \in 1 .. ops : m # n => runs'[m] = runs[m]
BY Counts DEF TypeOK, Runs

\* An operation has finitely many late requests, one more with a new one and one
\* less when one has run.
LEMMA LateCount ==
    ASSUME NEW S, IsFiniteSet(S), NEW n, NEW q
    PROVE  /\ Cardinality(LateOf(S, n)) \in Nat
           /\ IsFiniteSet(S \cup {q}) /\ IsFiniteSet(S \ {q})
           /\ Cardinality(LateOf(S \cup {q}, n)) \in Nat /\ Cardinality(LateOf(S \ {q}, n)) \in Nat
           /\ Cardinality(LateOf(S \cup {q}, n)) <=
                Cardinality(LateOf(S, n)) + (IF q.n = n THEN 1 ELSE 0)
           /\ q \in S => Cardinality(LateOf(S \ {q}, n)) =
                           Cardinality(LateOf(S, n)) - (IF q.n = n THEN 1 ELSE 0)
<1>1. IsFiniteSet(S \cup {q}) /\ IsFiniteSet(S \ {q})
    BY FS_AddElement, FS_RemoveElement
<1>2. ASSUME NEW T, IsFiniteSet(T)
      PROVE  IsFiniteSet(LateOf(T, n)) /\ Cardinality(LateOf(T, n)) \in Nat
    BY <1>2, FS_Subset, FS_CardinalityType DEF LateOf
<1>3. CASE q.n = n
    <2>1. /\ LateOf(S \cup {q}, n) = LateOf(S, n) \cup {q}
          /\ LateOf(S \ {q}, n) = LateOf(S, n) \ {q}
          /\ q \in S => q \in LateOf(S, n)
        BY <1>3 DEF LateOf
    <2>0. IsFiniteSet(LateOf(S, n)) /\ Cardinality(LateOf(S, n)) \in Nat
        BY <1>2
    <2>2. Cardinality(LateOf(S, n) \cup {q}) <= Cardinality(LateOf(S, n)) + 1
        <3> DEFINE L == LateOf(S, n)
        <3>1. Cardinality(L \cup {q}) = IF q \in L THEN Cardinality(L) ELSE Cardinality(L) + 1
            <4> HIDE DEF L
            <4> QED
                BY <2>0, FS_AddElement DEF L
        <3> QED
            BY <2>0, <3>1
    <2>3. q \in LateOf(S, n) => Cardinality(LateOf(S, n) \ {q}) = Cardinality(LateOf(S, n)) - 1
        BY <1>2, FS_RemoveElement
    <2> QED
        BY <1>1, <1>2, <1>3, <2>0, <2>1, <2>2, <2>3
<1>4. CASE q.n # n
    <2>1. LateOf(S \cup {q}, n) = LateOf(S, n) /\ LateOf(S \ {q}, n) = LateOf(S, n)
        BY <1>4 DEF LateOf
    <2> QED
        BY <1>1, <1>2, <1>4, <2>1
<1> QED
    BY <1>3, <1>4

----------------------------------------------------------------------------
(* The invariant. *)

LEMMA InitInv == Init => Inv
<1> SUFFICES ASSUME Init PROVE Inv
    OBVIOUS
<1>1. configs \in Seq(Config) /\ Len(configs) = 1 /\ config = configs[1]
    BY EmptyIsConfig DEF Init
<1>2. 1 \in 1 .. MaxConfigs /\ 0 \in Servers
    BY MaxConfigsAssumption, ReplicasAssumption DEF Servers
<1>3. TypeOK
    BY <1>1, <1>2 DEF Init, TypeOK
<1>4. IsFiniteSet(late) /\ IsFiniteSet(lateOps) /\ Cardinality(late) = 0
    BY FS_EmptySet DEF Init
<1> QED
    BY <1>1, <1>3, <1>4 DEF Init, Inv, Requested, OpsAccount, CtlAccount

\* The calls of the shardkv clerk.
LEMMA ServeStep ==
    ASSUME Inv, Serve
    PROVE  TypeOK' /\ OpsAccount'
<1> USE DEF Inv
<1> DEFINE gid == config.shards[key2shard(op.key)]
<1> DEFINE request == [gid |-> gid, replica |-> si, op |-> op, n |-> ops, call |-> faults]
<1> DEFINE answered == /\ \E err \in Replies(gid, si, op) :
                            /\ Runs(ops, err)
                            /\ \/ Accepts(err) /\ pc' = "idle" /\ UNCHANGED si
                               \/ ~Accepts(err) /\ err = "ErrWrongGroup" /\ pc' = "asking" /\ UNCHANGED si
                               \/ ~Accepts(err) /\ err # "ErrWrongGroup" /\ NextServer
                       /\ UNCHANGED <<fails, lateOps, faults>>
<1> DEFINE failed == /\ Fault /\ NextServer
                     /\ fails' = [fails EXCEPT ![ops] = @ + 1]
                     /\ \/ \E err \in Replies(gid, si, op) : Runs(ops, err) /\ UNCHANGED lateOps
                        \/ UNCHANGED runs /\ lateOps' \in {lateOps, lateOps \cup {request}}
<1>1. /\ pc = "serving" /\ (answered \/ failed)
      /\ UNCHANGED <<configs, envVars, ctlVars, op, config, smi, ops, late>>
    BY DEF Serve
<1>2. ops \in Nat /\ ops \in 1 .. ops
    BY <1>1 DEF TypeOK, OpsAccount
<1>3. /\ runs' \in Seq(Nat) /\ Len(runs') = ops
      /\ \A m \in 1 .. ops : m # ops => runs'[m] = runs[m]
    BY <1>1, <1>2, RunsCount DEF TypeOK
<1>4. fails' \in Seq(Nat) /\ Len(fails') = ops /\ \A m \in 1 .. ops : m # ops => fails'[m] = fails[m]
    <2>1. UNCHANGED fails \/ fails' = [fails EXCEPT ![ops] = @ + 1]
        BY <1>1
    <2> HIDE DEF answered, failed
    <2>2. CASE UNCHANGED fails
        BY <1>2, <2>2 DEF TypeOK
    <2>3. CASE fails' = [fails EXCEPT ![ops] = @ + 1]
        BY <1>2, <2>3, Counts DEF TypeOK
    <2> QED
        BY <2>1, <2>2, <2>3
<1>5. pc' \in {"idle", "serving", "asking"} /\ si' \in Servers
    BY <1>1, NextReplica DEF NextServer, TypeOK
<1>6. TypeOK'
    <2> HIDE DEF answered, failed
    <2> QED
        BY <1>1, <1>3, <1>4, <1>5 DEF TypeOK, envVars, ctlVars
<1> SUFFICES OpsAccount'
    BY <1>6
<1>7. \A n \in 1 .. ops :
        /\ runs[n] \in Nat /\ fails[n] \in Nat /\ Cardinality(LateOf(lateOps, n)) \in Nat
        /\ runs'[n] \in Nat /\ fails'[n] \in Nat
    <2> HIDE DEF answered, failed
    <2>1. \A n \in 1 .. ops : runs[n] \in Nat /\ fails[n] \in Nat
        BY <1>2 DEF TypeOK
    <2>2. \A n \in 1 .. ops : runs'[n] \in Nat /\ fails'[n] \in Nat
        BY <1>2, <1>3, <1>4
    <2>3. \A n \in 1 .. ops : Cardinality(LateOf(lateOps, n)) \in Nat
        BY LateCount DEF OpsAccount
    <2> QED
        BY <2>1, <2>2, <2>3
<1>8. CASE answered
    <2>1. PICK err \in Replies(gid, si, op) : Runs(ops, err) /\ (~Accepts(err) \/ pc' = "idle")
        BY <1>8
    <2>2. ~Accepts(err) => err \notin Served
        BY <2>1 DEF Replies, Accepts, Served
    <2>3. runs'[ops] = runs[ops] + (IF err \in Served THEN 1 ELSE 0)
        BY <1>2, <2>1, RunsCount
    <2>4. UNCHANGED <<fails, lateOps, ops>>
        BY <1>1, <1>8
    <2>5. \A n \in 1 .. ops : LateOf(lateOps', n) = LateOf(lateOps, n)
        BY <2>4 DEF LateOf
    <2> HIDE DEF answered, failed
    <2>6. \A n \in 1 .. ops : n = ops => runs'[n] + Open(pc', ops', n) <= runs[n] + Open(pc, ops, n)
        BY <1>1, <1>2, <1>7, <2>1, <2>2, <2>3, <2>4 DEF Open
    <2>7. \A n \in 1 .. ops : n # ops => Open(pc', ops', n) = 0 /\ Open(pc, ops, n) = 0
        BY <2>4 DEF Open
    <2>8. \A n \in 1 .. ops : Open(pc', ops', n) \in Nat /\ Open(pc, ops, n) \in Nat
        BY DEF Open
    <2>9. ASSUME NEW n \in 1 .. ops
          PROVE  runs'[n] + Cardinality(LateOf(lateOps', n)) + Open(pc', ops', n) <= 1 + fails'[n]
        <3>1. runs[n] + Cardinality(LateOf(lateOps, n)) + Open(pc, ops, n) <= 1 + fails[n]
            BY DEF OpsAccount
        <3>2. CASE n = ops
            <4>1. runs'[n] + Open(pc', ops', n) <= runs[n] + Open(pc, ops, n)
                BY <2>6, <3>2
            <4>2. LateOf(lateOps', n) = LateOf(lateOps, n) /\ fails' = fails
                BY <2>4, <2>5
            <4>3. /\ runs[n] \in Nat /\ fails[n] \in Nat /\ Cardinality(LateOf(lateOps, n)) \in Nat
                  /\ runs'[n] \in Nat /\ Open(pc', ops', n) \in Nat /\ Open(pc, ops, n) \in Nat
                BY <1>7, <2>8
            <4> QED
                BY <3>1, <4>1, <4>2, <4>3
        <3>3. CASE n # ops
            BY <1>2, <1>3, <1>7, <2>4, <2>5, <2>7, <3>1, <3>3
        <3> QED
            BY <3>2, <3>3
    <2> QED
        BY <1>2, <2>4, <2>9 DEF OpsAccount
<1>9. CASE failed
    <2>1. fails'[ops] = fails[ops] + 1 /\ pc' # "idle"
        BY <1>2, <1>9, Counts DEF TypeOK, NextServer
    <2>2. UNCHANGED ops
        BY <1>1
    <2>3. \A n \in 1 .. ops : Open(pc', ops', n) = Open(pc, ops, n) /\ Open(pc, ops, n) \in Nat
        BY <1>1, <2>1, <2>2 DEF Open
    <2>4. CASE \E err \in Replies(gid, si, op) : Runs(ops, err) /\ UNCHANGED lateOps
        <3>1. runs'[ops] \in {runs[ops], runs[ops] + 1} /\ UNCHANGED lateOps
            BY <1>2, <1>7, <2>4, RunsCount
        <3>2. \A n \in 1 .. ops : LateOf(lateOps', n) = LateOf(lateOps, n)
            BY <3>1 DEF LateOf
        <3> HIDE DEF answered, failed
        <3>3. ASSUME NEW n \in 1 .. ops
              PROVE  runs'[n] + Cardinality(LateOf(lateOps', n)) + Open(pc', ops', n) <= 1 + fails'[n]
            <4>1. runs[n] + Cardinality(LateOf(lateOps, n)) + Open(pc, ops, n) <= 1 + fails[n]
                BY DEF OpsAccount
            <4>2. CASE n = ops
                BY <1>2, <1>7, <2>1, <2>3, <3>1, <3>2, <4>1, <4>2
            <4>3. CASE n # ops
                BY <1>2, <1>3, <1>4, <1>7, <2>3, <3>2, <4>1, <4>3
            <4> QED
                BY <4>2, <4>3
        <3> QED
            BY <1>2, <2>2, <3>1, <3>3 DEF OpsAccount
    <2>5. CASE UNCHANGED <<runs, lateOps>>
        <3>1. \A n \in 1 .. ops : LateOf(lateOps', n) = LateOf(lateOps, n)
            BY <2>5 DEF LateOf
        <3>2. ASSUME NEW n \in 1 .. ops
              PROVE  runs'[n] + Cardinality(LateOf(lateOps', n)) + Open(pc', ops', n) <= 1 + fails'[n]
            <4>1. runs[n] + Cardinality(LateOf(lateOps, n)) + Open(pc, ops, n) <= 1 + fails[n]
                BY DEF OpsAccount
            <4>2. /\ runs[n] \in Nat /\ fails[n] \in Nat /\ Cardinality(LateOf(lateOps, n)) \in Nat
                  /\ fails'[n] \in Nat /\ Open(pc, ops, n) \in Nat
                BY <1>7, <2>3
            <4>3. fails'[n] >= fails[n]
                BY <1>2, <1>4, <2>1, <4>2
            <4>4. /\ runs' = runs /\ LateOf(lateOps', n) = LateOf(lateOps, n)
                  /\ Open(pc', ops', n) = Open(pc, ops, n)
                BY <2>3, <2>5, <3>1
            <4> QED
                BY <4>1, <4>2, <4>3, <4>4
        <3> QED
            BY <1>2, <2>2, <2>5, <3>2 DEF OpsAccount
    <2>6. CASE UNCHANGED runs /\ lateOps' = lateOps \cup {request}
        <3>1. request.n = ops
            OBVIOUS
        <3> HIDE DEF request, answered, failed
        <3>2. /\ IsFiniteSet(lateOps')
              /\ \A n \in 1 .. ops :
                   /\ Cardinality(LateOf(lateOps', n)) \in Nat
                   /\ Cardinality(LateOf(lateOps', n)) <= Cardinality(LateOf(lateOps, n)) + (IF request.n = n THEN 1 ELSE 0)
            BY <2>6, LateCount DEF OpsAccount
        <3>3. ASSUME NEW n \in 1 .. ops
              PROVE  runs'[n] + Cardinality(LateOf(lateOps', n)) + Open(pc', ops', n) <= 1 + fails'[n]
            <4>1. runs[n] + Cardinality(LateOf(lateOps, n)) + Open(pc, ops, n) <= 1 + fails[n]
                BY DEF OpsAccount
            <4>2. /\ runs[n] \in Nat /\ fails[n] \in Nat /\ Cardinality(LateOf(lateOps, n)) \in Nat
                  /\ fails'[n] \in Nat /\ Open(pc, ops, n) \in Nat
                  /\ Cardinality(LateOf(lateOps', n)) \in Nat
                BY <1>7, <2>3, <3>2
            <4>3. Cardinality(LateOf(lateOps', n)) <= Cardinality(LateOf(lateOps, n)) + (IF ops = n THEN 1 ELSE 0)
                BY <3>1, <3>2
            <4>4. fails'[n] = fails[n] + (IF ops = n THEN 1 ELSE 0)
                BY <1>2, <1>4, <2>1, <4>2
            <4>5. runs' = runs /\ Open(pc', ops', n) = Open(pc, ops, n)
                BY <2>3, <2>6
            <4> QED
                BY <4>1, <4>2, <4>3, <4>4, <4>5
        <3>4. \A q \in lateOps' : q.n \in 1 .. ops
            BY <1>2, <2>6, <3>1 DEF OpsAccount
        <3> QED
            BY <1>2, <2>2, <3>2, <3>3, <3>4 DEF OpsAccount
    <2> QED
        BY <1>9, <2>4, <2>5, <2>6
<1> QED
    BY <1>1, <1>8, <1>9

\* The other steps of the shardkv clerk.
LEMMA ClerkStep ==
    ASSUME Inv, Clerks \/ \E k \in Keys : Start("Get", k) \/ Start("PutAppend", k)
    PROVE  Inv'
<1> USE DEF Inv
<1>1. ASSUME NEW k \in Keys, NEW kind, Start(kind, k) PROVE Inv'
    <2>1. /\ pc = "idle" /\ ops' = ops + 1 /\ LoopHead(config, k)
          /\ runs' = Append(runs, 0) /\ fails' = Append(fails, 0)
          /\ op' = [kind |-> kind, key |-> k]
          /\ UNCHANGED <<configs, envVars, ctlVars, late, lateOps, faults>>
        BY <1>1 DEF Start
    <2>2. /\ runs' \in Seq(Nat) /\ Len(runs') = ops' /\ runs'[ops'] = 0
          /\ fails' \in Seq(Nat) /\ Len(fails') = ops' /\ fails'[ops'] = 0
          /\ ops \in Nat /\ ops' \in Nat
          /\ \A n \in 1 .. ops : runs'[n] = runs[n] /\ fails'[n] = fails[n]
        BY <2>1 DEF TypeOK
    <2>3. TypeOK'
        BY <2>1, <2>2, NextReplica DEF TypeOK, LoopHead, envVars, ctlVars
    <2>4. Requested' /\ CtlAccount'
        BY <2>1 DEF Requested, CtlAccount, ctlVars
    <2>5. LateOf(lateOps, ops') = {}
        BY <2>1, <2>2 DEF OpsAccount, LateOf
    <2>6. Cardinality(LateOf(lateOps, ops')) = 0
        BY <2>5, FS_EmptySet
    <2>7. ASSUME NEW n \in 1 .. ops'
          PROVE  runs'[n] + Cardinality(LateOf(lateOps, n)) + Open(pc', ops', n) <= 1 + fails'[n]
        <3>1. CASE n = ops'
            BY <2>2, <2>6, <3>1 DEF Open
        <3>2. CASE n # ops'
            <4>1. n \in 1 .. ops /\ n # ops'
                BY <2>1, <2>2, <3>2
            <4>2. Open(pc', ops', n) = 0 /\ Open(pc, ops, n) = 0
                BY <2>1, <4>1 DEF Open
            <4>3. runs[n] + Cardinality(LateOf(lateOps, n)) + Open(pc, ops, n) <= 1 + fails[n]
                BY <4>1 DEF OpsAccount
            <4> QED
                BY <2>2, <4>1, <4>2, <4>3
        <3> QED
            BY <3>1, <3>2
    <2>8. OpsAccount'
        <3>1. IsFiniteSet(lateOps') /\ \A q \in lateOps' : q.n \in 1 .. ops'
            BY <2>1, <2>2 DEF OpsAccount
        <3>2. ops' \in 1 .. ops'
            BY <2>1, <2>2
        <3>3. lateOps' = lateOps
            BY <2>1
        <3> QED
            BY <2>7, <3>1, <3>2, <3>3 DEF OpsAccount
    <2> QED
        BY <2>3, <2>4, <2>8
<1>2. CASE Serve
    <2>1. UNCHANGED <<configs, ctlVars, late>>
        BY <1>2 DEF Serve
    <2>2. Requested' /\ CtlAccount'
        BY <2>1 DEF Requested, CtlAccount, ctlVars
    <2> QED
        BY <1>2, <2>2, ServeStep
<1>3. CASE Query
    <2>1. /\ pc = "asking" /\ UNCHANGED <<configs, envVars, ctlVars, kvVars, op, fails, ops, late>>
          /\ \/ LoopHead(Latest, op.key)
             \/ smi' = (smi + 1) % Replicas /\ UNCHANGED <<pc, config, si>>
        BY <1>3 DEF Query, Queried
    <2>2. TypeOK'
        <3>1. CASE LoopHead(Latest, op.key)
            <4>1. \E n \in 1 .. Len(configs) : Latest = configs[n]
                BY DEF Latest, TypeOK
            <4> QED
                BY <2>1, <3>1, <4>1, NextReplica DEF LoopHead, TypeOK, envVars, ctlVars, kvVars
        <3> QED
            BY <2>1, <3>1, NextReplica DEF TypeOK, envVars, ctlVars, kvVars
    <2>3. Requested' /\ CtlAccount'
        BY <2>1 DEF Requested, CtlAccount, ctlVars
    <2>4. OpsAccount'
        <3>1. pc # "idle" /\ pc' # "idle" /\ UNCHANGED <<runs, lateOps, fails, ops>>
            BY <2>1 DEF LoopHead, kvVars
        <3>2. \A n : Open(pc', ops', n) = Open(pc, ops, n)
            BY <3>1 DEF Open
        <3> QED
            BY <3>1, <3>2 DEF OpsAccount
    <2> QED
        BY <2>2, <2>3, <2>4
<1> QED
    BY <1>1, <1>2, <1>3 DEF Clerks

\* A late request to a group runs: it is in the account already.
LEMMA LateServesStep ==
    ASSUME Inv, NEW q \in lateOps, LateServes(q)
    PROVE  Inv'
<1> USE DEF Inv
<1>1. PICK err : Runs(q.n, err)
    BY DEF LateServes
<1>2. lateOps' = lateOps \ {q} /\ UNCHANGED <<configs, envVars, ckVars, ctlVars, late, faults>>
    BY DEF LateServes
<1>3. q.n \in 1 .. ops /\ UNCHANGED <<ops, fails, pc>>
    BY <1>2 DEF OpsAccount, ckVars
<1>4. /\ runs' \in Seq(Nat) /\ Len(runs') = ops
      /\ runs'[q.n] = runs[q.n] + (IF err \in Served THEN 1 ELSE 0)
      /\ \A m \in 1 .. ops : m # q.n => runs'[m] = runs[m]
    BY <1>1, <1>3, RunsCount
<1>5. TypeOK' /\ Requested' /\ CtlAccount'
    BY <1>2, <1>4 DEF TypeOK, Requested, CtlAccount, envVars, ckVars, ctlVars
<1>6. ASSUME NEW n \in 1 .. ops
      PROVE  runs'[n] + Cardinality(LateOf(lateOps', n)) + Open(pc', ops', n) <= 1 + fails'[n]
    <2>1. runs[n] + Cardinality(LateOf(lateOps, n)) + Open(pc, ops, n) <= 1 + fails[n]
        BY DEF OpsAccount
    <2>2. /\ Cardinality(LateOf(lateOps, n)) \in Nat
          /\ Cardinality(LateOf(lateOps', n)) = Cardinality(LateOf(lateOps, n)) - (IF q.n = n THEN 1 ELSE 0)
        BY <1>2, LateCount DEF OpsAccount
    <2>3. runs[n] \in Nat /\ fails[n] \in Nat /\ fails'[n] = fails[n]
        BY <1>3 DEF TypeOK
    <2>4. Open(pc', ops', n) = Open(pc, ops, n) /\ Open(pc, ops, n) \in Nat
        BY <1>3 DEF Open
    <2>5. runs'[n] \in Nat /\ runs'[n] <= runs[n] + (IF q.n = n THEN 1 ELSE 0)
        BY <1>4, <2>3
    <2> QED
        BY <2>1, <2>2, <2>3, <2>4, <2>5
<1>7. IsFiniteSet(lateOps') /\ \A p \in lateOps' : p.n \in 1 .. ops
    BY <1>2, LateCount DEF OpsAccount
<1>8. OpsAccount'
    BY <1>3, <1>6, <1>7 DEF OpsAccount
<1> QED
    BY <1>5, <1>8

\* The steps of the other clerk, and of its late requests, leave the first one alone.
LEMMA ControllerKeeps ==
    ASSUME OpsAccount, UNCHANGED <<ckVars, kvVars>>
    PROVE  OpsAccount'
BY DEF OpsAccount, ckVars, kvVars

LEMMA CtlCallStep ==
    ASSUME Inv, CtlCall
    PROVE  Inv'
<1> USE DEF Inv
<1> DEFINE request == [replica |-> cmi, op |-> ctlOp, call |-> faults]
<1> DEFINE answered == /\ MasterRuns(cmi, ctlOp)
                       /\ \/ RightLeader(cmi) /\ ctl' = "idle" /\ UNCHANGED cmi
                          \/ ~RightLeader(cmi) /\ NextMaster
                       /\ UNCHANGED <<ctlFails, late, faults>>
<1> DEFINE failed == /\ Fault /\ NextMaster
                     /\ ctlFails' = ctlFails + 1
                     /\ \/ MasterRuns(cmi, ctlOp) /\ UNCHANGED late
                        \/ UNCHANGED configs /\ late' \in {late, late \cup {request}}
<1>1. /\ ctl = "asking" /\ (answered \/ failed)
      /\ UNCHANGED <<envVars, ckVars, kvVars, ctlOp, asked>>
    BY DEF CtlCall
<1>2. ctlOp \in Requests /\ Configs
    BY <1>1 DEF Requested, TypeOK, Configs
<1>3. /\ Configs' /\ Len(configs') = Len(configs) + (IF UNCHANGED configs THEN 0 ELSE 1)
      /\ UNCHANGED configs \/ (MasterRuns(cmi, ctlOp) /\ cmi = mleader)
    <2>1. UNCHANGED <<seen, config>>
        BY <1>1 DEF envVars, ckVars
    <2>2. CASE UNCHANGED configs
        BY <1>2, <2>1, <2>2 DEF Configs
    <2>3. CASE MasterRuns(cmi, ctlOp)
        BY <1>2, <2>1, <2>3, MasterKeeps
    <2> QED
        BY <1>1, <2>2, <2>3
<1>4. ctl' \in {"idle", "asking"} /\ cmi' \in Servers /\ ctlFails' \in Nat
    BY <1>1, NextReplica DEF NextMaster, TypeOK
<1>5. TypeOK'
    <2> HIDE DEF answered, failed
    <2> QED
        BY <1>1, <1>3, <1>4 DEF TypeOK, Configs, envVars, ckVars, kvVars
<1>6. IsFiniteSet(late) /\ Cardinality(late) \in Nat
    BY FS_CardinalityType DEF CtlAccount
<1>7. late' \in {late, late \cup {request}} /\ request.op = ctlOp
    BY <1>1
<1>8. Requested'
    <2> HIDE DEF answered, failed, request
    <2> QED
        BY <1>1, <1>2, <1>7 DEF Requested
<1>9. IsFiniteSet(late') /\ Cardinality(late') \in {Cardinality(late), Cardinality(late) + 1}
    <2> HIDE DEF request
    <2> QED
        BY <1>6, <1>7, FS_AddElement
<1>10. CtlAccount'
    <2>1. Len(configs) \in Nat /\ asked \in Nat /\ ctlFails \in Nat
        BY DEF TypeOK
    <2>2. Len(configs) - 1 + Cardinality(late) + 1 <= asked + ctlFails
        BY <1>1 DEF CtlAccount
    <2>3. CASE answered
        <3>1. late' = late /\ ctlFails' = ctlFails /\ asked' = asked
            BY <1>1, <2>3
        <3>2. ctl' = "idle" \/ UNCHANGED configs
            BY <1>3, <2>3 DEF RightLeader
        <3> HIDE DEF answered, failed
        <3>3. Len(configs') - 1 + Cardinality(late') + (IF ctl' = "asking" THEN 1 ELSE 0)
                <= asked' + ctlFails'
            BY <1>3, <1>6, <2>1, <2>2, <3>1, <3>2
        <3> QED
            BY <1>9, <3>3 DEF CtlAccount
    <2>4. CASE failed
        <3>1. /\ ctlFails' = ctlFails + 1 /\ asked' = asked
              /\ late' = late \/ UNCHANGED configs
            BY <1>1, <2>4
        <3> HIDE DEF answered, failed
        <3>2. Len(configs') - 1 + Cardinality(late') + (IF ctl' = "asking" THEN 1 ELSE 0)
                <= asked' + ctlFails'
            BY <1>3, <1>6, <1>9, <2>1, <2>2, <3>1
        <3> QED
            BY <1>9, <3>2 DEF CtlAccount
    <2> QED
        BY <1>1, <2>3, <2>4
<1> QED
    BY <1>1, <1>5, <1>8, <1>10, ControllerKeeps

LEMMA ControllerStep ==
    ASSUME Inv,
           \/ \E g \in Gids : Join(g) \/ Leave(g)
           \/ \E g \in Gids, s \in Shards : Move(s, g)
           \/ CtlCall \/ \E q \in late : LateRuns(q)
    PROVE  Inv'
<1> USE DEF Inv
<1>1. ASSUME NEW q \in Requests, Ask(q) PROVE Inv'
    <2>1. /\ ctl = "idle" /\ ctl' = "asking" /\ ctlOp' = q /\ cmi' = 0 /\ asked' = asked + 1
          /\ UNCHANGED <<configs, envVars, ckVars, kvVars, ctlFails, late, faults>>
        BY <1>1 DEF Ask
    <2>2. TypeOK' /\ Requested'
        <3>0. 0 \in Servers
            BY ReplicasAssumption DEF Servers
        <3>1. asked' \in Nat
            BY <2>1 DEF TypeOK
        <3>2. TypeOK'
            BY <2>1, <3>0, <3>1 DEF TypeOK, envVars, ckVars, kvVars
        <3> QED
            BY <2>1, <3>2 DEF Requested
    <2>3. CtlAccount'
        <3>1. Cardinality(late) \in Nat /\ Len(configs) \in Nat /\ asked \in Nat /\ ctlFails \in Nat
            BY FS_CardinalityType DEF CtlAccount, TypeOK
        <3> QED
            BY <2>1, <3>1 DEF CtlAccount
    <2> QED
        BY <2>1, <2>2, <2>3, ControllerKeeps
<1>2. ASSUME NEW q \in late, LateRuns(q) PROVE Inv'
    <2>1. /\ late' = late \ {q} /\ MasterRuns(q.replica, q.op)
          /\ UNCHANGED <<envVars, ckVars, kvVars, ctlVars, faults>>
        BY <1>2 DEF LateRuns
    <2>2. Configs' /\ Len(configs') \in {Len(configs), Len(configs) + 1}
        <3>1. q.op \in Requests /\ Configs /\ UNCHANGED <<seen, config>>
            BY <2>1 DEF Requested, Configs, TypeOK, envVars, ckVars
        <3> QED
            BY <2>1, <3>1, MasterKeeps
    <2>3. TypeOK' /\ Requested'
        BY <2>1, <2>2 DEF TypeOK, Requested, Configs, envVars, ckVars, kvVars, ctlVars
    <2>4. /\ IsFiniteSet(late') /\ Cardinality(late') = Cardinality(late) - 1
          /\ Cardinality(late) \in Nat /\ Cardinality(late') \in Nat
        BY <2>1, FS_RemoveElement, FS_CardinalityType DEF CtlAccount
    <2>5. CtlAccount'
        <3>1. Len(configs) \in Nat /\ asked \in Nat /\ ctlFails \in Nat
            BY DEF TypeOK
        <3>2. UNCHANGED <<ctl, asked, ctlFails>>
            BY <2>1 DEF ctlVars
        <3> QED
            BY <2>2, <2>4, <3>1, <3>2 DEF CtlAccount
    <2> QED
        BY <2>1, <2>3, <2>5, ControllerKeeps
<1>3. \A g \in Gids, s \in Shards :
        /\ Join(g) => Ask([kind |-> "Join", gid |-> g, shard |-> 0])
        /\ Leave(g) => Ask([kind |-> "Leave", gid |-> g, shard |-> 0])
        /\ Move(s, g) => Ask([kind |-> "Move", gid |-> g, shard |-> s])
    BY ZenonT(60) DEF Join, Leave, Move
<1>4. \A g \in Gids, s \in Shards, k \in {"Join", "Leave", "Move"} :
        [kind |-> k, gid |-> g, shard |-> s] \in Requests
    BY DEF Requests
<1>5. 0 \in Shards
    BY NShardsAssumption DEF Shards
<1> QED
    BY <1>1, <1>2, <1>3, <1>4, <1>5, CtlCallStep

\* The steps of the servers.
LEMMA ServerStep ==
    ASSUME Inv, Elects \/ \E g \in Gids : GroupLearns(g)
    PROVE  Inv'
<1>1. UNCHANGED <<configs, ckVars, kvVars, ctlVars, late, faults>>
    BY DEF Elects, GroupLearns
<1>2. OpsAccount' /\ Requested' /\ CtlAccount'
    BY <1>1, ControllerKeeps DEF Inv, Requested, CtlAccount, ctlVars
<1>3. seen' \in [Gids -> 1 .. Len(configs)] /\ mleader' \in Servers /\ gleader' \in [Gids -> Servers]
    <2>1. CASE Elects
        BY <2>1 DEF Elects, Inv, TypeOK
    <2>2. ASSUME NEW g \in Gids, GroupLearns(g)
          PROVE  seen' \in [Gids -> 1 .. Len(configs)] /\ UNCHANGED <<mleader, gleader>>
        BY <2>2 DEF GroupLearns, Inv, TypeOK
    <2> QED
        BY <2>1, <2>2 DEF Inv, TypeOK
<1>4. TypeOK'
    BY <1>1, <1>3 DEF Inv, TypeOK, ckVars, kvVars, ctlVars
<1> QED
    BY <1>2, <1>4 DEF Inv

LEMMA InvStep == Inv /\ [Next]_vars => Inv'
<1> SUFFICES ASSUME Inv, [Next]_vars PROVE Inv'
    OBVIOUS
<1>1. CASE UNCHANGED vars
    BY <1>1, ControllerKeeps
       DEF Inv, TypeOK, Requested, CtlAccount, vars, envVars, ckVars, kvVars, ctlVars
<1> QED
    BY <1>1, ClerkStep, LateServesStep, ControllerStep, ServerStep DEF Next

\* shardkv/client.go:69-90: the clerks' variables keep their types; in particular
\* a clerk only tries servers of a group that its own configuration has, however
\* its configuration and the shardmaster's drift apart.
THEOREM TypeCorrect == Spec => []TypeOK
<1>1. Inv => TypeOK
    BY DEF Inv
<1> QED
    BY <1>1, InitInv, InvStep, PTL DEF Spec

\* shardkv/client.go:117-120 and shardmaster/client.go:58: for any number of groups,
\* replicas, keys, operations and faults, only a failed call makes an operation run
\* once more: changes of leader, of group and of configuration, replies
\* ErrWrongGroup and ErrWrongLeader, and requests that run long after their calls
\* failed never do.
THEOREM RetriesOnly == Spec => []OncePerFailure
<1>1. Inv => OncePerFailure
    <2> SUFFICES ASSUME Inv PROVE OncePerFailure
        OBVIOUS
    <2>1. ASSUME NEW n \in 1 .. ops PROVE runs[n] <= 1 + fails[n]
        <3>1. runs[n] + Cardinality(LateOf(lateOps, n)) + Open(pc, ops, n) <= 1 + fails[n]
            BY DEF Inv, OpsAccount
        <3>2. /\ runs[n] \in Nat /\ fails[n] \in Nat /\ Open(pc, ops, n) \in Nat
              /\ Cardinality(LateOf(lateOps, n)) \in Nat
            <4>1. Cardinality(LateOf(lateOps, n)) \in Nat
                BY LateCount DEF Inv, OpsAccount
            <4>2. runs[n] \in Nat /\ fails[n] \in Nat
                BY DEF Inv, TypeOK
            <4> QED
                BY <4>1, <4>2 DEF Open
        <3> QED
            BY <3>1, <3>2
    <2>2. Len(configs) - 1 <= asked + ctlFails
        <3>1. /\ Len(configs) \in Nat /\ asked \in Nat /\ ctlFails \in Nat
              /\ Cardinality(late) \in Nat
            BY FS_CardinalityType DEF Inv, TypeOK, CtlAccount
        <3> QED
            BY <3>1 DEF Inv, CtlAccount
    <2> QED
        BY <2>1, <2>2 DEF OncePerFailure
<1> QED
    BY <1>1, InitInv, InvStep, PTL DEF Spec
=============================================================================
