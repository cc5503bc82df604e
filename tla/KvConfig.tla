------------------------------ MODULE KvConfig ------------------------------
(***************************************************************************)
(* kvraft/config.go: the harness that starts, shuts down and partitions    *)
(* the servers of a kvraft test, on top of labrpc (module LabRpc) and of   *)
(* the persisters (raft/persister.go).  The servers themselves are stubs   *)
(* in the repository: a handler is known here only by what it does to the  *)
(* Persister its server was started with.                                  *)
(*                                                                         *)
(* One step is one call of the network or of a persister; `pc` says where  *)
(* ShutdownServer() or StartServer() is, and with it who holds cfg.mu.     *)
(***************************************************************************)
EXTENDS Integers, FiniteSets, Functions

CONSTANTS
  N,          \* cfg.n
  Clerks,     \* the clerks a test makes
  Calls,      \* RPCs
  None,       \* Go's nil
  MaxGen      \* bound: how often a server is started

Servers == 0 .. N - 1
Gens == 1 .. MaxGen

\* Names are random strings; here they tell who made the end, and for whom.
ServerEnd(i, g, j) == <<"server", i, g, j>>
ClerkEnd(k, j) == <<"clerk", k, 0, j>>
KvEnds == {ServerEnd(i, g, j) : i \in Servers, g \in Gens, j \in Servers}
            \cup {ClerkEnd(k, j) : k \in Clerks, j \in Servers}

\* *labrpc.Server objects, one for each start of a server.
Objects == Servers \X Gens

\* A Persister object: the incarnation of the server it was made for, and
\* whether StartServer() or the ShutdownServer() before it made it.
Persisters == Servers \X Gens \X {"start", "shutdown"}

VARIABLES
  made, enabled, connections, servers, reliable, closed, looping, added,
  end, client, proc, info, handler, drain, runs,
  gen,        \* gen[i]: which names cfg.endnames[i] holds, 0 before the first start
  saved,      \* cfg.saved: the current Persister of each server, or None
  disk,       \* disk[p]: the calls whose effect Persister p holds
  kvservers,  \* cfg.kvservers: the running server (with its Server object) or None
  store,      \* store[rs]: the Persister the server behind object rs writes to
  clerks,     \* cfg.clerks
  pc,         \* where ShutdownServer() or StartServer() is
  target,     \* the server it works on
  groups      \* the partition asked for last, or None

Net == INSTANCE LabRpc WITH Ends <- KvEnds, ServerNames <- Servers, Objects <- Objects

netVars == <<made, enabled, connections, servers, reliable, closed, looping, added>>
callVars == <<end, client, proc, info, handler, drain, runs>>
cfgVars == <<gen, saved, disk, kvservers, store, clerks, pc, target, groups>>
vars == <<netVars, callVars, cfgVars>>

Init ==
  /\ Net!Init
  /\ gen = [i \in Servers |-> 0]
  /\ saved = [i \in Servers |-> None]
  /\ disk = [p \in Persisters |-> {}]
  /\ kvservers = [i \in Servers |-> None]
  /\ store = [rs \in Objects |-> None]
  /\ clerks = {}
  /\ pc = "idle"
  /\ target = 0
  /\ groups = None

-----------------------------------------------------------------------------
(* Connectivity. *)

\* Assumed of the tests, as test_test.go:240-258 and 390-408 use the harness: none
\* changes the network of the servers while one of them is down.  Nothing in
\* config.go:123-186 prevents it, and OldInstanceIsolated rests on it.
AllUp == pc = "idle" /\ ~closed /\ \A i \in Servers : kvservers[i] # None

\* The ends between i and the servers of S, both ways.
Links(i, S) ==
  {ServerEnd(i, gen[i], j) : j \in S} \cup {ServerEnd(j, gen[j], i) : j \in S}

\* connectUnlocked(i, to) and disconnectUnlocked(i, from), on the set of
\* enabled ends.
connectUnlocked(on, i, to) == on \cup Links(i, to)
disconnectUnlocked(on, i, from) == on \ Links(i, from)

On == {e \in KvEnds : enabled[e]}

\* The net.Enable() calls that leave the ends of `on` enabled and no others.
SetEnabled(on) ==
  /\ enabled' = [e \in KvEnds |-> e \in on]
  /\ UNCHANGED <<made, connections, servers, reliable, closed, looping, added, callVars>>

ConnectAll ==
  /\ AllUp
  /\ SetEnabled(On \cup UNION {Links(i, Servers) : i \in Servers})
  /\ groups' = None
  /\ UNCHANGED <<gen, saved, disk, kvservers, store, clerks, pc, target>>

connect(i, to) ==
  /\ AllUp
  /\ SetEnabled(connectUnlocked(On, i, to))
  /\ groups' = None
  /\ UNCHANGED <<gen, saved, disk, kvservers, store, clerks, pc, target>>

disconnect(i, from) ==
  /\ AllUp
  /\ SetEnabled(disconnectUnlocked(On, i, from))
  /\ UNCHANGED <<gen, saved, disk, kvservers, store, clerks, pc, target, groups>>

\* A mutation: the other group is not disconnected.
RegroupKeeps(on, p, q) == on \cup UNION {Links(p[x], Range(p)) : x \in DOMAIN p}

\* One of the two loops of partition(), which for each server of p in turn
\* disconnects it from q and connects it to p: in the end those ends are enabled
\* that were, or were connected, and have not been disconnected since.
Regroup(on, p, q) ==
  LET Off(e, x) == e \in Links(p[x], Range(q))
  IN {e \in on : \A x \in DOMAIN p : ~Off(e, x)} \cup
     UNION {{e \in Links(p[x], Range(p)) : \A y \in DOMAIN p : y > x => ~Off(e, y)} :
              x \in DOMAIN p}

partition(p1, p2, leader) ==
  /\ AllUp
  /\ SetEnabled(Regroup(Regroup(On, p1, p2), p2, p1))
  /\ groups' = [p1 |-> Range(p1), p2 |-> Range(p2), leader |-> leader]
  /\ UNCHANGED <<gen, saved, disk, kvservers, store, clerks, pc, target>>

Ascending(S) ==
  {p \in [1 .. Cardinality(S) -> S] :
     Range(p) = S /\ \A x, y \in DOMAIN p : x < y => p[x] < p[y]}

\* repartition() of the tests: any split of the servers into two groups.
AnyPartition ==
  \E S \in SUBSET Servers : \E p1 \in Ascending(S), p2 \in Ascending(Servers \ S) :
    partition(p1, p2, None)

\* A mutation: "if i != l" is missing.
EveryServer(l, j) == j

\* The j-th server that is not l, from 0.
Other(l, j) == IF j < l THEN j ELSE j + 1

\* make_partition() for a leader l: p1 has n/2+1 places and p2 n/2, which
\* hold 0 until they are filled; the last place of p2 is l's.
Majority == N \div 2 + 1
MakeP1(l) == [x \in 1 .. Majority |-> IF x <= N - 1 THEN Other(l, x - 1) ELSE 0]
MakeP2(l) == [x \in 1 .. N \div 2 |->
  IF x = N \div 2 THEN l
  ELSE IF Majority + x <= N - 1 THEN Other(l, Majority + x - 1) ELSE 0]

\* Leader() returns some server that leads, or server 0 when none does.
make_partition == \E l \in Servers : N > 1 /\ partition(MakeP1(l), MakeP2(l), l)

-----------------------------------------------------------------------------
(* Clerks. *)

MuFree == pc \in {"idle", "killing", "starting", "adding"} /\ ~closed

ClerkEnds(k, S) == {ClerkEnd(k, j) : j \in S}

makeClient(k, to) ==
  /\ MuFree
  /\ ClerkEnds(k, Servers) \cap made = {}
  /\ made' = made \cup ClerkEnds(k, Servers)
  /\ connections' = [e \in KvEnds |-> IF e \in ClerkEnds(k, Servers) THEN e[4] ELSE connections[e]]
  /\ enabled' = [e \in KvEnds |-> e \in ClerkEnds(k, to) \/ enabled[e]]
  /\ clerks' = clerks \cup {k}
  /\ UNCHANGED <<servers, reliable, closed, looping, added, callVars>>
  /\ UNCHANGED <<gen, saved, disk, kvservers, store, pc, target, groups>>

ConnectClient(k, S, yes) ==
  /\ MuFree
  /\ k \in clerks
  /\ Net!Enable(ClerkEnds(k, S), yes)
  /\ UNCHANGED cfgVars

\* The ends stay what they are; os.Remove() finds no file of their name.
deleteClient(k) ==
  /\ MuFree
  /\ k \in clerks
  /\ clerks' = clerks \ {k}
  /\ UNCHANGED <<netVars, callVars, gen, saved, disk, kvservers, store, pc, target, groups>>

-----------------------------------------------------------------------------
(* ShutdownServer(i). *)

At(step, next) == pc = step /\ pc' = next /\ UNCHANGED target

\* A mutation: the server is not disconnected.
ShutdownLeavesEnds(i) ==
  /\ pc = "idle" /\ ~closed
  /\ kvservers[i] # None
  /\ pc' = "deleting"
  /\ target' = i
  /\ UNCHANGED <<netVars, callVars, gen, saved, disk, kvservers, store, clerks, groups>>

ShutdownServer(i) ==
  /\ pc = "idle" /\ ~closed
  /\ kvservers[i] # None
  /\ SetEnabled(disconnectUnlocked(On, i, Servers))
  /\ pc' = "deleting"
  /\ target' = i
  /\ UNCHANGED <<gen, saved, disk, kvservers, store, clerks, groups>>

ShutdownDeletes ==
  /\ At("deleting", "copying")
  /\ Net!DeleteServer(target)
  /\ UNCHANGED <<gen, saved, disk, kvservers, store, clerks, groups>>

\* A mutation: no MakePersister() for the first start.
CopyIfAny(i, p) ==
  IF saved[i] = None THEN UNCHANGED <<disk, saved>>
  ELSE disk' = [disk EXCEPT ![p] = disk[saved[i]]] /\ saved' = [saved EXCEPT ![i] = p]

\* saved[i] = saved[i].Copy(), or MakePersister(): into the Persister p.
CopyPersister(i, p) ==
  /\ disk' = [disk EXCEPT ![p] = IF saved[i] = None THEN {} ELSE disk[saved[i]]]
  /\ saved' = [saved EXCEPT ![i] = p]

ShutdownCopies ==
  /\ At("copying", "killing")
  /\ CopyPersister(target, <<target, gen[target], "shutdown">>)
  /\ UNCHANGED <<netVars, callVars, gen, kvservers, store, clerks, groups>>

\* Kill() runs without cfg.mu; the server may go on for a while after it.
ShutdownEnds ==
  /\ At("killing", "idle")
  /\ kvservers' = [kvservers EXCEPT ![target] = None]
  /\ UNCHANGED <<netVars, callVars, gen, saved, disk, store, clerks, groups>>

-----------------------------------------------------------------------------
(* StartServer(i). *)

\* make_config() starts them in order; afterwards any that was shut down.
StartServer(i) ==
  /\ pc = "idle" /\ ~closed
  /\ kvservers[i] = None
  /\ \A j \in Servers : j < i => gen[j] > 0
  /\ gen[i] < MaxGen
  /\ LET g == gen[i] + 1
         fresh == {ServerEnd(i, g, j) : j \in Servers}
     IN /\ gen' = [gen EXCEPT ![i] = g]
        /\ made' = made \cup fresh
        /\ connections' = [e \in KvEnds |-> IF e \in fresh THEN e[4] ELSE connections[e]]
        /\ enabled' = [e \in KvEnds |-> enabled[e] /\ e \notin fresh]
        /\ CopyPersister(i, <<i, g, "start">>)
  /\ pc' = "starting"
  /\ target' = i
  /\ UNCHANGED <<servers, reliable, closed, looping, added, callVars>>
  /\ UNCHANGED <<kvservers, store, clerks, groups>>

\* StartKVServer() is given cfg.saved[i], read without cfg.mu.
StartKVServer ==
  /\ At("starting", "adding")
  /\ LET rs == <<target, gen[target]>> IN
       /\ kvservers' = [kvservers EXCEPT ![target] = rs]
       /\ store' = [store EXCEPT ![rs] = saved[target]]
  /\ UNCHANGED <<netVars, callVars, gen, saved, disk, clerks, groups>>

StartEnds ==
  /\ At("adding", "idle")
  /\ Net!AddServer(target, kvservers[target])
  /\ UNCHANGED <<gen, saved, disk, kvservers, store, clerks, groups>>

\* The end of make_config().
SetReliable(yes) ==
  /\ AllUp
  /\ clerks = {}
  /\ Net!Reliable(yes)
  /\ UNCHANGED cfgVars

cleanup ==
  /\ pc = "idle"
  /\ Net!Cleanup
  /\ UNCHANGED cfgVars

-----------------------------------------------------------------------------
(* The rest of the system. *)

\* A handler returns; what it did is in the Persister of its server.
Handles(c) ==
  /\ Net!MethodReturns(c)
  /\ disk' = [disk EXCEPT ![store[info[c].server]] = @ \cup {c}]
  /\ UNCHANGED <<gen, saved, kvservers, store, clerks, pc, target, groups>>

Restarts ==
  \/ \E i \in Servers : ShutdownServer(i) \/ StartServer(i)
  \/ ShutdownDeletes \/ ShutdownCopies \/ ShutdownEnds
  \/ StartKVServer \/ StartEnds
  \/ \E yes \in BOOLEAN : SetReliable(yes)
  \/ cleanup

Connects ==
  \/ ConnectAll \/ AnyPartition \/ make_partition
  \/ \E i \in Servers, S \in SUBSET Servers : connect(i, S) \/ disconnect(i, S)
  \/ \E k \in Clerks, S \in SUBSET Servers :
       makeClient(k, S) \/ \E yes \in BOOLEAN : ConnectClient(k, S, yes)
  \/ \E k \in Clerks : deleteClient(k)

\* Server instances, killed ones too, and clerks may call at any time.
Works ==
  \/ \E c \in Calls, e \in made : Net!Call(c, e) /\ UNCHANGED cfgVars
  \/ \E c \in Calls : Handles(c) \/ (Net!Network(c) /\ UNCHANGED cfgVars)
  \/ Net!LoopEnds /\ UNCHANGED cfgVars

Next == Restarts \/ Connects \/ Works

Spec == Init /\ [][Next]_vars

-----------------------------------------------------------------------------
(* Properties. *)

\* The variables have their types, and no server runs without a Persister.
TypeOK ==
  /\ Net!TypeOK
  /\ gen \in [Servers -> 0 .. MaxGen]
  /\ saved \in [Servers -> Persisters \cup {None}]
  /\ disk \in [Persisters -> SUBSET Calls]
  /\ kvservers \in [Servers -> Objects \cup {None}]
  /\ store \in [Objects -> Persisters \cup {None}]
  /\ clerks \subseteq Clerks
  /\ pc \in {"idle", "deleting", "copying", "killing", "starting", "adding"}
  /\ target \in Servers
  /\ \A i \in Servers : kvservers[i] # None => store[kvservers[i]] # None

\* kvraft/config.go:261-266: no call returns true whose effect is only in a
\* superseded Persister: the Persister the next instance will get has it.
AckedIsSaved == \A c \in Calls :
  client[c] = "ok" => c \in disk[saved[info[c].servername]]

\* kvraft/config.go:254, 290: the ends of an instance that was shut down stay
\* disabled, also after its successor was started and connected.
OldInstanceIsolated == \A i \in Servers, j \in Servers, g \in Gens :
  g < gen[i] \/ (g = gen[i] /\ kvservers[i] = None) => ~enabled[ServerEnd(i, g, j)]

Linked(i, j) == enabled[ServerEnd(i, gen[i], j)]

\* kvraft/config.go:173: links are two-way and, since a partition was set up,
\* join no two servers of different groups, restarts notwithstanding.
LinksFollowGroups == \A i, j \in Servers :
  gen[i] > 0 /\ gen[j] > 0 =>
    /\ Linked(i, j) <=> Linked(j, i)
    /\ groups # None /\ Linked(i, j) =>
         \/ {i, j} \subseteq groups.p1
         \/ {i, j} \subseteq groups.p2

\* kvraft/config.go:338: the leader given to make_partition() is linked to
\* no server of p1 and to fewer than half of the servers.  For odd N: with an
\* even number a place of p2 keeps its 0, and server 0 may be in both groups.
LeaderInMinority == groups # None /\ groups.leader # None =>
  LET near == {j \in Servers : Linked(groups.leader, j)} IN
    near \cap groups.p1 = {} /\ 2 * Cardinality(near) < N
=============================================================================
