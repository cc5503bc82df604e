---------------------------- MODULE ShardConfig ----------------------------
(***************************************************************************)
(* shardkv/config.go: the harness of the sharded service, on top of        *)
(* labrpc.  Unlike kvraft's, it enables the ends of a server when it makes *)
(* them, and gives servers and clerks a function make_end() by which they  *)
(* make ends to servers of any group for themselves.  As in KvConfig, a    *)
(* handler is known only by what it does to its server's Persister.        *)
(***************************************************************************)
EXTENDS Integers, FiniteSets

CONSTANTS
  Groups,    \* group ids
  N,         \* cfg.n: servers per group
  NMasters,  \* cfg.nmasters
  Clerks, Calls,
  None,      \* Go's nil
  MaxGen     \* bound: how often a server is started

\* servername(gid, i), and mastername(i) with 0 for a gid.
Servers == Groups \X (0 .. N - 1)
Masters == {0} \X (0 .. NMasters - 1)
Gens == 1 .. MaxGen
Names == Servers \cup Masters

\* A name that is random in the code: who made the end, how, and to whom.
EndTo(kind, owner, g, dst) == [kind |-> kind, owner |-> owner, gen |-> g, dst |-> dst]

\* gg.endnames[i] and gg.mendnames[i] of the g-th instance of server s.
OwnEnds(s, g) ==
  {EndTo("peer", s, g, p) : p \in {x \in Servers : x[1] = s[1]}}
    \cup {EndTo("master", s, g, m) : m \in Masters}
MadeEnds(s, g) == {EndTo("make_end", s, g, p) : p \in Servers}
ClerkEnds(k) == {EndTo("clerk", k, 0, m) : m \in Masters}

MasterEnds(m) == {EndTo("peer", m, 1, x) : x \in Masters}

ServerEnds(s) == UNION {OwnEnds(s, g) \cup MadeEnds(s, g) : g \in Gens}
Ends == (UNION {ServerEnds(s) : s \in Servers})
          \cup (UNION {ClerkEnds(k) \cup MadeEnds(k, 0) : k \in Clerks})
          \cup (UNION {MasterEnds(m) : m \in Masters})

Objects == (Servers \X Gens) \cup (Masters \X {1})
Persisters == Objects \X {"start", "shutdown"}

VARIABLES
  made, enabled, connections, servers, reliable, closed, looping, added,
  end, client, proc, info, handler, drain, runs,
  gen,      \* gen[s]: the instance whose end names gg.endnames holds, 0 at first
  live,     \* live[s]: gg.servers[i] (or cfg.masterservers[i]) is not nil
  saved,    \* saved[s]: the current Persister, or None
  disk,     \* disk[p]: the calls whose effect Persister p holds
  store,    \* store[rs]: the Persister given to the server behind object rs
  pc, target

Net == INSTANCE LabRpc WITH Ends <- Ends, ServerNames <- Names, Objects <- Objects

netVars == <<made, enabled, connections, servers, reliable, closed, looping, added>>
callVars == <<end, client, proc, info, handler, drain, runs>>
cfgVars == <<gen, live, saved, disk, store, pc, target>>
vars == <<netVars, callVars, cfgVars>>

Init ==
  /\ Net!Init
  /\ gen = [s \in Names |-> 0]
  /\ live = [s \in Names |-> FALSE]
  /\ saved = [s \in Names |-> None]
  /\ disk = [p \in Persisters |-> {}]
  /\ store = [rs \in Objects |-> None]
  /\ pc = "idle" /\ target = None

\* MakeEnd(), Connect() and Enable(true) for new ends.
NewEnds(E) ==
  /\ E \cap made = {}
  /\ made' = made \cup E
  /\ connections' = [e \in Ends |-> IF e \in E THEN e.dst ELSE connections[e]]
  /\ enabled' = [e \in Ends |-> e \in E \/ enabled[e]]
  /\ UNCHANGED <<servers, reliable, closed, looping, added, callVars>>

\* saved = saved.Copy(), or MakePersister().
CopyPersister(s, p) ==
  /\ disk' = [disk EXCEPT ![p] = IF saved[s] = None THEN {} ELSE disk[saved[s]]]
  /\ saved' = [saved EXCEPT ![s] = p]

-----------------------------------------------------------------------------
(* Starting servers and making clerks. *)

MastersUp == \A m \in Masters : servers[m] # None

StartMasterServer(m) ==
  /\ pc = "idle" /\ ~closed
  /\ gen[m] = 0
  /\ gen' = [gen EXCEPT ![m] = 1]
  /\ NewEnds(MasterEnds(m))
  /\ CopyPersister(m, <<<<m, 1>>, "start">>)
  /\ pc' = "starting" /\ target' = m
  /\ UNCHANGED <<live, store>>

\* The part under cfg.mu.  A server is started when it does not run.
StartServer(s) ==
  /\ pc = "idle" /\ ~closed
  /\ MastersUp
  /\ s[2] < NMasters  \* else gg.mendnames[i] panics: it has cfg.nmasters places
  /\ ~live[s]
  /\ gen[s] < MaxGen
  /\ gen' = [gen EXCEPT ![s] = @ + 1]
  /\ NewEnds(OwnEnds(s, gen[s] + 1))
  /\ CopyPersister(s, <<<<s, gen[s] + 1>>, "start">>)
  /\ pc' = "starting" /\ target' = s
  /\ UNCHANGED <<live, store>>

\* The server is given saved[i]; then it is added to the network.
Starts ==
  /\ pc = "starting"
  /\ pc' = "adding"
  /\ live' = [live EXCEPT ![target] = TRUE]
  /\ store' = [store EXCEPT ![<<target, gen[target]>>] = saved[target]]
  /\ UNCHANGED <<netVars, callVars, gen, saved, disk, target>>

Adds ==
  /\ pc = "adding"
  /\ pc' = "idle"
  /\ Net!AddServer(target, <<target, gen[target]>>)
  /\ UNCHANGED <<gen, live, saved, disk, store, target>>

\* make_end() of an instance (a killed one has it still) or of a clerk.
make_end(owner, g, dst) ==
  /\ IF owner \in Servers THEN store[<<owner, g>>] # None ELSE ClerkEnds(owner) \subseteq made
  /\ NewEnds({EndTo("make_end", owner, g, dst)})
  /\ UNCHANGED cfgVars

\* The end names of a clerk, one per master, are in an array of cfg.n places.
makeClient(k) ==
  /\ pc = "idle" /\ ~closed
  /\ NMasters <= N  \* else endnames[j] panics
  /\ NewEnds(ClerkEnds(k))
  /\ UNCHANGED cfgVars

-----------------------------------------------------------------------------
(* ShutdownServer(gi, i). *)

\* A mutation: the ends to the masters are left on.
PeerEnds(s) == {e \in OwnEnds(s, gen[s]) : e.kind = "peer"}

\* "prevent this server from sending": gg.endnames[i] and gg.mendnames[i].
SendingEnds(s) == OwnEnds(s, gen[s])

\* Of a server that is down already (cleanup() asks for it) a shutdown would
\* only replace a Persister nobody writes to by a copy.
ShutdownServer(s) ==
  /\ pc = "idle" /\ ~closed
  /\ live[s]
  /\ Net!Enable(SendingEnds(s), FALSE)
  /\ pc' = "deleting" /\ target' = s
  /\ UNCHANGED <<gen, live, saved, disk, store>>

ShutdownDeletes ==
  /\ pc = "deleting" /\ pc' = "copying"
  /\ Net!DeleteServer(target)
  /\ UNCHANGED <<gen, live, saved, disk, store, target>>

ShutdownCopies ==
  /\ pc = "copying" /\ pc' = "killing"
  /\ CopyPersister(target, <<<<target, gen[target]>>, "shutdown">>)
  /\ UNCHANGED <<netVars, callVars, gen, live, store, target>>

\* Kill() runs without cfg.mu; the instance may go on for a while after it.
ShutdownEnds ==
  /\ pc = "killing" /\ pc' = "idle"
  /\ live' = [live EXCEPT ![target] = FALSE]
  /\ UNCHANGED <<netVars, callVars, gen, saved, disk, store, target>>

\* After every group was shut down.
cleanup ==
  /\ pc = "idle"
  /\ \A s \in Servers : ~live[s]
  /\ Net!Cleanup
  /\ UNCHANGED cfgVars

\* The end of make_config().
SetReliable(yes) ==
  /\ pc = "idle" /\ ~closed
  /\ \A s \in Names : live[s]
  /\ Net!Reliable(yes)
  /\ UNCHANGED cfgVars

-----------------------------------------------------------------------------
\* A handler returns; what it did is in the Persister of its server.
Handles(c) ==
  /\ Net!MethodReturns(c)
  /\ disk' = [disk EXCEPT ![store[info[c].server]] = @ \cup {c}]
  /\ UNCHANGED <<gen, live, saved, store, pc, target>>

Harness ==
  \/ \E m \in Masters : StartMasterServer(m)
  \/ \E s \in Servers : StartServer(s) \/ ShutdownServer(s)
  \/ Starts \/ Adds \/ ShutdownDeletes \/ ShutdownCopies \/ ShutdownEnds \/ cleanup
  \/ \E yes \in BOOLEAN : SetReliable(yes)
  \/ \E k \in Clerks : makeClient(k)

Works ==
  \/ \E s \in Servers, g \in Gens, d \in Servers : make_end(s, g, d)
  \/ \E k \in Clerks, d \in Servers : make_end(k, 0, d)
  \/ \E c \in Calls, e \in made : Net!Call(c, e) /\ UNCHANGED cfgVars
  \/ \E c \in Calls : Handles(c) \/ (Net!Network(c) /\ UNCHANGED cfgVars)
  \/ Net!LoopEnds /\ UNCHANGED cfgVars

Next == Harness \/ Works

Spec == Init /\ [][Next]_vars

-----------------------------------------------------------------------------
(* Properties. *)

\* The variables have their types, and no server runs without a Persister.
TypeOK ==
  /\ Net!TypeOK
  /\ gen \in [Names -> 0 .. MaxGen]
  /\ live \in [Names -> BOOLEAN]
  /\ saved \in [Names -> Persisters \cup {None}]
  /\ disk \in [Persisters -> SUBSET Calls]
  /\ store \in [Objects -> Persisters \cup {None}]
  /\ pc \in {"idle", "starting", "adding", "deleting", "copying", "killing"}
  /\ pc # "idle" => target \in Names
  /\ \A s \in Names : live[s] => <<s, gen[s]>> \in Objects /\ store[<<s, gen[s]>>] # None

\* shardkv/config.go:169-174: no call returns true whose effect is only in a
\* superseded Persister, though the ends to a server stay enabled when it is
\* shut down.
AckedIsSaved == \A c \in Calls :
  client[c] = "ok" => c \in disk[saved[info[c].servername]]

\* The instance g of s is no longer in use, or being shut down.
Stopped(s, g) ==
  \/ g < gen[s]
  \/ g = gen[s] /\ store[<<s, g>>] # None /\ ~live[s]
  \/ g = gen[s] /\ target = s /\ pc \in {"deleting", "copying", "killing"}

\* shardkv/config.go:159-167: the ends made for a server are off once its
\* shutdown has begun, and stay off when its successor gets new ones.  (Those that
\* it made by make_end() are never switched off.)
OwnEndsOff == \A s \in Servers, g \in Gens :
  Stopped(s, g) => \A e \in OwnEnds(s, g) : ~enabled[e]
=============================================================================
