-------------------------- MODULE ShardConfigProofs --------------------------
(***************************************************************************)
(* Proofs about ShardConfig, for any number of groups, servers, masters,   *)
(* clerks, calls and restarts.                                             *)
(***************************************************************************)
EXTENDS ShardConfig, TLAPS

NetProofs == INSTANCE LabRpcProofs
  WITH Ends <- Ends, ServerNames <- Names, Objects <- Objects

\* What is assumed of the constants: no group has the masters' number, every
\* server may be started, and nil is no object.
Constants ==
  /\ 0 \notin Groups
  /\ MaxGen \in Nat \ {0}
  /\ None \notin Names \cup Objects \cup Persisters

\* The actions of the network are those that LabRpcProofs is about.
LEMMA SameActions ==
    /\ \A c \in Calls : Net!Network(c) => NetProofs!Network(c)
    /\ \A c \in Calls : Net!MethodReturns(c) => NetProofs!MethodReturns(c)
    /\ \A c \in Calls, e \in Ends : Net!Call(c, e) => NetProofs!Call(c, e)
    /\ Net!LoopEnds => NetProofs!LoopEnds
BY ZenonT(60) DEF Net!Network, Net!Accept, Net!ReadEndnameInfo, Net!DropRequest, Net!Execute, Net!Dispatch, Net!Receive, Net!Poll, Net!Drain, Net!Decide, Net!Answer, Net!Destroyed, Net!MethodReturns, Net!Call, Net!LoopEnds, Net!netVars, Net!callVars, Net!EndnameInfo, Net!Admits, Net!isServerDead, Net!MustFail, NetProofs!Network, NetProofs!Accept, NetProofs!ReadEndnameInfo, NetProofs!DropRequest, NetProofs!Execute, NetProofs!Dispatch, NetProofs!Receive, NetProofs!Poll, NetProofs!Drain, NetProofs!Decide, NetProofs!Answer, NetProofs!Destroyed, NetProofs!MethodReturns, NetProofs!Call, NetProofs!LoopEnds, NetProofs!netVars, NetProofs!callVars, NetProofs!EndnameInfo, NetProofs!Admits, NetProofs!isServerDead, NetProofs!MustFail

----------------------------------------------------------------------------
(* The inductive invariant. *)

\* StartServer(), StartMasterServer() or ShutdownServer() of s is at one of the steps S.
Busy(s, S) == target = s /\ pc \in S

StartPersister(s) == <<<<s, gen[s]>>, "start">>
ShutdownPersister(s) == <<<<s, gen[s]>>, "shutdown">>

\* A server that the network knows is the current instance, and writes to the
\* current Persister; an instance writes to no other one than it was given.
Instances ==
  /\ \A s \in Names :
       /\ s \in Masters => gen[s] <= 1
       /\ gen[s] > 0 => saved[s] \in {StartPersister(s), ShutdownPersister(s)}
       /\ gen[s] > 0 /\ ~Busy(s, {"starting"}) => store[<<s, gen[s]>>] = StartPersister(s)
       /\ live[s] => gen[s] > 0 /\ ~Busy(s, {"starting"})
       /\ servers[s] # None => /\ live[s] /\ servers[s] = <<s, gen[s]>>
                               /\ saved[s] = StartPersister(s)
                               /\ ~Busy(s, {"copying", "killing", "starting", "adding"})
       /\ Busy(s, {"deleting", "copying", "killing", "adding"}) => live[s]
       /\ Busy(s, {"starting", "adding"}) => gen[s] > 0 /\ saved[s] = StartPersister(s)
  /\ \A rs \in Objects : store[rs] # None => store[rs] = <<rs, "start">> /\ rs[2] <= gen[rs[1]]

\* Where the effect of a call is: first with the instance that ran it, and from
\* the moment its success is decided on in the current Persister.
Effect(c) ==
  /\ proc[c] = "admitted" \/ handler[c] # "none" =>
       store[info[c].server] # None /\ info[c].server[1] = info[c].servername
  /\ handler[c] \in {"returned", "done"} => c \in disk[store[info[c].server]]
  /\ proc[c] = "replying" \/ client[c] = "ok" => c \in disk[saved[info[c].servername]]

CallsInv == \A c \in Calls : NetProofs!CallInv(c)

Inv ==
  /\ TypeOK /\ CallsInv /\ Instances
  /\ \A c \in Calls : Effect(c)
  /\ OwnEndsOff

----------------------------------------------------------------------------
(* Names. *)

\* The name of an end says who made it, when and how.
LEMMA EndNames ==
    /\ \A s \in Servers, g \in Gens : OwnEnds(s, g) \subseteq Ends
    /\ \A s, g : \A e \in OwnEnds(s, g) : /\ e.kind \in {"peer", "master"}
                                          /\ e.owner = s /\ e.gen = g
    /\ \A e \in Ends : e.dst \in Names
<1>1. ASSUME NEW s \in Servers, NEW g \in Gens PROVE OwnEnds(s, g) \subseteq Ends
    <2>1. OwnEnds(s, g) \subseteq ServerEnds(s)
        BY DEF ServerEnds
    <2> QED
        BY <2>1 DEF Ends
<1>2. \A s, g : \A e \in OwnEnds(s, g) : /\ e.kind \in {"peer", "master"}
                                         /\ e.owner = s /\ e.gen = g
    BY DEF OwnEnds, EndTo
<1>3. \A s, g : \A e \in OwnEnds(s, g) \cup MadeEnds(s, g) : e.dst \in Names
    BY DEF OwnEnds, MadeEnds, EndTo, Names
<1>4. \A k : \A e \in ClerkEnds(k) : e.dst \in Names
    BY DEF ClerkEnds, EndTo, Names
<1>5. \A m : \A e \in MasterEnds(m) : e.dst \in Names
    BY DEF MasterEnds, EndTo, Names
<1>6. \A s : \A e \in ServerEnds(s) : e.dst \in Names
    BY <1>3 DEF ServerEnds
<1>7. ASSUME NEW e \in Ends PROVE e.dst \in Names
    <2>1. CASE e \in UNION {ServerEnds(s) : s \in Servers}
        BY <1>6, <2>1
    <2>2. CASE e \in UNION {ClerkEnds(k) \cup MadeEnds(k, 0) : k \in Clerks}
        <3>1. PICK k \in Clerks : e \in ClerkEnds(k) \cup MadeEnds(k, 0)
            BY <2>2
        <3> QED
            BY <1>3, <1>4, <3>1, Zenon
    <2>3. CASE e \in UNION {MasterEnds(m) : m \in Masters}
        BY <1>5, <2>3
    <2> QED
        BY <2>1, <2>2, <2>3, Zenon DEF Ends
<1> QED
    BY <1>1, <1>2, <1>7

\* Groups are not masters.
LEMMA NamesApart == Constants => Servers \cap Masters = {}
BY DEF Constants, Servers, Masters

\* The object and the Persisters of the current instance.
LEMMA CurrentInstance ==
    ASSUME Constants, TypeOK, NEW s \in Names, s \in Masters => gen[s] <= 1, gen[s] > 0
    PROVE  /\ gen[s] \in Gens /\ <<s, gen[s]>> \in Objects
           /\ StartPersister(s) \in Persisters /\ StartPersister(s) # None
           /\ ShutdownPersister(s) \in Persisters /\ ShutdownPersister(s) # None
<1>1. gen[s] \in Gens /\ (s \in Masters => gen[s] = 1)
    BY DEF TypeOK, Gens, Constants
<1>2. <<s, gen[s]>> \in Objects
    BY <1>1 DEF Objects, Names
<1> QED
    BY <1>1, <1>2 DEF StartPersister, ShutdownPersister, Persisters, Constants

----------------------------------------------------------------------------
(* The network's part of the invariant, in the terms of LabRpcProofs. *)

LEMMA SameTypes ==
    /\ TypeOK /\ CallsInv => NetProofs!Inv
    /\ NetProofs!Inv => Net!TypeOK /\ CallsInv
    /\ NetProofs!Inv' => Net!TypeOK' /\ CallsInv'
BY DEF TypeOK, CallsInv, NetProofs!Inv, Net!TypeOK, NetProofs!TypeOK, Net!Infos, NetProofs!Infos,
       Net!ClientStates, NetProofs!ClientStates, Net!ProcStates, NetProofs!ProcStates,
       Net!HandlerStates, NetProofs!HandlerStates, Net!Returned, NetProofs!Returned

\* In the beginning no server was ever started.
LEMMA InitInv == Constants /\ Init => Inv
<1> SUFFICES ASSUME Constants, Init PROVE Inv
    OBVIOUS
<1>1. NetProofs!Init
    BY Zenon DEF Init, Net!Init, NetProofs!Init, Net!NoInfo, NetProofs!NoInfo
<1>2. NetProofs!Inv
    BY <1>1, NetProofs!InitInv
<1>3. Net!TypeOK /\ CallsInv
    BY <1>2, SameTypes
<1>4. TypeOK
    BY <1>3 DEF Constants, Init, TypeOK
<1>5. Instances
    BY DEF Init, Instances, Busy, Net!Init, Objects
<1>6. \A c \in Calls : Effect(c)
    BY DEF Init, Effect, Net!Init
<1>7. \A e \in Ends : ~enabled[e]
    BY Zenon DEF Init, Net!Init
<1>8. OwnEndsOff
    BY <1>7, EndNames DEF OwnEndsOff
<1> QED
    BY <1>3, <1>4, <1>5, <1>6, <1>8 DEF Inv

----------------------------------------------------------------------------
(* The steps that start and shut down servers. *)

\* A call that was answered or is being run belongs to a server that was started.
LEMMA HasPersister ==
    ASSUME Constants, Inv, NEW c \in Calls
    PROVE  /\ handler[c] # "none" \/ proc[c] = "admitted" =>
                info[c].server \in Objects /\ info[c].servername \in Names
           /\ proc[c] = "replying" \/ client[c] = "ok" =>
                /\ handler[c] = "done"
                /\ info[c].servername \in Names
                /\ gen[info[c].servername] > 0
<1>1. /\ handler[c] # "none" \/ proc[c] = "admitted" =>
                info[c].server \in Objects /\ info[c].servername \in Names
      /\ proc[c] = "replying" \/ client[c] = "ok" => handler[c] = "done"
    BY DEF Inv, CallsInv, NetProofs!CallInv, NetProofs!Admitted
<1>2. ASSUME handler[c] # "none" PROVE gen[info[c].servername] > 0
    <2>1. /\ info[c].server \in Objects /\ store[info[c].server] # None
          /\ info[c].server[1] = info[c].servername
        BY <1>1, <1>2 DEF Inv, Effect
    <2>2. info[c].server[2] <= gen[info[c].servername]
        BY <2>1 DEF Inv, Instances
    <2>3. gen[info[c].servername] \in Int
        BY <1>1, <1>2 DEF Inv, TypeOK
    <2>4. info[c].server[2] \in Int /\ info[c].server[2] >= 1
        BY <2>1 DEF Objects, Gens
    <2> QED
        BY <2>2, <2>3, <2>4
<1> QED
    BY <1>1, <1>2

\* The Persister of a server that was started.
LEMMA SavedPersister ==
    ASSUME Constants, Inv, NEW s \in Names, gen[s] > 0
    PROVE  saved[s] \in Persisters /\ saved[s] # None /\ saved[s][1][1] = s
<1>1. saved[s] \in {StartPersister(s), ShutdownPersister(s)} /\ (s \in Masters => gen[s] <= 1)
    BY DEF Inv, Instances
<1>2. /\ StartPersister(s) \in Persisters /\ StartPersister(s) # None
      /\ ShutdownPersister(s) \in Persisters /\ ShutdownPersister(s) # None
    BY <1>1, CurrentInstance DEF Inv
<1> QED
    BY <1>1, <1>2 DEF StartPersister, ShutdownPersister

\* Copying a Persister to a new one loses no effect.
LEMMA CopyEffect ==
    ASSUME Constants, Inv, NEW s \in Names, NEW p \in Persisters, p[1][1] = s,
           CopyPersister(s, p), UNCHANGED <<callVars, store>>,
           \A rs \in Objects : store[rs] # p
    PROVE  /\ \A c \in Calls : Effect(c)'
           /\ disk' \in [Persisters -> SUBSET Calls]
           /\ saved' = [saved EXCEPT ![s] = p]
<1> USE DEF Inv, TypeOK, callVars
<1>1. disk' = [disk EXCEPT ![p] = IF saved[s] = None THEN {} ELSE disk[saved[s]]]
      /\ saved' = [saved EXCEPT ![s] = p]
    BY DEF CopyPersister
<1>2. disk' \in [Persisters -> SUBSET Calls]
    BY <1>1
<1>3. ASSUME NEW c \in Calls, handler[c] \in {"returned", "done"}
      PROVE  c \in disk'[store[info[c].server]]
    <2>1. info[c].server \in Objects /\ store[info[c].server] # p /\ store[info[c].server] \in Persisters
        BY <1>3, HasPersister DEF Effect
    <2> QED
        BY <1>1, <1>3, <2>1 DEF Effect
<1>4. ASSUME NEW c \in Calls, proc[c] = "replying" \/ client[c] = "ok"
      PROVE  c \in disk'[saved'[info[c].servername]]
    <2> DEFINE t == info[c].servername
    <2>1. t \in Names /\ gen[t] > 0 /\ c \in disk[saved[t]]
        BY <1>4, HasPersister DEF Effect
    <2>2. saved[t] # None /\ saved[t] \in Persisters /\ saved[t][1][1] = t
        BY <2>1, SavedPersister
    <2>3. CASE t = s
        BY <1>1, <2>1, <2>2, <2>3
    <2>4. CASE t # s
        BY <1>1, <2>1, <2>2, <2>4
    <2> QED
        BY <2>3, <2>4
<1> QED
    BY <1>1, <1>2, <1>3, <1>4 DEF Effect

LEMMA QuietCalls ==
    ASSUME Inv, UNCHANGED callVars
    PROVE  CallsInv' /\ (UNCHANGED <<disk, saved, store>> => \A c \in Calls : Effect(c)')
<1>1. CallsInv'
    BY DEF Inv, CallsInv, callVars, NetProofs!CallInv, NetProofs!Admitted
<1> QED
    BY <1>1 DEF Inv, Effect, callVars

\* A step that stops no instance and enables none of the ends made for a stopped one.
LEMMA EndsStayOff ==
    ASSUME Inv,
           \A s \in Servers, g \in Gens : Stopped(s, g)' => Stopped(s, g),
           \A s \in Servers, g \in Gens : Stopped(s, g) =>
              \A e \in OwnEnds(s, g) : enabled'[e] => enabled[e]
    PROVE  OwnEndsOff'
BY DEF Inv, OwnEndsOff

\* What NewEnds() does to the network.
LEMMA NewEndsTypes ==
    ASSUME TypeOK, NEW E \in SUBSET Ends, NewEnds(E)
    PROVE  /\ Net!TypeOK'
           /\ \A e \in Ends : enabled'[e] <=> e \in E \/ enabled[e]
           /\ UNCHANGED <<servers, callVars>>
<1>1. /\ made' = made \cup E
      /\ connections' = [e \in Ends |-> IF e \in E THEN e.dst ELSE connections[e]]
      /\ enabled' = [e \in Ends |-> e \in E \/ enabled[e]]
      /\ UNCHANGED <<servers, reliable, closed, looping, added, callVars>>
    BY DEF NewEnds
<1>2. made' \subseteq Ends /\ connections' \in [Ends -> Names \cup {None}]
    BY <1>1, EndNames DEF TypeOK, Net!TypeOK
<1>3. enabled' \in [Ends -> BOOLEAN] /\ \A e \in Ends : enabled'[e] <=> e \in E \/ enabled[e]
    <2>1. \A e \in Ends : (e \in E \/ enabled[e]) \in BOOLEAN
        OBVIOUS
    <2> QED
        BY <1>1, <2>1, Zenon
<1> QED
    BY <1>1, <1>2, <1>3 DEF TypeOK, Net!TypeOK, callVars

\* The first step of StartServer(s) and StartMasterServer(s): new names for the
\* ends E of instance g, and a Persister for it.
LEMMA Prepares ==
    ASSUME Constants, Inv, NEW s \in Names, NEW g, g = gen[s] + 1, <<s, g>> \in Objects,
           g <= MaxGen, s \in Masters => g <= 1, pc = "idle", ~live[s],
           gen' = [gen EXCEPT ![s] = g], pc' = "starting", target' = s,
           CopyPersister(s, <<<<s, g>>, "start">>), UNCHANGED <<live, store>>,
           NEW E \in SUBSET Ends, NewEnds(E),
           \A e \in E : /\ e.owner \notin Servers \/ (e.owner = s /\ e.gen = g)
    PROVE  Inv'
<1> DEFINE p == <<<<s, g>>, "start">>
<1>1. gen[s] \in 0 .. MaxGen /\ gen[s] \in Int /\ g \in 0 .. MaxGen /\ g > 0 /\ gen[s] < g
    BY DEF Inv, TypeOK, Constants
<1>2. p \in Persisters /\ p[1][1] = s
    BY DEF Persisters
<1>3. store[<<s, g>>] = None
    <2> SUFFICES ASSUME store[<<s, g>>] # None PROVE FALSE
        OBVIOUS
    <2>1. g <= gen[s]
        BY DEF Inv, Instances
    <2> QED
        BY <1>1, <2>1
<1>4. \A rs \in Objects : store[rs] # p
    <2> SUFFICES ASSUME NEW rs \in Objects, store[rs] = p PROVE FALSE
        OBVIOUS
    <2>1. store[rs] = <<rs, "start">>
        BY <1>2 DEF Inv, Instances, Constants
    <2>2. rs = <<s, g>>
        BY <2>1
    <2> QED
        BY <1>2, <1>3, <2>2 DEF Constants
<1>5. /\ Net!TypeOK' /\ UNCHANGED <<servers, callVars>>
      /\ \A e \in Ends : enabled'[e] <=> e \in E \/ enabled[e]
    BY NewEndsTypes DEF Inv
<1>6. /\ \A c \in Calls : Effect(c)'
      /\ disk' \in [Persisters -> SUBSET Calls]
      /\ saved' = [saved EXCEPT ![s] = p]
    BY <1>2, <1>4, <1>5, CopyEffect
<1>7. gen' \in [Names -> 0 .. MaxGen] /\ gen'[s] = g /\ \A t \in Names : t # s => gen'[t] = gen[t]
    BY <1>1 DEF Inv, TypeOK
<1>8. \A t \in Names : live[t] => t # s /\ gen'[t] = gen[t]
    BY <1>7
<1>9. saved' \in [Names -> Persisters \cup {None}] /\ saved'[s] = p /\ \A t \in Names : t # s => saved'[t] = saved[t]
    BY <1>2, <1>6 DEF Inv, TypeOK
<1> HIDE DEF p
<1>10. TypeOK'
    BY <1>5, <1>6, <1>7, <1>8, <1>9 DEF Inv, TypeOK
<1>11. Instances'
    <2>1. servers[s] = None
        BY DEF Inv, Instances
    <2>2. ASSUME NEW rs \in Objects, store[rs] # None PROVE rs[2] <= gen'[rs[1]]
        <3>1. rs[2] <= gen[rs[1]] /\ rs[1] \in Names /\ gen[rs[1]] \in Int /\ rs[2] \in Int
            BY <2>2 DEF Inv, Instances, Objects, TypeOK, Gens, Names
        <3> QED
            BY <1>1, <1>7, <3>1
    <2>3. ASSUME NEW t \in Names, t # s
          PROVE  /\ t \in Masters => gen'[t] <= 1
                 /\ gen'[t] > 0 => saved'[t] \in {StartPersister(t)', ShutdownPersister(t)'}
                 /\ gen'[t] > 0 => store[<<t, gen'[t]>>] = StartPersister(t)'
                 /\ live[t] => gen'[t] > 0
                 /\ servers[t] # None => live[t] /\ servers[t] = <<t, gen'[t]>> /\ saved'[t] = StartPersister(t)'
                 /\ ~Busy(t, {"starting", "adding", "deleting", "copying", "killing"})'
        BY <1>7, <1>9, <2>3 DEF Inv, Instances, Busy, StartPersister, ShutdownPersister
    <2>4. /\ s \in Masters => gen'[s] <= 1
          /\ saved'[s] = StartPersister(s)'
          /\ Busy(s, {"starting"})' /\ ~Busy(s, {"deleting", "copying", "killing", "adding"})'
          /\ gen'[s] > 0
        BY <1>1, <1>7, <1>9 DEF Busy, StartPersister, p
    <2>5. \A rs \in Objects : store[rs] # None => store[rs] = <<rs, "start">>
        BY DEF Inv, Instances
    <2> QED
        BY <1>5, <2>1, <2>2, <2>3, <2>4, <2>5 DEF Instances, Busy
<1>12. OwnEndsOff'
    <2> SUFFICES ASSUME NEW t \in Servers, NEW h \in Gens, Stopped(t, h)', NEW e \in OwnEnds(t, h)
                 PROVE  ~enabled'[e]
        BY DEF OwnEndsOff
    <2>1. t \in Names /\ h \in Int /\ gen[t] \in Int
        BY DEF Names, Gens, Inv, TypeOK
    <2>2. e \in Ends /\ e.owner = t /\ e.gen = h
        BY EndNames
    <2>3. ~(h = g /\ t = s)
        BY <1>3, <1>7, <2>1 DEF Stopped
    <2>4. e \notin E
        BY <2>2, <2>3
    <2>5. Stopped(t, h)
        <3>1. CASE t # s
            BY <1>7, <2>1, <3>1 DEF Stopped
        <3>2. CASE t = s
            <4>1. h <= gen[s]
                BY <1>1, <1>7, <2>1, <2>3, <3>2 DEF Stopped
            <4>2. gen[s] > 0
                BY <2>1, <3>2, <4>1 DEF Gens
            <4>3. store[<<s, gen[s]>>] = StartPersister(s) /\ (s \in Masters => gen[s] <= 1)
                BY <4>2 DEF Inv, Instances, Busy
            <4>4. store[<<s, gen[s]>>] # None
                BY <4>2, <4>3, CurrentInstance DEF Inv
            <4> QED
                BY <2>1, <3>2, <4>1, <4>4 DEF Stopped
        <3> QED
            BY <3>1, <3>2
    <2> QED
        BY <1>5, <2>2, <2>4, <2>5 DEF Inv, OwnEndsOff
<1> QED
    BY <1>5, <1>6, <1>10, <1>11, <1>12, QuietCalls DEF Inv

LEMMA StartMasterServerStep ==
    ASSUME Constants, Inv, NEW m \in Masters, StartMasterServer(m)
    PROVE  Inv'
<1>1. /\ pc = "idle" /\ gen[m] = 0 /\ gen' = [gen EXCEPT ![m] = 1]
      /\ NewEnds(MasterEnds(m)) /\ CopyPersister(m, <<<<m, 1>>, "start">>)
      /\ pc' = "starting" /\ target' = m /\ UNCHANGED <<live, store>>
    BY DEF StartMasterServer
<1>2. m \in Names /\ <<m, 1>> \in Objects /\ 1 <= MaxGen /\ 1 = gen[m] + 1 /\ 1 <= 1
    BY <1>1 DEF Names, Objects, Constants
<1>3. ASSUME live[m] PROVE FALSE
    <2>1. gen[m] > 0
        BY <1>2, <1>3, Zenon DEF Inv, Instances
    <2> QED
        BY <1>1, <2>1
<1>4. MasterEnds(m) \in SUBSET Ends
    BY DEF Ends
<1>5. \A e \in MasterEnds(m) : e.owner \notin Servers
    BY NamesApart DEF MasterEnds, EndTo
<1> QED
    BY <1>1, <1>2, <1>3, <1>4, <1>5, Prepares, Zenon

LEMMA StartServerStep ==
    ASSUME Constants, Inv, NEW s \in Servers, StartServer(s)
    PROVE  Inv'
<1> DEFINE g == gen[s] + 1
<1>1. /\ pc = "idle" /\ ~live[s] /\ gen[s] < MaxGen /\ gen' = [gen EXCEPT ![s] = g]
      /\ NewEnds(OwnEnds(s, g)) /\ CopyPersister(s, <<<<s, g>>, "start">>)
      /\ pc' = "starting" /\ target' = s /\ UNCHANGED <<live, store>>
    BY DEF StartServer
<1>2. s \in Names /\ s \notin Masters
    BY NamesApart DEF Names
<1>3. g \in Gens /\ g <= MaxGen
    BY <1>1, <1>2 DEF Inv, TypeOK, Gens, Constants
<1>4. <<s, g>> \in Objects /\ OwnEnds(s, g) \in SUBSET Ends
    BY <1>3, EndNames DEF Objects
<1>5. \A e \in OwnEnds(s, g) : e.owner = s /\ e.gen = g
    BY EndNames
<1> QED
    BY <1>1, <1>2, <1>3, <1>4, <1>5, Prepares

LEMMA StartsStep ==
    ASSUME Constants, Inv, Starts
    PROVE  Inv'
<1> DEFINE rs == <<target, gen[target]>>
<1>1. /\ pc = "starting" /\ pc' = "adding" /\ UNCHANGED target
      /\ live' = [live EXCEPT ![target] = TRUE]
      /\ store' = [store EXCEPT ![rs] = saved[target]]
      /\ UNCHANGED <<netVars, callVars, gen, saved, disk>>
    BY DEF Starts
<1>2. target \in Names
    BY <1>1 DEF Inv, TypeOK
<1>3. /\ gen[target] > 0 /\ saved[target] = StartPersister(target)
      /\ target \in Masters => gen[target] <= 1
    BY <1>1, <1>2 DEF Inv, Instances, Busy
<1>4. /\ rs \in Objects /\ StartPersister(target) = <<rs, "start">>
      /\ StartPersister(target) \in Persisters /\ StartPersister(target) # None
    BY <1>2, <1>3, CurrentInstance DEF Inv, StartPersister
<1> HIDE DEF rs
<1>5. /\ store' \in [Objects -> Persisters \cup {None}] /\ store'[rs] = <<rs, "start">>
      /\ \A r \in Objects : r # rs => store'[r] = store[r]
    BY <1>1, <1>3, <1>4 DEF Inv, TypeOK
<1>6. \A r \in Objects : store[r] # None => store'[r] = store[r]
    BY <1>5 DEF Inv, Instances
<1>7. /\ live' \in [Names -> BOOLEAN] /\ live'[target]
      /\ \A s \in Names : s # target => live'[s] = live[s]
    BY <1>1, <1>2 DEF Inv, TypeOK
<1>8. \A c \in Calls : Effect(c)'
    <2> SUFFICES ASSUME NEW c \in Calls PROVE Effect(c)'
        OBVIOUS
    <2>1. proc[c] = "admitted" \/ handler[c] # "none" =>
             store[info[c].server] # None /\ store'[info[c].server] = store[info[c].server]
        BY <1>6, HasPersister DEF Inv, Effect
    <2> QED
        BY <1>1, <2>1 DEF Inv, Effect, callVars
<1>9. TypeOK'
    <2>1. Net!TypeOK'
        BY <1>1 DEF Inv, TypeOK, Net!TypeOK, netVars, callVars
    <2>2. ASSUME NEW s \in Names, live'[s]
          PROVE  <<s, gen[s]>> \in Objects /\ store'[<<s, gen[s]>>] # None
        <3>1. CASE s = target
            BY <1>4, <1>5, <3>1 DEF rs
        <3>2. CASE s # target
            BY <1>6, <1>7, <2>2, <3>2 DEF Inv, TypeOK
        <3> QED
            BY <3>1, <3>2
    <2> QED
        BY <1>1, <1>2, <1>5, <1>7, <2>1, <2>2 DEF Inv, TypeOK
<1>10. Instances'
    <2>1. servers[target] = None
        BY <1>1, <1>2 DEF Inv, Instances, Busy
    <2>2. ASSUME NEW r \in Objects, store'[r] # None
          PROVE  store'[r] = <<r, "start">> /\ r[2] <= gen[r[1]]
        <3>1. CASE r = rs
            <4>1. gen[target] \in Int
                BY <1>2 DEF Inv, TypeOK
            <4> QED
                BY <1>5, <3>1, <4>1 DEF rs
        <3>2. CASE r # rs
            BY <1>5, <2>2, <3>2 DEF Inv, Instances
        <3> QED
            BY <3>1, <3>2
    <2>3. ASSUME NEW s \in Names, gen[s] > 0 PROVE store'[<<s, gen[s]>>] = StartPersister(s)
        <3>1. CASE s = target
            BY <1>4, <1>5, <3>1 DEF rs
        <3>2. CASE s # target
            <4>1. store[<<s, gen[s]>>] = StartPersister(s) /\ (s \in Masters => gen[s] <= 1)
                BY <2>3, <3>2 DEF Inv, Instances, Busy
            <4>2. <<s, gen[s]>> \in Objects /\ StartPersister(s) # None
                BY <2>3, <4>1, CurrentInstance DEF Inv
            <4> QED
                BY <1>6, <4>1, <4>2
        <3> QED
            BY <3>1, <3>2
    <2>4. ASSUME NEW s \in Names
          PROVE  /\ s \in Masters => gen[s] <= 1
                 /\ gen[s] > 0 => saved[s] \in {StartPersister(s), ShutdownPersister(s)}
                 /\ live'[s] => gen[s] > 0
                 /\ servers[s] # None => /\ live'[s] /\ servers[s] = <<s, gen[s]>>
                                         /\ saved[s] = StartPersister(s) /\ s # target
        BY <1>3, <1>7, <2>1 DEF Inv, Instances
    <2> QED
        BY <1>1, <1>2, <1>3, <1>7, <2>2, <2>3, <2>4
        DEF Instances, Busy, StartPersister, ShutdownPersister, netVars
<1>11. OwnEndsOff'
    <2>1. ASSUME NEW s \in Servers, NEW g \in Gens, Stopped(s, g)' PROVE Stopped(s, g)
        <3>1. CASE s = target
            BY <1>1, <1>2, <1>7, <2>1, <3>1, Zenon DEF Stopped
        <3>2. CASE s # target
            <4>1. <<s, g>> \in Objects /\ <<s, g>> # rs /\ s \in Names
                BY <3>2 DEF Objects, rs, Names
            <4> QED
                BY <1>1, <1>5, <1>7, <2>1, <3>2, <4>1 DEF Stopped
        <3> QED
            BY <3>1, <3>2
    <2> QED
        BY <1>1, <2>1, EndsStayOff DEF netVars
<1> QED
    BY <1>1, <1>8, <1>9, <1>10, <1>11, QuietCalls DEF Inv

LEMMA AddsStep ==
    ASSUME Constants, Inv, Adds
    PROVE  Inv'
<1> DEFINE rs == <<target, gen[target]>>
<1>1. /\ pc = "adding" /\ pc' = "idle" /\ UNCHANGED target
      /\ added' = added \cup {rs} /\ servers' = [servers EXCEPT ![target] = rs]
      /\ UNCHANGED <<made, enabled, connections, reliable, closed, looping, callVars>>
      /\ UNCHANGED <<gen, live, saved, disk, store>>
    BY DEF Adds, Net!AddServer, callVars, Net!callVars
<1>2. target \in Names
    BY <1>1 DEF Inv, TypeOK
<1>3. live[target] /\ gen[target] > 0 /\ saved[target] = StartPersister(target)
    BY <1>1, <1>2 DEF Inv, Instances, Busy
<1>4. rs \in Objects
    BY <1>2, <1>3 DEF Inv, TypeOK
<1>5. TypeOK'
    <2> HIDE DEF rs
    <2> QED
        BY <1>1, <1>4 DEF Inv, TypeOK, Net!TypeOK, callVars
<1>6. Instances'
    BY <1>1, <1>2, <1>3 DEF Inv, TypeOK, Net!TypeOK, Instances, Busy, StartPersister, ShutdownPersister
<1>7. OwnEndsOff'
    BY <1>1, EndsStayOff DEF Stopped
<1> QED
    BY <1>1, <1>5, <1>6, <1>7, QuietCalls DEF Inv

LEMMA ShutdownServerStep ==
    ASSUME Constants, Inv, NEW s \in Servers, ShutdownServer(s)
    PROVE  Inv'
<1>1. /\ pc = "idle" /\ pc' = "deleting" /\ target' = s /\ live[s]
      /\ enabled' = [e \in Ends |-> IF e \in OwnEnds(s, gen[s]) THEN FALSE ELSE enabled[e]]
      /\ UNCHANGED <<made, connections, servers, reliable, closed, looping, added, callVars>>
      /\ UNCHANGED <<gen, live, saved, disk, store>>
    BY DEF ShutdownServer, SendingEnds, Net!Enable, callVars, Net!callVars
<1>2. enabled' \in [Ends -> BOOLEAN] /\ \A e \in Ends : enabled'[e] <=> e \notin OwnEnds(s, gen[s]) /\ enabled[e]
    BY <1>1 DEF Inv, TypeOK, Net!TypeOK
<1>3. s \in Names
    BY DEF Names
<1>4. TypeOK'
    BY <1>1, <1>2, <1>3 DEF Inv, TypeOK, Net!TypeOK, callVars
<1>5. Instances'
    BY <1>1 DEF Inv, Instances, Busy, StartPersister, ShutdownPersister
<1>6. OwnEndsOff'
    <2> SUFFICES ASSUME NEW t \in Servers, NEW g \in Gens, Stopped(t, g)', NEW e \in OwnEnds(t, g)
                 PROVE  ~enabled'[e]
        BY DEF OwnEndsOff
    <2>1. e \in Ends
        BY EndNames
    <2>2. CASE t = s /\ g = gen[s]
        BY <1>2, <2>1, <2>2
    <2>3. CASE ~(t = s /\ g = gen[s])
        <3>1. Stopped(t, g)
            BY <1>1, <2>3 DEF Stopped
        <3> QED
            BY <1>2, <2>1, <3>1 DEF Inv, OwnEndsOff
    <2> QED
        BY <2>2, <2>3
<1> QED
    BY <1>1, <1>4, <1>5, <1>6, QuietCalls DEF Inv

LEMMA ShutdownDeletesStep ==
    ASSUME Constants, Inv, ShutdownDeletes
    PROVE  Inv'
<1>1. /\ pc = "deleting" /\ pc' = "copying" /\ UNCHANGED target
      /\ servers' = [servers EXCEPT ![target] = None]
      /\ UNCHANGED <<made, enabled, connections, reliable, closed, looping, added, callVars>>
      /\ UNCHANGED <<gen, live, saved, disk, store>>
    BY DEF ShutdownDeletes, Net!DeleteServer, callVars, Net!callVars
<1>2. TypeOK'
    BY <1>1 DEF Inv, TypeOK, Net!TypeOK, callVars
<1>3. Instances'
    BY <1>1 DEF Inv, Instances, TypeOK, Net!TypeOK, Busy, StartPersister, ShutdownPersister
<1>4. OwnEndsOff'
    BY <1>1, EndsStayOff DEF Stopped
<1> QED
    BY <1>1, <1>2, <1>3, <1>4, QuietCalls DEF Inv

LEMMA ShutdownCopiesStep ==
    ASSUME Constants, Inv, ShutdownCopies
    PROVE  Inv'
<1> DEFINE p == <<<<target, gen[target]>>, "shutdown">>
<1>1. /\ pc = "copying" /\ pc' = "killing" /\ UNCHANGED target
      /\ CopyPersister(target, p)
      /\ UNCHANGED <<netVars, callVars, gen, live, store>>
    BY DEF ShutdownCopies
<1>2. target \in Names
    BY <1>1 DEF Inv, TypeOK
<1>3. live[target] /\ gen[target] > 0 /\ (target \in Masters => gen[target] <= 1) /\ servers[target] = None
    BY <1>1, <1>2 DEF Inv, Instances, Busy
<1>4. p \in Persisters /\ p[1][1] = target /\ p = ShutdownPersister(target) /\ p # None
    BY <1>2, <1>3, CurrentInstance DEF Inv, ShutdownPersister
<1>5. \A rs \in Objects : store[rs] # p
    <2> SUFFICES ASSUME NEW rs \in Objects, store[rs] = p PROVE FALSE
        OBVIOUS
    <2>1. store[rs] = <<rs, "start">>
        BY <1>4 DEF Inv, Instances
    <2> QED
        BY <2>1
<1> HIDE DEF p
<1>6. /\ \A c \in Calls : Effect(c)'
      /\ disk' \in [Persisters -> SUBSET Calls] /\ saved' = [saved EXCEPT ![target] = p]
    BY <1>1, <1>2, <1>4, <1>5, CopyEffect
<1>7. TypeOK'
    BY <1>1, <1>4, <1>6 DEF Inv, TypeOK, Net!TypeOK, callVars, netVars
<1>8. /\ saved'[target] = ShutdownPersister(target)
      /\ \A s \in Names : s # target => saved'[s] = saved[s]
    BY <1>2, <1>4, <1>6 DEF Inv, TypeOK
<1>9. Instances'
    BY <1>1, <1>2, <1>3, <1>8 DEF Inv, Instances, Busy, StartPersister, ShutdownPersister, netVars
<1>10. OwnEndsOff'
    BY <1>1, EndsStayOff DEF Stopped, netVars
<1> QED
    BY <1>1, <1>6, <1>7, <1>9, <1>10, QuietCalls DEF Inv

LEMMA ShutdownEndsStep ==
    ASSUME Constants, Inv, ShutdownEnds
    PROVE  Inv'
<1>1. /\ pc = "killing" /\ pc' = "idle" /\ UNCHANGED target
      /\ live' = [live EXCEPT ![target] = FALSE]
      /\ UNCHANGED <<netVars, callVars, gen, saved, disk, store>>
    BY DEF ShutdownEnds
<1>2. target \in Names
    BY <1>1 DEF Inv, TypeOK
<1>3. /\ live' \in [Names -> BOOLEAN] /\ ~live'[target]
      /\ \A s \in Names : s # target => live'[s] = live[s]
    BY <1>1, <1>2 DEF Inv, TypeOK
<1>4. TypeOK'
    BY <1>1, <1>3 DEF Inv, TypeOK, Net!TypeOK, callVars, netVars
<1>5. servers[target] = None
    BY <1>1, <1>2 DEF Inv, Instances, Busy
<1>6. Instances'
    BY <1>1, <1>3, <1>5 DEF Inv, Instances, Busy, StartPersister, ShutdownPersister, netVars
<1>7. OwnEndsOff'
    <2>1. ASSUME NEW s \in Servers, NEW g \in Gens, Stopped(s, g)' PROVE Stopped(s, g)
        BY <1>1, <1>3, <2>1 DEF Stopped, Names
    <2> QED
        BY <1>1, <2>1, EndsStayOff DEF netVars
<1> QED
    BY <1>1, <1>4, <1>6, <1>7, QuietCalls DEF Inv

\* The steps that touch only a flag of the network.
LEMMA FlagsStep ==
    ASSUME Constants, Inv, cleanup \/ \E yes \in BOOLEAN : SetReliable(yes)
    PROVE  Inv'
<1>1. /\ UNCHANGED <<made, enabled, connections, servers, looping, added, callVars>>
      /\ UNCHANGED <<gen, live, saved, disk, store, pc, target>>
    BY DEF cleanup, SetReliable, Net!Cleanup, Net!Reliable, cfgVars, callVars, Net!callVars
<1>2. reliable' \in BOOLEAN /\ closed' \in BOOLEAN
    <2>1. reliable \in BOOLEAN /\ closed \in BOOLEAN
        BY DEF Inv, TypeOK, Net!TypeOK
    <2> QED
        BY <2>1, Zenon DEF cleanup, SetReliable, Net!Cleanup, Net!Reliable
<1>3. TypeOK'
    BY <1>1, <1>2 DEF Inv, TypeOK, Net!TypeOK, callVars
<1>4. Instances'
    BY <1>1 DEF Inv, Instances, Busy, StartPersister, ShutdownPersister
<1>5. OwnEndsOff'
    BY <1>1, EndsStayOff DEF Stopped
<1> QED
    BY <1>1, <1>3, <1>4, <1>5, QuietCalls DEF Inv

\* Ends that clerks and servers make for themselves are no ends of an instance's own.
LEMMA MakesEnds ==
    ASSUME Constants, Inv, NEW E \in SUBSET Ends, NewEnds(E), UNCHANGED cfgVars,
           \A e \in E : e.kind \notin {"peer", "master"}
    PROVE  Inv'
<1>1. /\ Net!TypeOK' /\ UNCHANGED <<servers, callVars>>
      /\ \A e \in Ends : enabled'[e] <=> e \in E \/ enabled[e]
    BY NewEndsTypes DEF Inv
<1>2. UNCHANGED <<gen, live, saved, disk, store, pc, target>>
    BY DEF cfgVars
<1>3. TypeOK'
    BY <1>1, <1>2 DEF Inv, TypeOK
<1>4. Instances'
    BY <1>1, <1>2 DEF Inv, Instances, Busy, StartPersister, ShutdownPersister
<1>5. ASSUME NEW s \in Servers, NEW g \in Gens, NEW e \in OwnEnds(s, g), enabled'[e] PROVE enabled[e]
    BY <1>1, <1>5, EndNames
<1>6. OwnEndsOff'
    BY <1>2, <1>5, EndsStayOff DEF Stopped
<1> QED
    BY <1>1, <1>2, <1>3, <1>4, <1>6, QuietCalls DEF Inv

LEMMA MakersStep ==
    ASSUME Constants, Inv,
           \/ \E k \in Clerks : makeClient(k)
           \/ \E s \in Servers, g \in Gens, d \in Servers : make_end(s, g, d)
           \/ \E k \in Clerks, d \in Servers : make_end(k, 0, d)
    PROVE  Inv'
<1>1. ASSUME NEW k \in Clerks, makeClient(k) PROVE Inv'
    <2>1. ClerkEnds(k) \in SUBSET Ends
        BY DEF Ends
    <2>2. \A e \in ClerkEnds(k) : e.kind \notin {"peer", "master"}
        BY DEF ClerkEnds, EndTo
    <2> QED
        BY <1>1, <2>1, <2>2, MakesEnds DEF makeClient
<1>2. ASSUME NEW o, NEW g, NEW d, make_end(o, g, d), EndTo("make_end", o, g, d) \in Ends PROVE Inv'
    <2>1. {EndTo("make_end", o, g, d)} \in SUBSET Ends
        BY <1>2
    <2>2. \A e \in {EndTo("make_end", o, g, d)} : e.kind \notin {"peer", "master"}
        BY DEF EndTo
    <2> QED
        BY <1>2, <2>1, <2>2, MakesEnds DEF make_end
<1>3. ASSUME NEW s \in Servers, NEW g \in Gens, NEW d \in Servers
      PROVE  EndTo("make_end", s, g, d) \in Ends
    <2>1. EndTo("make_end", s, g, d) \in ServerEnds(s)
        BY DEF ServerEnds, MadeEnds
    <2> QED
        BY <2>1 DEF Ends
<1>4. ASSUME NEW k \in Clerks, NEW d \in Servers PROVE EndTo("make_end", k, 0, d) \in Ends
    <2>1. EndTo("make_end", k, 0, d) \in MadeEnds(k, 0)
        BY DEF MadeEnds
    <2> QED
        BY <2>1 DEF Ends
<1> QED
    BY <1>1, <1>2, <1>3, <1>4
----------------------------------------------------------------------------
(* The steps of calls. *)

\* A server that the network knows writes to the Persister in its saved field.
LEMMA KnownServer ==
    ASSUME Constants, Inv, NEW s \in Names, servers[s] # None
    PROVE  servers[s][1] = s /\ store[servers[s]] # None /\ store[servers[s]] = saved[s]
<1>1. /\ servers[s] = <<s, gen[s]>> /\ saved[s] = StartPersister(s) /\ gen[s] > 0
      /\ store[<<s, gen[s]>>] = StartPersister(s) /\ (s \in Masters => gen[s] <= 1)
    BY DEF Inv, Instances, Busy
<1>2. StartPersister(s) # None
    BY <1>1, CurrentInstance DEF Inv
<1> QED
    BY <1>1, <1>2

\* The network runs a call only at the server it found, and reports success
\* only while that server is known.
LEMMA NetworkEffect ==
    ASSUME Constants, Inv, NEW c \in Calls, Net!Network(c), UNCHANGED cfgVars
    PROVE  \A d \in Calls : Effect(d)'
<1> USE DEF netVars, Net!netVars, cfgVars
<1>1. UNCHANGED <<store, disk, saved, servers>>
    BY DEF Net!Network, Net!Accept, Net!ReadEndnameInfo, Net!DropRequest, Net!Execute, Net!Dispatch,
       Net!Receive, Net!Poll, Net!Drain, Net!Decide, Net!Answer, Net!Destroyed
<1>2. ASSUME NEW d \in Calls, d # c PROVE Effect(d)'
    <2>1. proc'[d] = proc[d] /\ handler'[d] = handler[d] /\ client'[d] = client[d] /\ info'[d] = info[d]
        <3> USE DEF Inv, TypeOK, Net!TypeOK
        <3>1. CASE Net!Accept(c) \/ Net!Destroyed(c) \/ Net!DropRequest(c) \/ Net!Execute(c)
            BY <1>2, <3>1 DEF Net!Accept, Net!Destroyed, Net!DropRequest, Net!Execute
        <3>2. CASE Net!ReadEndnameInfo(c)
            BY <1>2, <3>2 DEF Net!ReadEndnameInfo
        <3>3. CASE Net!Dispatch(c) \/ Net!Receive(c) \/ Net!Poll(c) \/ Net!Drain(c)
            BY <1>2, <3>3 DEF Net!Dispatch, Net!Receive, Net!Poll, Net!Drain
        <3>4. CASE Net!Decide(c) \/ Net!Answer(c)
            BY <1>2, <3>4 DEF Net!Decide, Net!Answer
        <3> QED
            BY <3>1, <3>2, <3>3, <3>4 DEF Net!Network
    <2> QED
        BY <1>1, <2>1 DEF Inv, Effect
<1>3. Effect(c)'
    <2> USE DEF Inv, TypeOK, Net!TypeOK, Effect
    <2>1. NetProofs!CallInv(c)
        BY DEF CallsInv
    <2>2. CASE Net!Accept(c)
        BY <1>1, <2>1, <2>2 DEF Net!Accept, NetProofs!CallInv
    <2>3. CASE Net!ReadEndnameInfo(c)
        <3>1. /\ proc[c] = "accepted" /\ info'[c] = Net!EndnameInfo(c)
              /\ proc'[c] = "admitted" => Net!EndnameInfo(c).server # None
              /\ proc'[c] \in {"admitted", "failing"} /\ UNCHANGED <<client, handler>>
            BY <2>3 DEF Net!ReadEndnameInfo, Net!Admits
        <3>2. handler[c] = "none" /\ client[c] = "waiting" /\ end[c] \in Ends
            BY <2>1, <3>1 DEF NetProofs!CallInv
        <3>3. ASSUME proc'[c] = "admitted"
              PROVE  store[info'[c].server] # None /\ info'[c].server[1] = info'[c].servername
            <4> DEFINE s == connections[end[c]]
            <4>1. s # None /\ s \in Names /\ servers[s] # None
                  /\ info'[c].servername = s /\ info'[c].server = servers[s]
                BY <3>1, <3>2, <3>3 DEF Net!EndnameInfo
            <4> HIDE DEF s
            <4> QED
                BY <4>1, KnownServer
        <3> QED
            BY <1>1, <3>1, <3>2, <3>3
    <2>4. CASE Net!DropRequest(c)
        BY <1>1, <2>1, <2>4 DEF Net!DropRequest, NetProofs!CallInv
    <2>5. CASE Net!Execute(c)
        BY <1>1, <2>1, <2>5 DEF Net!Execute, NetProofs!CallInv
    <2>6. CASE Net!Dispatch(c)
        BY <1>1, <2>1, <2>6 DEF Net!Dispatch, NetProofs!CallInv
    <2>7. CASE Net!Receive(c)
        BY <1>1, <2>1, <2>7 DEF Net!Receive, NetProofs!CallInv
    <2>8. CASE Net!Poll(c)
        BY <1>1, <2>1, <2>8 DEF Net!Poll, NetProofs!CallInv
    <2>9. CASE Net!Drain(c)
        BY <1>1, <2>1, <2>9 DEF Net!Drain, NetProofs!CallInv
    <2>10. CASE Net!Decide(c)
        <3>1. /\ proc'[c] \in {"replying", "failing"}
              /\ proc'[c] = "replying" => proc[c] = "received" /\ ~Net!isServerDead(c)
              /\ UNCHANGED <<client, info, handler>>
            BY <2>10 DEF Net!Decide, Net!MustFail
        <3>2. ASSUME proc'[c] = "replying" PROVE c \in disk[saved[info[c].servername]]
            <4>1. /\ handler[c] = "done" /\ servers[info[c].servername] = info[c].server
                  /\ info[c].servername \in Names /\ info[c].server \in Objects
                BY <2>1, <3>1, <3>2, HasPersister DEF NetProofs!CallInv, Net!isServerDead
            <4>2. info[c].server # None
                BY <4>1 DEF Constants
            <4>3. store[info[c].server] = saved[info[c].servername]
                BY <4>1, <4>2, KnownServer
            <4> QED
                BY <4>1, <4>3
        <3> QED
            BY <1>1, <3>1, <3>2
    <2>11. CASE Net!Answer(c)
        BY <1>1, <2>1, <2>11 DEF Net!Answer, NetProofs!CallInv
    <2>12. CASE Net!Destroyed(c)
        BY <1>1, <2>1, <2>12 DEF Net!Destroyed, NetProofs!CallInv
    <2> QED
        BY <2>2, <2>3, <2>4, <2>5, <2>6, <2>7, <2>8, <2>9, <2>10, <2>11, <2>12 DEF Net!Network
<1> QED
    BY <1>2, <1>3

\* The handler of c has done its work, which is in its server's Persister.
LEMMA HandlesEffect ==
    ASSUME Constants, Inv, NEW c \in Calls, Handles(c)
    PROVE  (\A d \in Calls : Effect(d)') /\ disk' \in [Persisters -> SUBSET Calls]
<1> DEFINE p == store[info[c].server]
<1>1. /\ handler[c] = "running" /\ handler' = [handler EXCEPT ![c] = "returned"]
      /\ disk' = [disk EXCEPT ![p] = @ \cup {c}]
      /\ UNCHANGED <<client, proc, info, saved, store>>
    BY DEF Handles, Net!MethodReturns
<1>2. p \in Persisters
    BY <1>1, HasPersister DEF Inv, TypeOK, Effect
<1>3. \A q \in Persisters : disk[q] \subseteq disk'[q]
    BY <1>1, <1>2 DEF Inv, TypeOK
<1>4. c \in disk'[p] /\ disk' \in [Persisters -> SUBSET Calls]
    BY <1>1, <1>2 DEF Inv, TypeOK
<1>5. ASSUME NEW d \in Calls PROVE Effect(d)'
    <2>1. handler'[d] = IF d = c THEN "returned" ELSE handler[d]
        BY <1>1 DEF Inv, TypeOK, Net!TypeOK
    <2>2. ASSUME handler'[d] \in {"returned", "done"} PROVE d \in disk'[store[info[d].server]]
        <3>1. CASE d = c
            BY <1>4, <3>1
        <3>2. CASE d # c
            <4>1. store[info[d].server] \in Persisters /\ d \in disk[store[info[d].server]]
                BY <2>1, <2>2, <3>2, HasPersister DEF Inv, TypeOK, Effect
            <4> QED
                BY <1>3, <4>1
        <3> QED
            BY <3>1, <3>2
    <2>3. ASSUME proc[d] = "replying" \/ client[d] = "ok"
          PROVE  d \in disk'[saved[info[d].servername]]
        <3>1. info[d].servername \in Names /\ gen[info[d].servername] > 0
            BY <2>3, HasPersister
        <3>2. saved[info[d].servername] \in Persisters
            BY <3>1, SavedPersister
        <3>3. d \in disk[saved[info[d].servername]]
            BY <2>3 DEF Inv, Effect
        <3> QED
            BY <1>3, <3>2, <3>3
    <2> QED
        BY <1>1, <2>1, <2>2, <2>3 DEF Inv, Effect
<1> QED
    BY <1>4, <1>5

\* The steps of calls change, of the harness's variables, at most a disk.
LEMMA CallsQuiet ==
    ASSUME NEW c \in Calls, NEW e,
           \/ Handles(c)
           \/ (Net!Call(c, e) \/ Net!Network(c) \/ Net!LoopEnds) /\ UNCHANGED cfgVars
    PROVE  UNCHANGED <<enabled, servers, gen, live, saved, store, pc, target>>
BY DEF Handles, Net!MethodReturns, Net!Call, Net!LoopEnds, Net!Network, Net!Accept,
       Net!ReadEndnameInfo, Net!DropRequest, Net!Execute, Net!Dispatch, Net!Receive, Net!Poll,
       Net!Drain, Net!Decide, Net!Answer, Net!Destroyed, Net!netVars, cfgVars

LEMMA QuietLoop ==
    ASSUME Net!LoopEnds, UNCHANGED cfgVars
    PROVE  UNCHANGED <<enabled, servers, gen, live, saved, store, pc, target>>
BY DEF Net!LoopEnds, cfgVars

\* What a step of a call has to establish for the invariant.
LEMMA CallsKeep ==
    ASSUME Constants, Inv, NetProofs!Inv', disk' \in [Persisters -> SUBSET Calls],
           \A d \in Calls : Effect(d)',
           UNCHANGED <<enabled, servers, gen, live, saved, store, pc, target>>
    PROVE  Inv'
<1>1. Net!TypeOK' /\ CallsInv'
    BY SameTypes
<1>2. TypeOK'
    BY <1>1 DEF Inv, TypeOK
<1>3. Instances'
    BY DEF Inv, Instances, Busy, StartPersister, ShutdownPersister
<1>4. OwnEndsOff'
    BY EndsStayOff DEF Stopped
<1> QED
    BY <1>1, <1>2, <1>3, <1>4 DEF Inv

LEMMA WorksStep == Constants /\ Inv /\ Works => Inv'
<1> SUFFICES ASSUME Constants, Inv, Works PROVE Inv'
    OBVIOUS
<1>1. NetProofs!Inv /\ made \subseteq Ends
    BY SameTypes DEF Inv, TypeOK, Net!TypeOK
<1>2. ASSUME UNCHANGED cfgVars PROVE disk' \in [Persisters -> SUBSET Calls]
    BY <1>2 DEF Inv, TypeOK, cfgVars
<1>3. ASSUME NEW c \in Calls, NEW e \in made, Net!Call(c, e), UNCHANGED cfgVars PROVE Inv'
    <2>1. NetProofs!Inv'
        BY <1>1, <1>3, SameActions, NetProofs!CallStep
    <2>2. \A d \in Calls : Effect(d)'
        BY <1>3 DEF Net!Call, Net!netVars, cfgVars, Inv, TypeOK, Net!TypeOK, Effect
    <2> QED
        BY <1>2, <1>3, <2>1, <2>2, CallsQuiet, CallsKeep
<1>4. ASSUME NEW c \in Calls, Handles(c) PROVE Inv'
    <2>1. NetProofs!MethodReturns(c)
        BY <1>4, SameActions DEF Handles
    <2>2. NetProofs!Inv'
        BY <1>1, <2>1, NetProofs!CallStep
    <2> QED
        BY <1>4, <2>2, HandlesEffect, CallsQuiet, CallsKeep
<1>5. ASSUME NEW c \in Calls, Net!Network(c), UNCHANGED cfgVars PROVE Inv'
    <2>1. NetProofs!Network(c)
        BY <1>5, SameActions
    <2>2. NetProofs!Inv'
        BY <1>1, <2>1, NetProofs!CallStep
    <2> QED
        BY <1>2, <1>5, <2>2, NetworkEffect, CallsQuiet, CallsKeep
<1>6. ASSUME Net!LoopEnds, UNCHANGED cfgVars PROVE Inv'
    <2>1. NetProofs!Inv'
        BY <1>1, <1>6, SameActions, NetProofs!NetStep
    <2>2. UNCHANGED callVars /\ UNCHANGED <<disk, saved, store>>
        BY <1>6 DEF Net!LoopEnds, callVars, Net!callVars, cfgVars
    <2> QED
        BY <1>2, <1>6, <2>1, <2>2, QuietCalls, QuietLoop, CallsKeep
<1> QED
    BY <1>3, <1>4, <1>5, <1>6, MakersStep DEF Works

----------------------------------------------------------------------------
(* Theorems. *)

LEMMA InvStep == Constants /\ Inv /\ [Next]_vars => Inv'
<1> SUFFICES ASSUME Constants, Inv, [Next]_vars PROVE Inv'
    OBVIOUS
<1>1. CASE Harness
    BY <1>1, StartMasterServerStep, StartServerStep, ShutdownServerStep, StartsStep, AddsStep,
       ShutdownDeletesStep, ShutdownCopiesStep, ShutdownEndsStep, FlagsStep, MakersStep DEF Harness
<1>2. CASE UNCHANGED vars
    <2>1. /\ UNCHANGED <<made, enabled, connections, servers, reliable, closed, looping, added, callVars>>
          /\ UNCHANGED <<gen, live, saved, disk, store, pc, target>>
        BY <1>2 DEF vars, netVars, cfgVars
    <2>2. TypeOK'
        BY <2>1 DEF Inv, TypeOK, Net!TypeOK, callVars
    <2>3. Instances'
        BY <2>1 DEF Inv, Instances, Busy, StartPersister, ShutdownPersister
    <2>4. OwnEndsOff'
        BY <2>1, EndsStayOff DEF Stopped
    <2> QED
        BY <2>1, <2>2, <2>3, <2>4, QuietCalls DEF Inv
<1> QED
    BY <1>1, <1>2, WorksStep DEF Next

LEMMA Invariance == Constants => (Spec => []Inv)
<1> SUFFICES ASSUME Constants PROVE Spec => []Inv
    OBVIOUS
<1>1. Init => Inv
    BY InitInv
<1>2. Inv /\ [Next]_vars => Inv'
    BY InvStep
<1> QED
    BY <1>1, <1>2, PTL DEF Spec

\* shardkv/config.go: the variables of harness and network keep their types, and
\* no server runs without a Persister.
THEOREM TypeCorrect == Constants => (Spec => []TypeOK)
<1>1. Inv => TypeOK
    BY DEF Inv
<1> QED
    BY <1>1, Invariance, PTL

\* shardkv/config.go:169-174: for any number of groups, servers, calls and
\* restarts, the effect of a call that returned true is in the Persister that the
\* next instance of its server will get, although ShutdownServer() leaves the
\* ends to the server enabled and the killed instance goes on running.
THEOREM AckedSafe == Constants => (Spec => []AckedIsSaved)
<1>1. Inv => AckedIsSaved
    BY DEF Inv, Effect, AckedIsSaved
<1> QED
    BY <1>1, Invariance, PTL

\* shardkv/config.go:159-167: the ends made for an instance are off from the
\* first step of its shutdown on, whatever ends clerks, its successors and the
\* other servers make for themselves afterwards.
THEOREM OldSilent == Constants => (Spec => []OwnEndsOff)
<1>1. Inv => OwnEndsOff
    BY DEF Inv
<1> QED
    BY <1>1, Invariance, PTL
=============================================================================
