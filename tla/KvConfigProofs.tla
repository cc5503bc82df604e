--------------------------- MODULE KvConfigProofs ---------------------------
(***************************************************************************)
(* Proofs about KvConfig, for any number of servers, clerks, calls and     *)
(* restarts.                                                               *)
(***************************************************************************)
EXTENDS KvConfig, FiniteSetTheorems, TLAPS

NetProofs == INSTANCE LabRpcProofs
  WITH Ends <- KvEnds, ServerNames <- Servers, Objects <- Objects

\* What is assumed of the constants: there is a server, and nil is no object.
Constants ==
  /\ N \in Nat \ {0}
  /\ MaxGen \in Nat
  /\ None \notin Servers \cup Objects \cup Persisters

\* The actions of the network are those that LabRpcProofs is about.
LEMMA SameActions ==
    /\ \A c \in Calls : Net!Network(c) => NetProofs!Network(c)
    /\ \A c \in Calls : Net!MethodReturns(c) => NetProofs!MethodReturns(c)
    /\ \A c \in Calls, e \in KvEnds : Net!Call(c, e) => NetProofs!Call(c, e)
    /\ Net!LoopEnds => NetProofs!LoopEnds
BY ZenonT(60) DEF Net!Network, Net!Accept, Net!ReadEndnameInfo, Net!DropRequest, Net!Execute, Net!Dispatch, Net!Receive, Net!Poll, Net!Drain, Net!Decide, Net!Answer, Net!Destroyed, Net!MethodReturns, Net!Call, Net!LoopEnds, Net!netVars, Net!callVars, Net!EndnameInfo, Net!Admits, Net!isServerDead, Net!MustFail, NetProofs!Network, NetProofs!Accept, NetProofs!ReadEndnameInfo, NetProofs!DropRequest, NetProofs!Execute, NetProofs!Dispatch, NetProofs!Receive, NetProofs!Poll, NetProofs!Drain, NetProofs!Decide, NetProofs!Answer, NetProofs!Destroyed, NetProofs!MethodReturns, NetProofs!Call, NetProofs!LoopEnds, NetProofs!netVars, NetProofs!callVars, NetProofs!EndnameInfo, NetProofs!Admits, NetProofs!isServerDead, NetProofs!MustFail

----------------------------------------------------------------------------
(* The inductive invariant. *)

\* ShutdownServer(i) or StartServer(i) is at one of the steps S.
Busy(i, S) == target = i /\ pc \in S

StartPersister(i) == <<i, gen[i], "start">>
ShutdownPersister(i) == <<i, gen[i], "shutdown">>

\* A server that the network knows is the current instance, and writes to the
\* Persister in cfg.saved; an instance writes to no other one than it was given.
Instances ==
  /\ \A i \in Servers :
       /\ gen[i] > 0 => saved[i] \in {StartPersister(i), ShutdownPersister(i)}
       /\ kvservers[i] # None => /\ gen[i] > 0
                                 /\ kvservers[i] = <<i, gen[i]>>
                                 /\ store[<<i, gen[i]>>] = StartPersister(i)
       /\ servers[i] # None => /\ servers[i] = kvservers[i]
                               /\ saved[i] = StartPersister(i)
                               /\ ~Busy(i, {"copying", "killing", "starting", "adding"})
       /\ Busy(i, {"deleting", "copying", "killing", "adding"}) => kvservers[i] # None
       /\ Busy(i, {"starting", "adding"}) => gen[i] > 0 /\ saved[i] = StartPersister(i)
  /\ \A rs \in Objects :
       store[rs] # None => store[rs] = <<rs[1], rs[2], "start">> /\ rs[2] <= gen[rs[1]]

\* Where the effect of a call is: first with the instance that ran it, and from
\* the moment its success is decided on in the Persister of cfg.saved.
Effect(c) ==
  /\ proc[c] = "admitted" \/ handler[c] # "none" =>
       store[info[c].server] # None /\ info[c].server[1] = info[c].servername
  /\ handler[c] \in {"returned", "done"} => c \in disk[store[info[c].server]]
  /\ proc[c] = "replying" \/ client[c] = "ok" => c \in disk[saved[info[c].servername]]

\* Server k runs and is neither being shut down nor being started.
Up(k) == kvservers[k] # None /\ ~Busy(k, {"deleting", "copying", "killing", "starting", "adding"})

\* Ends between servers are enabled only if both are up and their names current.
LinksAreUp == \A i, j \in Servers, g \in Gens :
  enabled[ServerEnd(i, g, j)] => g = gen[i] /\ Up(i) /\ Up(j)

\* What make_partition() made.
GroupsMade == groups # None =>
  /\ \A i \in Servers : gen[i] > 0
  /\ groups.leader # None /\ N % 2 = 1 =>
       /\ groups.leader \in Servers \ groups.p1
       /\ groups.p1 \cap groups.p2 = {}
       /\ IsFiniteSet(groups.p2) /\ 2 * Cardinality(groups.p2) < N

CallsInv == \A c \in Calls : NetProofs!CallInv(c)

Inv ==
  /\ TypeOK /\ CallsInv /\ Instances
  /\ \A c \in Calls : Effect(c)
  /\ LinksAreUp /\ LinksFollowGroups /\ GroupsMade

----------------------------------------------------------------------------
(* Names of ends, and sets of links. *)

LEMMA EndNames ==
    /\ \A i, j \in Servers, g \in Gens : ServerEnd(i, g, j) \in KvEnds
    /\ \A i, j, g, k, l, h : ServerEnd(i, g, j) = ServerEnd(k, h, l) => i = k /\ g = h /\ j = l
    /\ \A i, j, g, k, l : ServerEnd(i, g, j) # ClerkEnd(k, l)
    /\ \A e \in KvEnds : e[4] \in Servers
BY DEF KvEnds, ServerEnd, ClerkEnd

\* Every instance has a generation, as it has when all servers are up.
AllStarted == gen \in [Servers -> Gens]

\* The end from server a to server b.
Link(a, b) == ServerEnd(a, gen[a], b)

LEMMA InLinks ==
    ASSUME NEW i \in Servers, NEW S \in SUBSET Servers
    PROVE  /\ \A a, b \in Servers : Link(a, b) \in Links(i, S)
                  <=> (a = i /\ b \in S) \/ (b = i /\ a \in S)
           /\ \A e \in Links(i, S) : \E a, b \in Servers : e = Link(a, b)
BY EndNames DEF Links, Link

\* A set of ends has both directions of a link or none.
TwoWay(on) == \A a, b \in Servers : Link(a, b) \in on <=> Link(b, a) \in on

LEMMA ConnectTwoWay ==
    ASSUME NEW i \in Servers, NEW S \in SUBSET Servers, NEW on, TwoWay(on)
    PROVE  TwoWay(connectUnlocked(on, i, S)) /\ TwoWay(disconnectUnlocked(on, i, S))
BY InLinks DEF TwoWay, connectUnlocked, disconnectUnlocked

\* What a loop of partition() does to the link from a to b.
LEMMA RegroupLink ==
    ASSUME NEW on, NEW p, NEW q, Range(p) \subseteq Servers, Range(q) \subseteq Servers
    PROVE  /\ TwoWay(on) => TwoWay(Regroup(on, p, q))
           /\ \A e \in Regroup(on, p, q) : e \in on \/ \E a, b \in Servers : e = Link(a, b)
           /\ \A a, b \in Servers : Link(a, b) \in Regroup(on, p, q) =>
                 \/ a \in Range(p) /\ b \in Range(p)
                 \/ /\ Link(a, b) \in on
                    /\ ~(a \in Range(p) /\ b \in Range(q))
                    /\ ~(b \in Range(p) /\ a \in Range(q))
<1>1. \A x \in DOMAIN p : p[x] \in Servers
    BY DEF Range
<1>2. ASSUME NEW x \in DOMAIN p, NEW S \in SUBSET Servers
      PROVE  /\ \A a, b \in Servers : Link(a, b) \in Links(p[x], S)
                  <=> (a = p[x] /\ b \in S) \/ (b = p[x] /\ a \in S)
             /\ \A e \in Links(p[x], S) : \E a, b \in Servers : e = Link(a, b)
    BY <1>1, InLinks
<1>3. TwoWay(on) => TwoWay(Regroup(on, p, q))
    <2> SUFFICES ASSUME TwoWay(on), NEW a \in Servers, NEW b \in Servers,
                        Link(a, b) \in Regroup(on, p, q)
                 PROVE  Link(b, a) \in Regroup(on, p, q)
        BY DEF TwoWay
    <2>1. CASE Link(a, b) \in on /\ \A x \in DOMAIN p : Link(a, b) \notin Links(p[x], Range(q))
        BY <1>2, <2>1 DEF TwoWay, Regroup
    <2>2. ASSUME NEW x \in DOMAIN p, Link(a, b) \in Links(p[x], Range(p)),
                 \A y \in DOMAIN p : y > x => Link(a, b) \notin Links(p[y], Range(q))
          PROVE  Link(b, a) \in Regroup(on, p, q)
        <3>1. Link(b, a) \in Links(p[x], Range(p))
            BY <1>2, <2>2
        <3>2. \A y \in DOMAIN p : y > x => Link(b, a) \notin Links(p[y], Range(q))
            BY <1>2, <2>2
        <3> QED
            BY <3>1, <3>2 DEF Regroup
    <2> QED
        BY <2>1, <2>2 DEF Regroup
<1>4. \A e \in Regroup(on, p, q) : e \in on \/ \E a, b \in Servers : e = Link(a, b)
    BY <1>2 DEF Regroup
<1>5. ASSUME NEW a \in Servers, NEW b \in Servers, Link(a, b) \in Regroup(on, p, q)
      PROVE  \/ a \in Range(p) /\ b \in Range(p)
             \/ /\ Link(a, b) \in on
                /\ ~(a \in Range(p) /\ b \in Range(q))
                /\ ~(b \in Range(p) /\ a \in Range(q))
    <2>1. CASE Link(a, b) \in on /\ \A x \in DOMAIN p : Link(a, b) \notin Links(p[x], Range(q))
        BY <1>2, <2>1 DEF Range
    <2>2. ASSUME NEW x \in DOMAIN p, Link(a, b) \in Links(p[x], Range(p))
          PROVE  a \in Range(p) /\ b \in Range(p)
        BY <1>2, <2>2 DEF Range
    <2> QED
        BY <1>5, <2>1, <2>2 DEF Regroup
<1> QED
    BY <1>3, <1>4, <1>5

----------------------------------------------------------------------------
(* The network's part of the invariant, in the terms of LabRpcProofs. *)

LEMMA SameTypes ==
    /\ TypeOK /\ CallsInv => NetProofs!Inv
    /\ NetProofs!Inv => Net!TypeOK /\ CallsInv
    /\ NetProofs!Inv' => Net!TypeOK' /\ CallsInv'
BY DEF TypeOK, CallsInv, NetProofs!Inv, Net!TypeOK, NetProofs!TypeOK, Net!Infos, NetProofs!Infos,
       Net!ClientStates, NetProofs!ClientStates, Net!ProcStates, NetProofs!ProcStates,
       Net!HandlerStates, NetProofs!HandlerStates, Net!Returned, NetProofs!Returned

\* In the beginning no server was ever started.
LEMMA InitInv == Constants /\ Init => Inv
<1> SUFFICES ASSUME Constants, Init PROVE Inv
    OBVIOUS
<1>1. NetProofs!Init
    BY Zenon DEF Init, Net!Init, NetProofs!Init, Net!NoInfo, NetProofs!NoInfo
<1>2. NetProofs!Inv
    BY <1>1, NetProofs!InitInv
<1>3. Net!TypeOK /\ CallsInv
    BY <1>2, SameTypes
<1>4. TypeOK
    BY <1>3 DEF Constants, Init, TypeOK, Servers, Gens
<1>5. Instances
    BY DEF Init, Instances, Busy, Net!Init, Objects
<1>6. \A c \in Calls : Effect(c)
    BY DEF Init, Effect, Net!Init
<1>7. \A e \in KvEnds : ~enabled[e]
    BY Zenon DEF Init, Net!Init
<1>8. LinksAreUp /\ LinksFollowGroups /\ GroupsMade
    BY <1>7, EndNames DEF Init, LinksAreUp, LinksFollowGroups, GroupsMade
<1> QED
    BY <1>3, <1>4, <1>5, <1>6, <1>8 DEF Inv

----------------------------------------------------------------------------
(* The steps that connect and disconnect. *)

\* What none of them changes.
Wires == UNCHANGED <<servers, reliable, closed, looping, added, callVars,
                     gen, saved, disk, kvservers, store, pc, target>>

LEMMA ConnectsWires == Connects => Wires
BY DEF Connects, Wires, callVars, netVars, cfgVars, ConnectAll, AnyPartition, make_partition, connect, disconnect,
       makeClient, ConnectClient, deleteClient, partition, SetEnabled, Net!Enable, Net!callVars

LEMMA WiresTypes ==
    ASSUME Inv, Connects
    PROVE  TypeOK'
<1>1. enabled' \in [KvEnds -> BOOLEAN]
    <2>1. ASSUME NEW on, SetEnabled(on) PROVE enabled' \in [KvEnds -> BOOLEAN]
        <3>1. \A e \in KvEnds : (e \in on) \in BOOLEAN
            OBVIOUS
        <3>2. enabled' = [e \in KvEnds |-> e \in on]
            BY <2>1 DEF SetEnabled
        <3> QED
            BY <3>1, <3>2, Zenon
    <2>2. ConnectAll \/ AnyPartition \/ make_partition => \E on : SetEnabled(on)
        BY DEF ConnectAll, AnyPartition, make_partition, partition
    <2>3. ASSUME NEW i \in Servers, NEW S \in SUBSET Servers, connect(i, S) \/ disconnect(i, S)
          PROVE  \E on : SetEnabled(on)
        BY <2>3 DEF connect, disconnect
    <2>4. ASSUME NEW k \in Clerks, NEW S \in SUBSET Servers, makeClient(k, S)
          PROVE  enabled' \in [KvEnds -> BOOLEAN]
        <3>1. enabled \in [KvEnds -> BOOLEAN]
            BY DEF Inv, TypeOK, Net!TypeOK
        <3>2. enabled' = [e \in KvEnds |-> e \in ClerkEnds(k, S) \/ enabled[e]]
            BY <2>4 DEF makeClient
        <3> QED
            BY <3>1, <3>2, Zenon
    <2>5. ASSUME NEW k \in Clerks, NEW S \in SUBSET Servers, NEW yes \in BOOLEAN,
                 ConnectClient(k, S, yes)
          PROVE  enabled' \in [KvEnds -> BOOLEAN]
        <3>1. enabled \in [KvEnds -> BOOLEAN]
            BY DEF Inv, TypeOK, Net!TypeOK
        <3>2. enabled' = [e \in KvEnds |-> IF e \in ClerkEnds(k, S) THEN yes ELSE enabled[e]]
            BY <2>5 DEF ConnectClient, Net!Enable
        <3> QED
            BY <3>1, <3>2
    <2>6. ASSUME NEW k \in Clerks, deleteClient(k) PROVE enabled' \in [KvEnds -> BOOLEAN]
        BY <2>6 DEF Inv, TypeOK, Net!TypeOK, deleteClient, netVars
    <2> QED
        BY <2>1, <2>2, <2>3, <2>4, <2>5, <2>6 DEF Connects
<1> DEFINE Rest == /\ made' \in SUBSET KvEnds
                   /\ connections' \in [KvEnds -> Servers \cup {None}]
                   /\ clerks' \in SUBSET Clerks
<1>2. Rest
    <2> USE DEF Inv, TypeOK, Net!TypeOK
    <2>1. ASSUME NEW k \in Clerks, NEW S \in SUBSET Servers, makeClient(k, S)
          PROVE  Rest
        <3>1. ClerkEnds(k, Servers) \subseteq KvEnds
            BY DEF ClerkEnds, KvEnds
        <3> QED
            BY <2>1, <3>1, EndNames DEF makeClient
    <2>2. ASSUME NEW k \in Clerks, deleteClient(k) PROVE Rest
        BY <2>2 DEF deleteClient, netVars
    <2>3. ASSUME NEW k \in Clerks, NEW S \in SUBSET Servers, NEW yes \in BOOLEAN,
                 ConnectClient(k, S, yes)
          PROVE  Rest
        BY <2>3 DEF ConnectClient, Net!Enable, cfgVars
    <2>4. ConnectAll \/ AnyPartition \/ make_partition => UNCHANGED <<made, connections, clerks>>
        BY DEF ConnectAll, AnyPartition, make_partition, partition, SetEnabled
    <2>5. ASSUME NEW i \in Servers, NEW S \in SUBSET Servers, connect(i, S) \/ disconnect(i, S)
          PROVE  UNCHANGED <<made, connections, clerks>>
        BY <2>5 DEF connect, disconnect, SetEnabled
    <2>6. UNCHANGED <<made, connections, clerks>> => Rest
        OBVIOUS
    <2> HIDE DEF Rest, Inv, TypeOK, Net!TypeOK
    <2> QED
        BY <2>1, <2>2, <2>3, <2>4, <2>5, <2>6 DEF Connects
<1> QED
    BY <1>1, <1>2, ConnectsWires DEF Wires, callVars, Inv, TypeOK, Net!TypeOK

\* make_partition() leaves no server out.  With an odd number of servers, the
\* groups are disjoint and the leader's is the smaller one.
LEMMA MadeGroups ==
    ASSUME Constants, NEW l \in Servers, N > 1
    PROVE  /\ Range(MakeP1(l)) \cup Range(MakeP2(l)) = Servers
           /\ N % 2 = 1 => /\ l \notin Range(MakeP1(l))
                           /\ Range(MakeP1(l)) \cap Range(MakeP2(l)) = {}
                           /\ IsFiniteSet(Range(MakeP2(l)))
                           /\ 2 * Cardinality(Range(MakeP2(l))) < N
<1> DEFINE h == N \div 2
<1>1. h \in Nat /\ h > 0 /\ N \in Nat /\ l \in Int /\ 0 <= l /\ l < N
    BY DEF Constants, Servers
<1>2. (N = 2 * h \/ N = 2 * h + 1) /\ (N % 2 = 1 => N = 2 * h + 1)
    BY <1>1
<1>3. Majority = h + 1
    BY DEF Majority
<1> HIDE DEF h
<1>4. /\ DOMAIN MakeP1(l) = 1 .. h + 1
      /\ \A x \in 1 .. h + 1 : MakeP1(l)[x] = IF x <= N - 1 THEN Other(l, x - 1) ELSE 0
    BY <1>3 DEF MakeP1
<1>5. /\ DOMAIN MakeP2(l) = 1 .. h
      /\ \A x \in 1 .. h : MakeP2(l)[x] =
           IF x = h THEN l ELSE IF h + 1 + x <= N - 1 THEN Other(l, h + x) ELSE 0
    BY <1>1, <1>3 DEF MakeP2, h
<1>6. Range(MakeP1(l)) \cup Range(MakeP2(l)) \subseteq Servers
    BY <1>1, <1>2, <1>4, <1>5 DEF Range, Servers, Other
<1>7. ASSUME NEW i \in Servers PROVE i \in Range(MakeP1(l)) \cup Range(MakeP2(l))
    <2>1. CASE i = l
        <3>1. MakeP2(l)[h] = l /\ h \in 1 .. h
            BY <1>1, <1>5
        <3> QED
            BY <2>1, <3>1, <1>5 DEF Range
    <2>2. CASE i # l
        <3>1. PICK k \in 0 .. N - 2 : Other(l, k) = i
            <4>1. CASE i < l
                BY <4>1, <1>1 DEF Other, Servers
            <4>2. CASE i > l
                <5>1. i - 1 \in 0 .. N - 2 /\ Other(l, i - 1) = i
                    BY <4>2, <1>1 DEF Other, Servers
                <5> QED
                    BY <5>1
            <4> QED
                BY <2>2, <4>1, <4>2, <1>1 DEF Servers
        <3>2. CASE k <= h
            <4>1. k + 1 \in 1 .. h + 1 /\ MakeP1(l)[k + 1] = i
                BY <1>1, <1>4, <3>1, <3>2
            <4> QED
                BY <4>1, <1>4 DEF Range
        <3>3. CASE k > h
            <4>1. k - h \in 1 .. h /\ k - h # h /\ h + (k - h) = k /\ h + 1 + (k - h) <= N - 1
                BY <1>1, <1>2, <3>1, <3>3
            <4>2. MakeP2(l)[k - h] = i
                BY <1>5, <3>1, <4>1
            <4> QED
                BY <4>1, <4>2, <1>5 DEF Range
        <3> QED
            BY <3>1, <3>2, <3>3, <1>1
    <2> QED
        BY <2>1, <2>2
<1>8. ASSUME N % 2 = 1
      PROVE  /\ l \notin Range(MakeP1(l))
             /\ Range(MakeP1(l)) \cap Range(MakeP2(l)) = {}
             /\ IsFiniteSet(Range(MakeP2(l)))
             /\ 2 * Cardinality(Range(MakeP2(l))) < N
    <2>1. N = 2 * h + 1
        BY <1>2, <1>8
    <2>2. \A x \in 1 .. h + 1 : MakeP1(l)[x] = Other(l, x - 1)
        BY <1>1, <1>4, <2>1
    <2>3. \A x \in 1 .. h : MakeP2(l)[x] = IF x = h THEN l ELSE Other(l, h + x)
        BY <1>1, <1>5, <2>1
    <2>4. l \notin Range(MakeP1(l))
        BY <1>1, <1>4, <2>2 DEF Range, Other
    <2>5. ASSUME NEW x \in 1 .. h + 1, NEW y \in 1 .. h PROVE MakeP1(l)[x] # MakeP2(l)[y]
        BY <1>1, <2>2, <2>3 DEF Other
    <2>6. Range(MakeP1(l)) \cap Range(MakeP2(l)) = {}
        BY <1>4, <1>5, <2>5 DEF Range
    <2>7. /\ IsFiniteSet(1 .. h) /\ Cardinality(1 .. h) = h
        BY <1>1, FS_Interval
    <2>8. Range(MakeP2(l)) = {MakeP2(l)[x] : x \in 1 .. h}
        BY <1>5 DEF Range
    <2>9. MakeP2(l) \in [1 .. h -> Range(MakeP2(l))]
        BY <1>5 DEF Range, MakeP2
    <2>10. MakeP2(l) \in Surjection(1 .. h, Range(MakeP2(l)))
        BY <2>8, <2>9 DEF Surjection
    <2>11. IsFiniteSet(Range(MakeP2(l))) /\ Cardinality(Range(MakeP2(l))) <= h
        BY <2>7, <2>10, FS_Surjection
    <2>12. Cardinality(Range(MakeP2(l))) \in Nat
        BY <2>11, FS_CardinalityType
    <2> QED
        BY <1>1, <2>1, <2>4, <2>6, <2>11, <2>12
<1> QED
    BY <1>6, <1>7, <1>8

LEMMA UpGens ==
    ASSUME Constants, Inv, AllUp
    PROVE  \A i \in Servers : gen[i] \in Gens /\ gen[i] > 0
<1>1. \A i \in Servers : gen[i] > 0
    BY DEF Inv, Instances, AllUp
<1>2. \A i \in Servers : gen[i] \in 0 .. MaxGen
    BY DEF Inv, TypeOK
<1> QED
    BY <1>1, <1>2 DEF Constants, Gens

\* A step that sets the enabled ends, when it adds none but links.
LEMMA Rewired ==
    ASSUME Constants, Inv, AllUp, NEW on, SetEnabled(on), UNCHANGED <<gen, kvservers, pc, target>>,
           \A e \in on : e \in On \/ \E a, b \in Servers : e = Link(a, b)
    PROVE  /\ LinksAreUp'
           /\ \A i \in Servers : gen[i] \in Gens
           /\ \A i, j \in Servers : Linked(i, j)' <=> Link(i, j) \in on
<1>1. \A e \in KvEnds : enabled'[e] <=> e \in on
    BY Zenon DEF SetEnabled
<1>2. \A i \in Servers : gen[i] \in Gens
    BY UpGens
<1>3. LinksAreUp'
    <2> SUFFICES ASSUME NEW i \in Servers, NEW j \in Servers, NEW g \in Gens,
                        ServerEnd(i, g, j) \in on
                 PROVE  g = gen[i]
        BY <1>1, EndNames DEF LinksAreUp, AllUp, Up, Busy
    <2> QED
        BY EndNames DEF Inv, LinksAreUp, On, Link
<1>4. \A i, j \in Servers : Linked(i, j)' <=> Link(i, j) \in on
    BY <1>1, <1>2, EndNames DEF Linked, Link
<1> QED
    BY <1>2, <1>3, <1>4

\* Before such a step the enabled ends are two-way.
LEMMA OnTwoWay ==
    ASSUME Constants, Inv, AllUp
    PROVE  /\ TwoWay(On)
           /\ \A i, j \in Servers : Link(i, j) \in On <=> Linked(i, j)
<1>1. \A i \in Servers : gen[i] \in Gens /\ gen[i] > 0
    BY UpGens
<1>2. \A i, j \in Servers : Link(i, j) \in On <=> Linked(i, j)
    BY <1>1, EndNames DEF On, Link, Linked
<1> QED
    BY <1>1, <1>2 DEF Inv, LinksFollowGroups, TwoWay

LEMMA PartitionLinks ==
    ASSUME Constants, Inv, NEW p, NEW q, NEW l, partition(p, q, l),
           Range(p) \cup Range(q) = Servers
    PROVE  LinksAreUp' /\ LinksFollowGroups' /\ \A i \in Servers : gen'[i] > 0
<1> DEFINE on1 == Regroup(On, p, q)
           on2 == Regroup(on1, q, p)
<1>1. /\ AllUp /\ SetEnabled(on2) /\ UNCHANGED <<gen, kvservers, pc, target>>
      /\ groups' = [p1 |-> Range(p), p2 |-> Range(q), leader |-> l]
    BY DEF partition
<1>2. TwoWay(On)
    BY <1>1, OnTwoWay
<1>3. Range(p) \subseteq Servers /\ Range(q) \subseteq Servers
    OBVIOUS
<1>4. /\ TwoWay(on1)
      /\ \A e \in on1 : e \in On \/ \E a, b \in Servers : e = Link(a, b)
      /\ \A a, b \in Servers : Link(a, b) \in on1 =>
           \/ a \in Range(p) /\ b \in Range(p)
           \/ ~(a \in Range(p) /\ b \in Range(q)) /\ ~(b \in Range(p) /\ a \in Range(q))
    BY <1>2, <1>3, RegroupLink
<1> HIDE DEF on1
<1>5. /\ TwoWay(on2)
      /\ \A e \in on2 : e \in on1 \/ \E a, b \in Servers : e = Link(a, b)
      /\ \A a, b \in Servers : Link(a, b) \in on2 =>
           \/ a \in Range(q) /\ b \in Range(q)
           \/ Link(a, b) \in on1
    BY <1>3, <1>4, RegroupLink
<1> HIDE DEF on2
<1>6. \A e \in on2 : e \in On \/ \E a, b \in Servers : e = Link(a, b)
    BY <1>4, <1>5
<1>7. /\ LinksAreUp' /\ \A i \in Servers : gen[i] \in Gens
      /\ \A i, j \in Servers : Linked(i, j)' <=> Link(i, j) \in on2
    BY <1>1, <1>6, Rewired
<1>8. ASSUME NEW a \in Servers, NEW b \in Servers, Link(a, b) \in on2
      PROVE  {a, b} \subseteq Range(p) \/ {a, b} \subseteq Range(q)
    BY <1>4, <1>5, <1>8
<1>9. LinksFollowGroups'
    BY <1>1, <1>5, <1>7, <1>8 DEF LinksFollowGroups, TwoWay
<1> QED
    BY <1>1, <1>7, <1>9 DEF Gens

\* A step that changes no link between servers, and takes none of them down.
LEMMA SameLinks ==
    ASSUME Inv, UNCHANGED <<gen, groups>>, \A k \in Servers : Up(k) => Up(k)',
           \A i, j \in Servers, g \in Gens : enabled'[ServerEnd(i, g, j)] = enabled[ServerEnd(i, g, j)]
    PROVE  LinksAreUp' /\ LinksFollowGroups' /\ GroupsMade'
<1>1. LinksAreUp'
    BY DEF Inv, LinksAreUp
<1>2. \A i \in Servers : gen[i] > 0 => gen[i] \in Gens
    BY DEF Inv, TypeOK, Gens
<1>3. LinksFollowGroups'
    BY <1>2 DEF Inv, LinksFollowGroups, Linked
<1>4. GroupsMade'
    BY DEF Inv, GroupsMade
<1> QED
    BY <1>1, <1>3, <1>4

LEMMA WiresLinks ==
    ASSUME Constants, Inv, Connects
    PROVE  LinksAreUp' /\ LinksFollowGroups' /\ GroupsMade'
<1> DEFINE Goal == LinksAreUp' /\ LinksFollowGroups' /\ GroupsMade'
<1>1. CASE ConnectAll
    <2> DEFINE on == On \cup UNION {Links(i, Servers) : i \in Servers}
    <2>1. /\ AllUp /\ SetEnabled(on) /\ UNCHANGED <<gen, kvservers, pc, target>>
          /\ groups' = None
        BY <1>1 DEF ConnectAll
    <2>2. \A e \in on : e \in On \/ \E a, b \in Servers : e = Link(a, b)
        BY InLinks
    <2>3. \A a, b \in Servers : Link(a, b) \in on
        BY InLinks
    <2> HIDE DEF on
    <2> QED
        BY <2>1, <2>2, <2>3, Rewired DEF LinksFollowGroups, GroupsMade
<1>2. CASE AnyPartition
    <2>1. PICK S \in SUBSET Servers :
            \E p \in Ascending(S), q \in Ascending(Servers \ S) : partition(p, q, None)
        BY <1>2 DEF AnyPartition
    <2>2. PICK p \in Ascending(S), q \in Ascending(Servers \ S) : partition(p, q, None)
        BY <2>1
    <2>3. Range(p) \cup Range(q) = Servers
        BY DEF Ascending
    <2>4. groups'.leader = None
        BY <2>2 DEF partition
    <2> QED
        BY <2>2, <2>3, <2>4, PartitionLinks DEF GroupsMade
<1>3. CASE make_partition
    <2>1. PICK l \in Servers : N > 1 /\ partition(MakeP1(l), MakeP2(l), l)
        BY <1>3 DEF make_partition
    <2>2. LinksAreUp' /\ LinksFollowGroups' /\ \A i \in Servers : gen'[i] > 0
        BY <2>1, MadeGroups, PartitionLinks
    <2>3. groups' = [p1 |-> Range(MakeP1(l)), p2 |-> Range(MakeP2(l)), leader |-> l]
        BY <2>1 DEF partition
    <2>4. GroupsMade'
        BY <2>1, <2>2, <2>3, MadeGroups DEF GroupsMade
    <2> QED
        BY <2>2, <2>4
<1>4. ASSUME NEW i \in Servers, NEW S \in SUBSET Servers, connect(i, S) PROVE Goal
    <2> DEFINE on == connectUnlocked(On, i, S)
    <2>1. /\ AllUp /\ SetEnabled(on) /\ UNCHANGED <<gen, kvservers, pc, target>>
          /\ groups' = None
        BY <1>4 DEF connect
    <2>2. \A e \in on : e \in On \/ \E a, b \in Servers : e = Link(a, b)
        BY InLinks DEF connectUnlocked
    <2>3. TwoWay(on)
        BY <2>1, OnTwoWay, ConnectTwoWay
    <2> HIDE DEF on
    <2> QED
        BY <2>1, <2>2, <2>3, Rewired DEF LinksFollowGroups, GroupsMade, TwoWay
<1>5. ASSUME NEW i \in Servers, NEW S \in SUBSET Servers, disconnect(i, S) PROVE Goal
    <2> DEFINE on == disconnectUnlocked(On, i, S)
    <2>1. AllUp /\ SetEnabled(on) /\ UNCHANGED <<gen, kvservers, pc, target, groups>>
        BY <1>5 DEF disconnect
    <2>2. on \subseteq On
        BY DEF disconnectUnlocked
    <2>3. TwoWay(on)
        BY <2>1, OnTwoWay, ConnectTwoWay
    <2> HIDE DEF on
    <2>4. /\ LinksAreUp' /\ \A a, b \in Servers : Linked(a, b)' <=> Link(a, b) \in on
        BY <2>1, <2>2, Rewired
    <2>5. \A a, b \in Servers : Linked(a, b)' => Linked(a, b)
        BY <2>1, <2>2, <2>4, OnTwoWay
    <2>6. \A a, b \in Servers : Linked(a, b)' <=> Linked(b, a)'
        BY <2>3, <2>4 DEF TwoWay
    <2>7. LinksFollowGroups'
        BY <2>1, <2>5, <2>6 DEF Inv, LinksFollowGroups
    <2> QED
        BY <2>1, <2>4, <2>7 DEF Inv, GroupsMade
<1>6. ASSUME NEW k \in Clerks, NEW S \in SUBSET Servers,
             makeClient(k, S) \/ \E yes \in BOOLEAN : ConnectClient(k, S, yes)
      PROVE  Goal
    <2>1. \A e \in KvEnds : e \notin ClerkEnds(k, S) => enabled'[e] = enabled[e]
        <3>1. CASE makeClient(k, S)
            <4>1. enabled' = [e \in KvEnds |-> e \in ClerkEnds(k, S) \/ enabled[e]]
                BY <3>1 DEF makeClient
            <4>2. \A e \in KvEnds : enabled[e] \in BOOLEAN
                BY DEF Inv, TypeOK, Net!TypeOK
            <4> QED
                BY <4>1, <4>2, Zenon
        <3>2. ASSUME NEW yes \in BOOLEAN, ConnectClient(k, S, yes)
              PROVE  \A e \in KvEnds : e \notin ClerkEnds(k, S) => enabled'[e] = enabled[e]
            BY <3>2, Zenon DEF ConnectClient, Net!Enable
        <3> QED
            BY <1>6, <3>1, <3>2
    <2>2. \A i, j \in Servers, g \in Gens : enabled'[ServerEnd(i, g, j)] = enabled[ServerEnd(i, g, j)]
        BY <2>1, EndNames DEF ClerkEnds
    <2>3. UNCHANGED <<gen, kvservers, pc, target, groups>>
        BY <1>6 DEF makeClient, ConnectClient, cfgVars
    <2> QED
        BY <2>2, <2>3, SameLinks DEF Up, Busy
<1>7. ASSUME NEW k \in Clerks, deleteClient(k) PROVE Goal
    BY <1>7, SameLinks DEF deleteClient, netVars, Up, Busy
<1> QED
    BY <1>1, <1>2, <1>3, <1>4, <1>5, <1>6, <1>7 DEF Connects

\* Connecting and disconnecting keeps the invariant.
LEMMA ConnectsStep == Constants /\ Inv /\ Connects => Inv'
<1> SUFFICES ASSUME Constants, Inv, Connects PROVE Inv'
    OBVIOUS
<1>1. CallsInv'
    BY ConnectsWires DEF Inv, CallsInv, Wires, callVars, NetProofs!CallInv, NetProofs!Admitted
<1>2. Instances'
    BY ConnectsWires DEF Inv, Instances, Wires, Busy, StartPersister, ShutdownPersister
<1>3. \A c \in Calls : Effect(c)'
    BY ConnectsWires DEF Inv, Effect, Wires, callVars
<1> QED
    BY <1>1, <1>2, <1>3, WiresTypes, WiresLinks DEF Inv

----------------------------------------------------------------------------
(* The steps of ShutdownServer() and StartServer(). *)

\* A call that was answered or is being run belongs to a server that was started.
LEMMA HasPersister ==
    ASSUME Constants, Inv, NEW c \in Calls
    PROVE  /\ handler[c] # "none" \/ proc[c] = "admitted" =>
                info[c].server \in Objects /\ info[c].servername \in Servers
           /\ proc[c] = "replying" \/ client[c] = "ok" =>
                /\ handler[c] = "done"
                /\ info[c].servername \in Servers
                /\ gen[info[c].servername] > 0
<1>1. /\ handler[c] # "none" \/ proc[c] = "admitted" =>
                info[c].server \in Objects /\ info[c].servername \in Servers
      /\ proc[c] = "replying" \/ client[c] = "ok" => handler[c] = "done"
    BY DEF Inv, CallsInv, NetProofs!CallInv, NetProofs!Admitted
<1>2. ASSUME handler[c] # "none" PROVE gen[info[c].servername] > 0
    <2>1. /\ info[c].server \in Objects /\ store[info[c].server] # None
          /\ info[c].server[1] = info[c].servername
        BY <1>1, <1>2 DEF Inv, Effect
    <2>2. info[c].server[2] <= gen[info[c].servername] /\ info[c].server[2] \in Gens
        BY <2>1 DEF Inv, Instances, Objects
    <2>3. gen[info[c].servername] \in Int
        BY <1>1, <1>2 DEF Inv, TypeOK
    <2> QED
        BY <2>2, <2>3 DEF Gens
<1> QED
    BY <1>1, <1>2

\* Copying a Persister to a new one loses no effect.
LEMMA CopyEffect ==
    ASSUME Constants, Inv, NEW i \in Servers, NEW p \in Persisters, p[1] = i,
           CopyPersister(i, p), UNCHANGED <<callVars, store>>,
           \A rs \in Objects : store[rs] # p
    PROVE  \A c \in Calls : Effect(c)'
<1> SUFFICES ASSUME NEW c \in Calls PROVE Effect(c)'
    OBVIOUS
<1> USE DEF Inv, TypeOK, callVars
<1>1. disk' = [disk EXCEPT ![p] = IF saved[i] = None THEN {} ELSE disk[saved[i]]]
      /\ saved' = [saved EXCEPT ![i] = p]
    BY DEF CopyPersister
<1>2. ASSUME handler[c] \in {"returned", "done"}
      PROVE  c \in disk'[store[info[c].server]]
    <2>1. info[c].server \in Objects /\ store[info[c].server] # p /\ store[info[c].server] \in Persisters
        BY <1>2, HasPersister DEF Effect
    <2> QED
        BY <1>1, <1>2, <2>1 DEF Effect
<1>3. ASSUME proc[c] = "replying" \/ client[c] = "ok"
      PROVE  c \in disk'[saved'[info[c].servername]]
    <2> DEFINE s == info[c].servername
    <2>1. s \in Servers /\ gen[s] > 0 /\ c \in disk[saved[s]]
        BY <1>3, HasPersister DEF Effect
    <2>2. saved[s] \in {StartPersister(s), ShutdownPersister(s)}
        BY <2>1 DEF Instances
    <2>3. saved[s] # None /\ saved[s] \in Persisters /\ saved[s][1] = s
        BY <2>1, <2>2 DEF Constants, StartPersister, ShutdownPersister, Persisters, Gens
    <2>4. CASE s = i
        BY <1>1, <2>1, <2>3, <2>4
    <2>5. CASE s # i
        BY <1>1, <2>1, <2>3, <2>5
    <2> QED
        BY <2>4, <2>5
<1> QED
    BY <1>2, <1>3 DEF Effect

\* None of them touches a call.
LEMMA RestartsQuiet == Restarts => UNCHANGED callVars
BY DEF Restarts, callVars, netVars, ShutdownServer, SetEnabled, StartServer, ShutdownDeletes,
       ShutdownCopies, ShutdownEnds, StartKVServer, StartEnds, SetReliable, cleanup,
       Net!DeleteServer, Net!AddServer, Net!Reliable, Net!Cleanup, Net!callVars

LEMMA QuietCalls ==
    ASSUME Inv, UNCHANGED callVars
    PROVE  CallsInv' /\ (UNCHANGED <<disk, saved, store>> => \A c \in Calls : Effect(c)')
<1>1. CallsInv'
    BY DEF Inv, CallsInv, callVars, NetProofs!CallInv, NetProofs!Admitted
<1> QED
    BY <1>1 DEF Inv, Effect, callVars

LEMMA ShutdownServerStep ==
    ASSUME Constants, Inv, NEW i \in Servers, ShutdownServer(i)
    PROVE  Inv'
<1> DEFINE on == disconnectUnlocked(On, i, Servers)
<1>1. /\ pc = "idle" /\ pc' = "deleting" /\ target' = i /\ kvservers[i] # None
      /\ SetEnabled(on) /\ UNCHANGED <<gen, saved, disk, kvservers, store, clerks, groups>>
    BY DEF ShutdownServer
<1>2. /\ \A e \in KvEnds : enabled'[e] <=> e \in on
      /\ enabled' \in [KvEnds -> BOOLEAN]
    <2>1. \A e \in KvEnds : (e \in on) \in BOOLEAN
        OBVIOUS
    <2>2. enabled' = [e \in KvEnds |-> e \in on]
        BY <1>1 DEF SetEnabled
    <2> HIDE DEF on
    <2> QED
        BY <2>1, <2>2, Zenon
<1>3. TypeOK'
    BY <1>1, <1>2 DEF Inv, TypeOK, Net!TypeOK, SetEnabled, callVars
<1>4. Instances'
    BY <1>1 DEF Inv, Instances, Busy, SetEnabled, StartPersister, ShutdownPersister
<1>5. \A a, b \in Servers, g \in Gens :
        ServerEnd(a, g, b) \in on <=>
          enabled[ServerEnd(a, g, b)] /\ (g = gen[a] => a # i /\ b # i)
    BY EndNames DEF On, disconnectUnlocked, Links
<1>6. LinksAreUp'
    <2> SUFFICES ASSUME NEW a \in Servers, NEW b \in Servers, NEW g \in Gens,
                        ServerEnd(a, g, b) \in on
                 PROVE  g = gen[a] /\ Up(a)' /\ Up(b)'
        BY <1>1, <1>2, EndNames DEF LinksAreUp
    <2>1. enabled[ServerEnd(a, g, b)] /\ (g = gen[a] => a # i /\ b # i)
        BY <1>5
    <2> HIDE DEF on
    <2> QED
        BY <1>1, <2>1 DEF Inv, LinksAreUp, Up, Busy
<1> HIDE DEF on
<1>7. \A a \in Servers : gen[a] > 0 => gen[a] \in Gens
    BY DEF Inv, TypeOK, Constants, Gens
<1>8. \A a, b \in Servers : gen[a] > 0 => (Linked(a, b)' <=> Linked(a, b) /\ a # i /\ b # i)
    BY <1>1, <1>2, <1>5, <1>7, EndNames DEF Linked
<1>9. LinksFollowGroups'
    BY <1>1, <1>8 DEF Inv, LinksFollowGroups
<1>10. GroupsMade'
    BY <1>1 DEF Inv, GroupsMade
<1> QED
    BY <1>1, <1>3, <1>4, <1>6, <1>9, <1>10, QuietCalls DEF Inv, SetEnabled

LEMMA ShutdownDeletesStep ==
    ASSUME Constants, Inv, ShutdownDeletes
    PROVE  Inv'
<1>1. /\ pc = "deleting" /\ pc' = "copying" /\ UNCHANGED target
      /\ servers' = [servers EXCEPT ![target] = None]
      /\ UNCHANGED <<made, enabled, connections, reliable, closed, looping, added, callVars>>
      /\ UNCHANGED <<gen, saved, disk, kvservers, store, clerks, groups>>
    BY DEF ShutdownDeletes, At, Net!DeleteServer, callVars, Net!callVars
<1>2. TypeOK'
    BY <1>1 DEF Inv, TypeOK, Net!TypeOK, callVars
<1>3. Instances'
    BY <1>1 DEF Inv, Instances, TypeOK, Net!TypeOK, Busy, StartPersister, ShutdownPersister
<1> QED
    BY <1>1, <1>2, <1>3, QuietCalls, SameLinks DEF Inv, Up, Busy

LEMMA ShutdownCopiesStep ==
    ASSUME Constants, Inv, ShutdownCopies
    PROVE  Inv'
<1> DEFINE p == <<target, gen[target], "shutdown">>
<1>1. /\ pc = "copying" /\ pc' = "killing" /\ UNCHANGED target
      /\ CopyPersister(target, p)
      /\ UNCHANGED <<netVars, callVars, gen, kvservers, store, clerks, groups>>
    BY DEF ShutdownCopies, At
<1>2. target \in Servers /\ gen[target] > 0 /\ gen[target] \in 0 .. MaxGen
    BY <1>1 DEF Inv, TypeOK, Instances, Busy
<1>3. p \in Persisters /\ p[1] = target
    BY <1>2 DEF Persisters, Gens, Constants
<1>4. \A rs \in Objects : store[rs] # p
    <2> SUFFICES ASSUME NEW rs \in Objects, store[rs] = p PROVE FALSE
        OBVIOUS
    <2>1. store[rs] = <<rs[1], rs[2], "start">>
        BY <1>3 DEF Inv, Instances, Constants
    <2> QED
        BY <2>1
<1>5. \A c \in Calls : Effect(c)'
    BY <1>1, <1>2, <1>3, <1>4, CopyEffect
<1>6. disk' \in [Persisters -> SUBSET Calls] /\ saved' = [saved EXCEPT ![target] = p]
    BY <1>1, <1>2 DEF CopyPersister, Inv, TypeOK
<1> HIDE DEF p
<1>7. TypeOK'
    BY <1>1, <1>2, <1>3, <1>6 DEF Inv, TypeOK, Net!TypeOK, callVars, netVars
<1>8. Instances'
    BY <1>1, <1>2, <1>6 DEF Inv, Instances, TypeOK, Busy, StartPersister, ShutdownPersister, netVars, p
<1> QED
    BY <1>1, <1>5, <1>7, <1>8, QuietCalls, SameLinks DEF Inv, Up, Busy, netVars

LEMMA ShutdownEndsStep ==
    ASSUME Constants, Inv, ShutdownEnds
    PROVE  Inv'
<1>1. /\ pc = "killing" /\ pc' = "idle" /\ UNCHANGED target
      /\ kvservers' = [kvservers EXCEPT ![target] = None]
      /\ UNCHANGED <<netVars, callVars, gen, saved, disk, store, clerks, groups>>
    BY DEF ShutdownEnds, At
<1>2. TypeOK'
    BY <1>1 DEF Inv, TypeOK, Net!TypeOK, callVars, netVars
<1>3. Instances'
    BY <1>1 DEF Inv, Instances, TypeOK, Busy, StartPersister, ShutdownPersister, netVars
<1>4. \A k \in Servers : Up(k) => Up(k)'
    BY <1>1 DEF Inv, TypeOK, Up, Busy
<1> QED
    BY <1>1, <1>2, <1>3, <1>4, QuietCalls, SameLinks DEF Inv, netVars

LEMMA StartServerStep ==
    ASSUME Constants, Inv, NEW i \in Servers, StartServer(i)
    PROVE  Inv'
<1> DEFINE g == gen[i] + 1
           fresh == {ServerEnd(i, g, j) : j \in Servers}
           p == <<i, g, "start">>
<1>1. /\ pc = "idle" /\ pc' = "starting" /\ target' = i /\ kvservers[i] = None
      /\ gen[i] < MaxGen
      /\ gen' = [gen EXCEPT ![i] = g]
      /\ made' = made \cup fresh
      /\ connections' = [e \in KvEnds |-> IF e \in fresh THEN e[4] ELSE connections[e]]
      /\ enabled' = [e \in KvEnds |-> enabled[e] /\ e \notin fresh]
      /\ CopyPersister(i, p)
      /\ UNCHANGED <<servers, reliable, closed, looping, added, callVars>>
      /\ UNCHANGED <<kvservers, store, clerks, groups>>
    BY DEF StartServer
<1>2. gen[i] \in 0 .. MaxGen /\ g \in Gens /\ g \in 0 .. MaxGen /\ g > 0 /\ gen[i] < g
    BY <1>1 DEF Inv, TypeOK, Constants, Gens
<1>3. p \in Persisters /\ p[1] = i
    BY <1>2 DEF Persisters
<1>4. \A rs \in Objects : store[rs] # p
    <2> SUFFICES ASSUME NEW rs \in Objects, store[rs] = p PROVE FALSE
        OBVIOUS
    <2>1. store[rs] = <<rs[1], rs[2], "start">> /\ rs[2] <= gen[rs[1]]
        BY <1>3 DEF Inv, Instances, Constants
    <2> QED
        BY <1>2, <2>1
<1>5. \A c \in Calls : Effect(c)'
    BY <1>1, <1>3, <1>4, CopyEffect
<1>6. disk' \in [Persisters -> SUBSET Calls] /\ saved' = [saved EXCEPT ![i] = p]
    BY <1>1, <1>2 DEF CopyPersister, Inv, TypeOK
<1>7. fresh \subseteq KvEnds
    BY <1>2, EndNames
<1>8. /\ \A e \in KvEnds : enabled'[e] <=> enabled[e] /\ e \notin fresh
      /\ enabled' \in [KvEnds -> BOOLEAN]
    <2>1. \A e \in KvEnds : (enabled[e] /\ e \notin fresh) \in BOOLEAN
        OBVIOUS
    <2> HIDE DEF fresh
    <2> QED
        BY <1>1, <2>1, Zenon
<1>9. TypeOK'
    <2> HIDE DEF fresh, p
    <2>1. /\ made' \subseteq KvEnds
          /\ connections' \in [KvEnds -> Servers \cup {None}]
        BY <1>1, <1>7, EndNames DEF Inv, TypeOK, Net!TypeOK
    <2>2. gen' \in [Servers -> 0 .. MaxGen]
        BY <1>1, <1>2 DEF Inv, TypeOK
    <2> QED
        BY <1>1, <1>3, <1>6, <1>8, <2>1, <2>2 DEF Inv, TypeOK, Net!TypeOK, callVars
<1>10. Instances'
    <2>1. servers[i] = None
        BY <1>1 DEF Inv, Instances
    <2>2. ASSUME NEW rs \in Objects, store[rs] # None PROVE rs[2] <= gen'[rs[1]]
        <3>1. rs[2] <= gen[rs[1]] /\ rs[1] \in Servers /\ gen[rs[1]] \in Int /\ rs[2] \in Int
            BY <2>2 DEF Inv, Instances, Objects, TypeOK, Gens
        <3> QED
            BY <1>1, <1>2, <3>1 DEF Inv, TypeOK
    <2> QED
        BY <1>1, <1>2, <1>6, <2>1, <2>2
        DEF Inv, Instances, TypeOK, Busy, StartPersister, ShutdownPersister
<1>11. \A a, b \in Servers, h \in Gens : enabled'[ServerEnd(a, h, b)] =>
          /\ enabled[ServerEnd(a, h, b)] /\ h = gen[a] /\ gen'[a] = gen[a]
          /\ Up(a)' /\ Up(b)'
    <2> SUFFICES ASSUME NEW a \in Servers, NEW b \in Servers, NEW h \in Gens,
                        enabled'[ServerEnd(a, h, b)]
                 PROVE  /\ enabled[ServerEnd(a, h, b)] /\ h = gen[a] /\ gen'[a] = gen[a]
                        /\ Up(a)' /\ Up(b)'
        OBVIOUS
    <2>1. enabled[ServerEnd(a, h, b)]
        BY <1>8, EndNames
    <2>2. h = gen[a] /\ Up(a) /\ Up(b) /\ a # i /\ b # i
        BY <1>1, <2>1 DEF Inv, LinksAreUp, Up
    <2> QED
        BY <1>1, <2>1, <2>2 DEF Up, Busy, Inv, TypeOK
<1>12. LinksAreUp'
    BY <1>11 DEF LinksAreUp
<1>13. ASSUME NEW a \in Servers, NEW b \in Servers, gen'[a] > 0, gen'[b] > 0
       PROVE  /\ Linked(a, b)' <=> Linked(b, a)'
              /\ groups # None /\ Linked(a, b)' =>
                   {a, b} \subseteq groups.p1 \/ {a, b} \subseteq groups.p2
    <2>1. gen'[a] \in Gens /\ gen'[b] \in Gens
        BY <1>2, <1>9, <1>13 DEF TypeOK, Constants, Gens
    <2>2. Linked(a, b)' => a # i /\ b # i
        BY <1>1, <1>11, <2>1 DEF Linked, Up, Busy
    <2>3. Linked(b, a)' => a # i /\ b # i
        BY <1>1, <1>11, <2>1 DEF Linked, Up, Busy
    <2>4. CASE a # i /\ b # i
        <3>1. gen'[a] = gen[a] /\ gen'[b] = gen[b]
            BY <1>1, <2>4 DEF Inv, TypeOK
        <3>2. (Linked(a, b)' <=> Linked(a, b)) /\ (Linked(b, a)' <=> Linked(b, a))
            BY <1>8, <2>1, <2>4, <3>1, EndNames DEF Linked
        <3> QED
            BY <1>13, <3>1, <3>2 DEF Inv, LinksFollowGroups
    <2> QED
        BY <2>2, <2>3, <2>4
<1>14. LinksFollowGroups'
    BY <1>1, <1>13 DEF LinksFollowGroups
<1>15. GroupsMade'
    BY <1>1, <1>2 DEF Inv, TypeOK, GroupsMade
<1> QED
    BY <1>1, <1>5, <1>9, <1>10, <1>12, <1>14, <1>15, QuietCalls DEF Inv

LEMMA StartKVServerStep ==
    ASSUME Constants, Inv, StartKVServer
    PROVE  Inv'
<1> DEFINE rs == <<target, gen[target]>>
<1>1. /\ pc = "starting" /\ pc' = "adding" /\ UNCHANGED target
      /\ kvservers' = [kvservers EXCEPT ![target] = rs]
      /\ store' = [store EXCEPT ![rs] = saved[target]]
      /\ UNCHANGED <<netVars, callVars, gen, saved, disk, clerks, groups>>
    BY DEF StartKVServer, At
<1>2. /\ target \in Servers /\ gen[target] > 0 /\ gen[target] \in 0 .. MaxGen
      /\ saved[target] = StartPersister(target)
    BY <1>1 DEF Inv, TypeOK, Instances, Busy
<1>3. rs \in Objects /\ rs # None /\ StartPersister(target) \in Persisters /\ StartPersister(target) # None
    BY <1>2 DEF Objects, Persisters, Gens, Constants, StartPersister
<1>4. \A r \in Objects : store[r] # None => store'[r] = store[r]
    BY <1>1, <1>2, <1>3 DEF Inv, TypeOK, Instances, StartPersister
<1>5. \A c \in Calls : Effect(c)'
    <2> SUFFICES ASSUME NEW c \in Calls PROVE Effect(c)'
        OBVIOUS
    <2>1. proc[c] = "admitted" \/ handler[c] # "none" =>
             store[info[c].server] # None /\ store'[info[c].server] = store[info[c].server]
        BY <1>4, HasPersister DEF Inv, Effect
    <2> QED
        BY <1>1, <2>1 DEF Inv, Effect, callVars
<1>6. TypeOK'
    <2>1. store' \in [Objects -> Persisters \cup {None}] /\ kvservers' \in [Servers -> Objects \cup {None}]
        BY <1>1, <1>2, <1>3 DEF Inv, TypeOK
    <2>2. \A i \in Servers : kvservers'[i] # None => store'[kvservers'[i]] # None
        BY <1>1, <1>2, <1>3, <1>4 DEF Inv, TypeOK
    <2> HIDE DEF rs
    <2> QED
        BY <1>1, <2>1, <2>2 DEF Inv, TypeOK, Net!TypeOK, callVars, netVars
<1>7. Instances'
    <2>1. \A i \in Servers : store[<<i, gen[i]>>] = StartPersister(i) /\ gen[i] > 0 =>
             store'[<<i, gen[i]>>] = StartPersister(i)
        BY <1>1, <1>2, <1>3 DEF Inv, TypeOK
    <2>2. store'[rs] = StartPersister(target) /\ servers[target] = None
        BY <1>1, <1>2, <1>3 DEF Inv, TypeOK, Instances, Busy
    <2>3. \A r \in Objects : store'[r] # None =>
             store'[r] = <<r[1], r[2], "start">> /\ r[2] <= gen[r[1]]
        BY <1>1, <1>2, <1>3 DEF Inv, TypeOK, Instances, StartPersister
    <2>4. \A i \in Servers : kvservers'[i] # None =>
             gen[i] > 0 /\ kvservers'[i] = <<i, gen[i]>> /\ store'[<<i, gen[i]>>] = StartPersister(i)
        BY <1>1, <1>2, <2>1, <2>2 DEF Inv, TypeOK, Instances
    <2>5. \A i \in Servers :
            /\ servers[i] # None => servers[i] = kvservers'[i] /\ i # target
            /\ Busy(i, {"adding"})' => kvservers'[i] # None
        BY <1>1, <1>2, <1>3, <2>2 DEF Inv, TypeOK, Instances, Busy
    <2> QED
        BY <1>1, <1>2, <2>3, <2>4, <2>5 DEF Inv, Instances, Busy, netVars, StartPersister, ShutdownPersister
<1>8. \A k \in Servers : Up(k) => Up(k)'
    BY <1>1 DEF Inv, TypeOK, Up, Busy
<1> QED
    BY <1>1, <1>5, <1>6, <1>7, <1>8, QuietCalls, SameLinks DEF Inv, netVars

LEMMA StartEndsStep ==
    ASSUME Constants, Inv, StartEnds
    PROVE  Inv'
<1>1. /\ pc = "adding" /\ pc' = "idle" /\ UNCHANGED target
      /\ added' = added \cup {kvservers[target]}
      /\ servers' = [servers EXCEPT ![target] = kvservers[target]]
      /\ UNCHANGED <<made, enabled, connections, reliable, closed, looping, callVars>>
      /\ UNCHANGED <<gen, saved, disk, kvservers, store, clerks, groups>>
    BY DEF StartEnds, At, Net!AddServer, callVars, Net!callVars
<1>2. target \in Servers /\ kvservers[target] # None /\ saved[target] = StartPersister(target)
    BY <1>1 DEF Inv, TypeOK, Instances, Busy
<1>3. TypeOK'
    BY <1>1, <1>2 DEF Inv, TypeOK, Net!TypeOK, callVars
<1>4. Instances'
    BY <1>1, <1>2 DEF Inv, Instances, TypeOK, Net!TypeOK, Busy, StartPersister, ShutdownPersister
<1> QED
    BY <1>1, <1>3, <1>4, QuietCalls, SameLinks DEF Inv, Up, Busy

\* SetReliable() and cleanup() touch only a flag of the network.
LEMMA FlagsStep ==
    ASSUME Constants, Inv, cleanup \/ \E yes \in BOOLEAN : SetReliable(yes)
    PROVE  Inv'
<1>1. /\ UNCHANGED <<made, enabled, connections, servers, looping, added, callVars>>
      /\ UNCHANGED <<gen, saved, disk, kvservers, store, clerks, pc, target, groups>>
    BY DEF cleanup, SetReliable, Net!Cleanup, Net!Reliable, cfgVars, callVars, Net!callVars
<1>2. reliable' \in BOOLEAN /\ closed' \in BOOLEAN
    <2>1. reliable \in BOOLEAN /\ closed \in BOOLEAN
        BY DEF Inv, TypeOK, Net!TypeOK
    <2> QED
        BY <2>1, Zenon DEF cleanup, SetReliable, Net!Cleanup, Net!Reliable
<1>3. TypeOK'
    BY <1>1, <1>2 DEF Inv, TypeOK, Net!TypeOK, callVars
<1>4. Instances'
    BY <1>1 DEF Inv, Instances, Busy, StartPersister, ShutdownPersister
<1> QED
    BY <1>1, <1>3, <1>4, QuietCalls, SameLinks DEF Inv, Up, Busy

----------------------------------------------------------------------------
(* The steps of calls. *)

\* A server that the network knows writes to the Persister in cfg.saved.
LEMMA KnownServer ==
    ASSUME Constants, Inv, NEW s \in Servers, servers[s] # None
    PROVE  servers[s][1] = s /\ store[servers[s]] # None /\ store[servers[s]] = saved[s]
<1>1. servers[s] = <<s, gen[s]>> /\ store[<<s, gen[s]>>] = saved[s] /\ kvservers[s] = servers[s]
    BY DEF Inv, Instances
<1> QED
    BY <1>1 DEF Inv, TypeOK

\* The network runs a call only at the server it found, and reports success
\* only while that server is known.
LEMMA NetworkEffect ==
    ASSUME Constants, Inv, NEW c \in Calls, Net!Network(c), UNCHANGED cfgVars
    PROVE  \A d \in Calls : Effect(d)'
<1> USE DEF netVars, Net!netVars, cfgVars
<1>1. UNCHANGED <<store, disk, saved, servers>>
    BY DEF Net!Network, Net!Accept, Net!ReadEndnameInfo, Net!DropRequest, Net!Execute, Net!Dispatch,
       Net!Receive, Net!Poll, Net!Drain, Net!Decide, Net!Answer, Net!Destroyed
<1>2. ASSUME NEW d \in Calls, d # c PROVE Effect(d)'
    <2>1. proc'[d] = proc[d] /\ handler'[d] = handler[d] /\ client'[d] = client[d] /\ info'[d] = info[d]
        <3> USE DEF Inv, TypeOK, Net!TypeOK
        <3>1. CASE Net!Accept(c) \/ Net!Destroyed(c) \/ Net!DropRequest(c) \/ Net!Execute(c)
            BY <1>2, <3>1 DEF Net!Accept, Net!Destroyed, Net!DropRequest, Net!Execute
        <3>2. CASE Net!ReadEndnameInfo(c)
            BY <1>2, <3>2 DEF Net!ReadEndnameInfo
        <3>3. CASE Net!Dispatch(c) \/ Net!Receive(c) \/ Net!Poll(c) \/ Net!Drain(c)
            BY <1>2, <3>3 DEF Net!Dispatch, Net!Receive, Net!Poll, Net!Drain
        <3>4. CASE Net!Decide(c) \/ Net!Answer(c)
            BY <1>2, <3>4 DEF Net!Decide, Net!Answer
        <3> QED
            BY <3>1, <3>2, <3>3, <3>4 DEF Net!Network
    <2> QED
        BY <1>1, <2>1 DEF Inv, Effect
<1>3. Effect(c)'
    <2> USE DEF Inv, TypeOK, Net!TypeOK, Effect
    <2>1. NetProofs!CallInv(c)
        BY DEF CallsInv
    <2>2. CASE Net!Accept(c)
        BY <1>1, <2>1, <2>2 DEF Net!Accept, NetProofs!CallInv
    <2>3. CASE Net!ReadEndnameInfo(c)
        <3>1. /\ proc[c] = "accepted" /\ info'[c] = Net!EndnameInfo(c)
              /\ proc'[c] = "admitted" => Net!EndnameInfo(c).server # None
              /\ proc'[c] \in {"admitted", "failing"} /\ UNCHANGED <<client, handler>>
            BY <2>3 DEF Net!ReadEndnameInfo, Net!Admits
        <3>2. handler[c] = "none" /\ client[c] = "waiting" /\ end[c] \in KvEnds
            BY <2>1, <3>1 DEF NetProofs!CallInv
        <3>3. ASSUME proc'[c] = "admitted"
              PROVE  store[info'[c].server] # None /\ info'[c].server[1] = info'[c].servername
            <4> DEFINE s == connections[end[c]]
            <4>1. s # None /\ s \in Servers /\ servers[s] # None
                  /\ info'[c].servername = s /\ info'[c].server = servers[s]
                BY <3>1, <3>2, <3>3 DEF Net!EndnameInfo
            <4> HIDE DEF s
            <4> QED
                BY <4>1, KnownServer
        <3> QED
            BY <1>1, <3>1, <3>2, <3>3
    <2>4. CASE Net!DropRequest(c)
        BY <1>1, <2>1, <2>4 DEF Net!DropRequest, NetProofs!CallInv
    <2>5. CASE Net!Execute(c)
        BY <1>1, <2>1, <2>5 DEF Net!Execute, NetProofs!CallInv
    <2>6. CASE Net!Dispatch(c)
        BY <1>1, <2>1, <2>6 DEF Net!Dispatch, NetProofs!CallInv
    <2>7. CASE Net!Receive(c)
        BY <1>1, <2>1, <2>7 DEF Net!Receive, NetProofs!CallInv
    <2>8. CASE Net!Poll(c)
        BY <1>1, <2>1, <2>8 DEF Net!Poll, NetProofs!CallInv
    <2>9. CASE Net!Drain(c)
        BY <1>1, <2>1, <2>9 DEF Net!Drain, NetProofs!CallInv
    <2>10. CASE Net!Decide(c)
        <3>1. /\ proc'[c] \in {"replying", "failing"}
              /\ proc'[c] = "replying" => proc[c] = "received" /\ ~Net!isServerDead(c)
              /\ UNCHANGED <<client, info, handler>>
            BY <2>10 DEF Net!Decide, Net!MustFail
        <3>2. ASSUME proc'[c] = "replying" PROVE c \in disk[saved[info[c].servername]]
            <4>1. /\ handler[c] = "done" /\ servers[info[c].servername] = info[c].server
                  /\ info[c].servername \in Servers /\ info[c].server \in Objects
                BY <2>1, <3>1, <3>2, HasPersister DEF NetProofs!CallInv, Net!isServerDead
            <4>2. info[c].server # None
                BY <4>1 DEF Constants
            <4>3. store[info[c].server] = saved[info[c].servername]
                BY <4>1, <4>2, KnownServer
            <4> QED
                BY <4>1, <4>3
        <3> QED
            BY <1>1, <3>1, <3>2
    <2>11. CASE Net!Answer(c)
        BY <1>1, <2>1, <2>11 DEF Net!Answer, NetProofs!CallInv
    <2>12. CASE Net!Destroyed(c)
        BY <1>1, <2>1, <2>12 DEF Net!Destroyed, NetProofs!CallInv
    <2> QED
        BY <2>2, <2>3, <2>4, <2>5, <2>6, <2>7, <2>8, <2>9, <2>10, <2>11, <2>12 DEF Net!Network
<1> QED
    BY <1>2, <1>3

\* The handler of c has done its work, which is in its server's Persister.
LEMMA HandlesEffect ==
    ASSUME Constants, Inv, NEW c \in Calls, Handles(c)
    PROVE  (\A d \in Calls : Effect(d)') /\ disk' \in [Persisters -> SUBSET Calls]
<1> DEFINE p == store[info[c].server]
<1>1. /\ handler[c] = "running" /\ handler' = [handler EXCEPT ![c] = "returned"]
      /\ disk' = [disk EXCEPT ![p] = @ \cup {c}]
      /\ UNCHANGED <<client, proc, info, saved, store>>
    BY DEF Handles, Net!MethodReturns
<1>2. p \in Persisters
    BY <1>1, HasPersister DEF Inv, TypeOK, Effect
<1>3. \A q \in Persisters : disk[q] \subseteq disk'[q]
    BY <1>1, <1>2 DEF Inv, TypeOK
<1>4. c \in disk'[p] /\ disk' \in [Persisters -> SUBSET Calls]
    BY <1>1, <1>2 DEF Inv, TypeOK
<1>5. ASSUME NEW d \in Calls PROVE Effect(d)'
    <2>1. handler'[d] = IF d = c THEN "returned" ELSE handler[d]
        BY <1>1 DEF Inv, TypeOK, Net!TypeOK
    <2>2. ASSUME handler'[d] \in {"returned", "done"} PROVE d \in disk'[store[info[d].server]]
        <3>1. CASE d = c
            BY <1>4, <3>1
        <3>2. CASE d # c
            <4>1. store[info[d].server] \in Persisters /\ d \in disk[store[info[d].server]]
                BY <2>1, <2>2, <3>2, HasPersister DEF Inv, TypeOK, Effect
            <4> QED
                BY <1>3, <4>1
        <3> QED
            BY <3>1, <3>2
    <2>3. ASSUME proc[d] = "replying" \/ client[d] = "ok"
          PROVE  d \in disk'[saved[info[d].servername]]
        <3>1. info[d].servername \in Servers /\ gen[info[d].servername] > 0
            BY <2>3, HasPersister
        <3>2. saved[info[d].servername] \in Persisters
            <4>1. gen[info[d].servername] \in 0 .. MaxGen
                BY <3>1 DEF Inv, TypeOK
            <4>2. saved[info[d].servername] \in
                    {StartPersister(info[d].servername), ShutdownPersister(info[d].servername)}
                BY <3>1 DEF Inv, Instances
            <4> QED
                BY <3>1, <4>1, <4>2 DEF StartPersister, ShutdownPersister, Constants, Persisters, Gens
        <3>3. d \in disk[saved[info[d].servername]]
            BY <2>3 DEF Inv, Effect
        <3> QED
            BY <1>3, <3>2, <3>3
    <2> QED
        BY <1>1, <2>1, <2>2, <2>3 DEF Inv, Effect
<1> QED
    BY <1>4, <1>5

\* The steps of calls change, of the harness's variables, at most a disk.
LEMMA WorksQuiet ==
    Works => /\ UNCHANGED <<enabled, servers>>
             /\ UNCHANGED <<gen, saved, kvservers, store, clerks, pc, target, groups>>
BY DEF Works, Handles, Net!MethodReturns, Net!Call, Net!LoopEnds, Net!Network, Net!Accept,
       Net!ReadEndnameInfo, Net!DropRequest, Net!Execute, Net!Dispatch, Net!Receive, Net!Poll,
       Net!Drain, Net!Decide, Net!Answer, Net!Destroyed, Net!netVars, cfgVars

LEMMA WorksStep == Constants /\ Inv /\ Works => Inv'
<1> SUFFICES ASSUME Constants, Inv, Works PROVE Inv'
    OBVIOUS
<1>1. NetProofs!Inv /\ made \subseteq KvEnds
    BY SameTypes DEF Inv, TypeOK, Net!TypeOK
<1> DEFINE Goal ==
      NetProofs!Inv' /\ disk' \in [Persisters -> SUBSET Calls] /\ \A d \in Calls : Effect(d)'
<1>2. Goal
    <2>1. ASSUME UNCHANGED cfgVars PROVE disk' \in [Persisters -> SUBSET Calls]
        BY <2>1 DEF Inv, TypeOK, cfgVars
    <2>2. ASSUME NEW c \in Calls, NEW e \in made, Net!Call(c, e), UNCHANGED cfgVars
          PROVE  Goal
        <3>1. NetProofs!Inv'
            BY <1>1, <2>2, SameActions, NetProofs!CallStep
        <3>2. \A d \in Calls : Effect(d)'
            BY <2>2 DEF Net!Call, Net!netVars, cfgVars, Inv, TypeOK, Net!TypeOK, Effect
        <3> QED
            BY <2>1, <2>2, <3>1, <3>2
    <2>3. ASSUME NEW c \in Calls, Handles(c) PROVE Goal
        <3>1. NetProofs!MethodReturns(c)
            BY <2>3, SameActions DEF Handles
        <3> QED
            BY <1>1, <2>3, <3>1, HandlesEffect, NetProofs!CallStep
    <2>4. ASSUME NEW c \in Calls, Net!Network(c), UNCHANGED cfgVars
          PROVE  Goal
        <3>1. NetProofs!Network(c)
            BY <2>4, SameActions
        <3> QED
            BY <1>1, <2>1, <2>4, <3>1, NetworkEffect, NetProofs!CallStep
    <2>5. ASSUME Net!LoopEnds, UNCHANGED cfgVars PROVE Goal
        <3>1. NetProofs!Inv'
            BY <1>1, <2>5, SameActions, NetProofs!NetStep
        <3>2. UNCHANGED callVars /\ UNCHANGED <<disk, saved, store>>
            BY <2>5 DEF Net!LoopEnds, callVars, Net!callVars, cfgVars
        <3> QED
            BY <2>1, <2>5, <3>1, <3>2, QuietCalls
    <2> QED
        BY <2>2, <2>3, <2>4, <2>5 DEF Works
<1>3. Net!TypeOK' /\ CallsInv'
    BY <1>2, SameTypes
<1>4. TypeOK'
    BY <1>2, <1>3, WorksQuiet DEF Inv, TypeOK
<1>5. Instances'
    BY WorksQuiet DEF Inv, Instances, Busy, StartPersister, ShutdownPersister
<1>6. LinksAreUp' /\ LinksFollowGroups' /\ GroupsMade'
    BY WorksQuiet, SameLinks DEF Up, Busy
<1> QED
    BY <1>2, <1>3, <1>4, <1>5, <1>6 DEF Inv

----------------------------------------------------------------------------
(* Theorems. *)

LEMMA InvStep == Constants /\ Inv /\ [Next]_vars => Inv'
<1> SUFFICES ASSUME Constants, Inv, [Next]_vars PROVE Inv'
    OBVIOUS
<1>1. CASE Restarts
    BY <1>1, ShutdownServerStep, StartServerStep, ShutdownDeletesStep, ShutdownCopiesStep,
       ShutdownEndsStep, StartKVServerStep, StartEndsStep, FlagsStep DEF Restarts
<1>2. CASE UNCHANGED vars
    <2>1. /\ UNCHANGED <<made, enabled, connections, servers, reliable, closed, looping, added, callVars>>
          /\ UNCHANGED <<gen, saved, disk, kvservers, store, clerks, pc, target, groups>>
        BY <1>2 DEF vars, netVars, cfgVars
    <2>2. TypeOK'
        BY <2>1 DEF Inv, TypeOK, Net!TypeOK, callVars
    <2>3. Instances'
        BY <2>1 DEF Inv, Instances, Busy, StartPersister, ShutdownPersister
    <2> QED
        BY <2>1, <2>2, <2>3, QuietCalls, SameLinks DEF Inv, Up, Busy
<1> QED
    BY <1>1, <1>2, ConnectsStep, WorksStep DEF Next

LEMMA Invariance == Constants => (Spec => []Inv)
<1> SUFFICES ASSUME Constants PROVE Spec => []Inv
    OBVIOUS
<1>1. Init => Inv
    BY InitInv
<1>2. Inv /\ [Next]_vars => Inv'
    BY InvStep
<1> QED
    BY <1>1, <1>2, PTL DEF Spec

\* kvraft/config.go: the variables of harness and network keep their types, and
\* no server runs without a Persister.
THEOREM TypeCorrect == Constants => (Spec => []TypeOK)
<1>1. Inv => TypeOK
    BY DEF Inv
<1> QED
    BY <1>1, Invariance, PTL

\* kvraft/config.go:261-266: for any number of servers, calls and restarts, the
\* effect of a call that returned true is in the Persister that the next
\* instance of its server will get, although old instances go on running.
THEOREM AckedSafe == Constants => (Spec => []AckedIsSaved)
<1>1. Inv => AckedIsSaved
    BY DEF Inv, Effect, AckedIsSaved
<1> QED
    BY <1>1, Invariance, PTL

\* kvraft/config.go:254, 290: ends of an instance that was shut down are off.
THEOREM OldIsolated == Constants => (Spec => []OldInstanceIsolated)
<1> SUFFICES ASSUME Constants PROVE Spec => []OldInstanceIsolated
    OBVIOUS
<1>1. Inv => OldInstanceIsolated
    <2> SUFFICES ASSUME Inv, NEW i \in Servers, NEW j \in Servers, NEW g \in Gens,
                        g < gen[i] \/ (g = gen[i] /\ kvservers[i] = None),
                        enabled[ServerEnd(i, g, j)]
                 PROVE  FALSE
        BY DEF OldInstanceIsolated
    <2>1. g = gen[i] /\ kvservers[i] # None /\ gen[i] \in Int
        BY DEF Inv, TypeOK, LinksAreUp, Up
    <2> QED
        BY <2>1
<1> QED
    BY <1>1, Invariance, PTL

\* kvraft/config.go:173: for any sequence of partitions, connections, restarts
\* and shutdowns, links are two-way and follow the partition.
THEOREM GroupsRespected == Constants => (Spec => []LinksFollowGroups)
<1>1. Inv => LinksFollowGroups
    BY DEF Inv
<1> QED
    BY <1>1, Invariance, PTL

\* kvraft/config.go:338: with any odd number of servers, the leader given to
\* make_partition() has links to fewer than half of the servers, none in p1.
THEOREM LeaderCutOff == Constants /\ N % 2 = 1 => (Spec => []LeaderInMinority)
<1> SUFFICES ASSUME Constants, N % 2 = 1 PROVE Spec => []LeaderInMinority
    OBVIOUS
<1>1. Inv => LeaderInMinority
    <2> SUFFICES ASSUME Inv, groups # None, groups.leader # None
                 PROVE  LET near == {j \in Servers : Linked(groups.leader, j)} IN
                          near \cap groups.p1 = {} /\ 2 * Cardinality(near) < N
        BY DEF LeaderInMinority
    <2> DEFINE near == {j \in Servers : Linked(groups.leader, j)}
    <2>1. /\ \A i \in Servers : gen[i] > 0
          /\ groups.leader \in Servers \ groups.p1
          /\ groups.p1 \cap groups.p2 = {}
          /\ IsFiniteSet(groups.p2) /\ 2 * Cardinality(groups.p2) < N
        BY DEF Inv, GroupsMade
    <2>2. near \subseteq groups.p2
        BY <2>1 DEF Inv, LinksFollowGroups
    <2>3. Cardinality(near) <= Cardinality(groups.p2) /\ IsFiniteSet(near)
        BY <2>1, <2>2, FS_Subset
    <2>4. Cardinality(near) \in Nat /\ Cardinality(groups.p2) \in Nat
        BY <2>1, <2>3, FS_CardinalityType
    <2>5. near \cap groups.p1 = {}
        BY <2>1, <2>2
    <2> HIDE DEF near
    <2>6. 2 * Cardinality(near) < N
        BY <2>1, <2>3, <2>4 DEF Constants
    <2> QED
        BY <2>5, <2>6 DEF near
<1> QED
    BY <1>1, Invariance, PTL
=============================================================================
