------------------------------ MODULE MCHarness ------------------------------
(***************************************************************************)
(* labrpc and the two harnesses that drive it, in one run.  `test` says    *)
(* what is being done to the network, from the first state on:             *)
(*                                                                         *)
(*   "any"        operations of labrpc in any order (module LabRpc)        *)
(*   "restart"    kvraft's harness restarts one server around a call       *)
(*   "partition"  kvraft's harness partitions and restarts three servers   *)
(*   "shard"      shardkv's harness restarts a server around a call        *)
(*                                                                         *)
(* The tests share nothing; variables that one does not have are None.     *)
(***************************************************************************)
EXTENDS Naturals

CONSTANTS c1, k1, e1, s1, o1, o2, None

VARIABLES
  test,
  made, enabled, connections, servers, reliable, closed, looping, added,
  end, client, proc, info, handler, drain, runs,
  gen, saved, disk, kvservers, store, clerks, pc, target, groups, live

netVars == <<made, enabled, connections, servers, reliable, closed, looping, added,
             end, client, proc, info, handler, drain, runs>>
cfgVars == <<gen, saved, disk, kvservers, store, clerks, pc, target, groups, live>>
vars == <<test, netVars, cfgVars>>

Calls == {c1}

\* One server name, with two server objects one after the other.
Any == INSTANCE LabRpc WITH Ends <- {e1}, ServerNames <- {s1}, Objects <- {o1, o2}
Restart == INSTANCE KvConfig WITH N <- 1, Clerks <- {k1}, MaxGen <- 3
Partition == INSTANCE KvConfig WITH N <- 3, Clerks <- {}, MaxGen <- 2
Shard == INSTANCE ShardConfig WITH Groups <- {1}, N <- 1, NMasters <- 1,
                                   Clerks <- {k1}, MaxGen <- 2

Init ==
  \/ /\ test = "any" /\ Any!Init
     /\ gen = None /\ saved = None /\ disk = None /\ kvservers = None /\ store = None
     /\ clerks = None /\ pc = None /\ target = None /\ groups = None /\ live = None
  \/ test = "restart" /\ Restart!Init /\ live = None
  \/ test = "partition" /\ Partition!Init /\ live = None
  \/ test = "shard" /\ Shard!Init /\ kvservers = None /\ clerks = None /\ groups = None

Next ==
  /\ \/ test = "any" /\ Any!Next /\ UNCHANGED cfgVars
     \/ test = "restart" /\ Restart!Next /\ UNCHANGED live
     \/ test = "partition" /\ Partition!Next /\ UNCHANGED <<client, live>>  \* without calls
     \/ test = "shard" /\ Shard!Next /\ UNCHANGED <<kvservers, clerks, groups>>
  /\ UNCHANGED test

Spec == Init /\ [][Next]_vars

\* As LabRpc!FairSpec.
FairSpec ==
  /\ Spec
  /\ WF_vars(test = "any" /\ Any!LoopEnds /\ UNCHANGED <<test, cfgVars>>)
  /\ \A c \in Calls : WF_vars(test = "any" /\ Any!Network(c) /\ UNCHANGED <<test, cfgVars>>)

-----------------------------------------------------------------------------
(* The properties of LabRpc, KvConfig and ShardConfig, each for its tests. *)

\* The types of the network and, with its harness, of the servers.
TypeOK ==
  /\ test = "any" => Any!TypeOK
  /\ test = "restart" => Restart!TypeOK
  /\ test = "partition" => Partition!TypeOK
  /\ test = "shard" => Shard!TypeOK

\* labrpc.go:82-84: the handler runs at most once and true is returned only
\* after it ran, whatever a tester or a harness does to ends and servers.
AtMostOnce == Any!AtMostOnce

\* labrpc.go:37-38: calls return, unless the handler hangs at a server that stays.
CallReturns == test = "any" => Any!CallReturns

\* labrpc.go:256: no handler's goroutine stays blocked on its reply.
HandlerEnds == test = "any" => Any!HandlerEnds

\* kvraft/config.go:261-266, shardkv/config.go:169-174: what a call that
\* returned true did is in the Persister that the next instance will get.
AckedIsSaved ==
  /\ test = "restart" => Restart!AckedIsSaved
  /\ test = "shard" => Shard!AckedIsSaved

\* kvraft/config.go:254, 290 and shardkv/config.go:159-167: the ends that the
\* harness made for an instance that was shut down are off and stay off, given that
\* tests rewire only running servers (KvConfig!AllUp).  The ends that a shardkv
\* server made for itself by make_end() are not among them: they stay on.
OldInstanceIsolated ==
  /\ test = "partition" => Partition!OldInstanceIsolated
  /\ test = "shard" => Shard!OwnEndsOff

\* kvraft/config.go:173: links are two-way and join no two groups.
LinksFollowGroups == test = "partition" => Partition!LinksFollowGroups

\* kvraft/config.go:338: the leader is in a minority, cut off from p1.
LeaderInMinority == test = "partition" => Partition!LeaderInMinority
=============================================================================
