------------------------------- MODULE LabRpc -------------------------------
(***************************************************************************)
(* labrpc: the simulated network.  A Call() hands its request to the       *)
(* network's goroutine; processReq() looks the end and the server up,      *)
(* runs the handler in a goroutine of its own, and answers.  Meanwhile the *)
(* tester enables and disables ends and adds and deletes servers.  Each    *)
(* action is one critical section of rn.mu or one rendezvous on a channel. *)
(* Delays (short delays, longDelays, longReordering) are not modelled as   *)
(* such: any step may wait for any time.                                   *)
(***************************************************************************)
EXTENDS Naturals, FiniteSets

CONSTANTS
  Calls,        \* the calls made, each at most once
  Ends,         \* names of ClientEnds
  ServerNames,  \* names of servers
  Objects,      \* *Server objects, each added at most once
  None          \* Go's nil

VARIABLES
  made,         \* rn.ends: the ends created
  enabled,      \* rn.enabled
  connections,  \* rn.connections: end -> server name or None
  servers,      \* rn.servers: server name -> object or None
  reliable,     \* rn.reliable
  closed,       \* rn.done is closed
  looping,      \* the goroutine of MakeNetwork runs
  added,        \* the objects that were given to AddServer
  end,          \* end[c]: the end call c is made on
  client,       \* client[c]: where Call() is
  proc,         \* proc[c]: where processReq() is
  info,         \* info[c]: what processReq() read with readEndnameInfo
  handler,      \* handler[c]: where the handler's goroutine is
  drain,        \* drain[c]: a goroutine waits to empty ech
  runs          \* runs[c]: how often the handler's method was called

netVars == <<made, enabled, connections, servers, reliable, closed, looping, added>>
callVars == <<end, client, proc, info, handler, drain, runs>>
vars == <<netVars, callVars>>

Returned == {"ok", "failed"}
ClientStates == {"idle", "sending", "waiting"} \cup Returned
ProcStates == {"none", "accepted", "admitted", "waiting", "received", "gaveup",
               "failing", "replying", "done"}
HandlerStates == {"none", "started", "running", "returned", "done"}

NoInfo == [servername |-> None, server |-> None, reliable |-> TRUE]

Infos == [servername : ServerNames \cup {None}, server : Objects \cup {None},
          reliable : BOOLEAN]

\* The variables have their types, and server.dispatch() is never called on
\* a nil server, although the server may be deleted at any time.
TypeOK ==
  /\ made \subseteq Ends
  /\ enabled \in [Ends -> BOOLEAN]
  /\ connections \in [Ends -> ServerNames \cup {None}]
  /\ servers \in [ServerNames -> Objects \cup {None}]
  /\ reliable \in BOOLEAN /\ closed \in BOOLEAN /\ looping \in BOOLEAN
  /\ added \subseteq Objects
  /\ end \in [Calls -> Ends \cup {None}]
  /\ client \in [Calls -> ClientStates]
  /\ proc \in [Calls -> ProcStates]
  /\ info \in [Calls -> Infos]
  /\ handler \in [Calls -> HandlerStates]
  /\ drain \in [Calls -> BOOLEAN]
  /\ runs \in [Calls -> Nat]
  /\ \A c \in Calls : handler[c] # "none" =>
       info[c].servername \in ServerNames /\ info[c].server \in Objects

\* MakeNetwork().
Init ==
  /\ made = {}
  /\ enabled = [e \in Ends |-> FALSE]
  /\ connections = [e \in Ends |-> None]
  /\ servers = [s \in ServerNames |-> None]
  /\ reliable = TRUE
  /\ closed = FALSE
  /\ looping = TRUE
  /\ added = {}
  /\ end = [c \in Calls |-> None]
  /\ client = [c \in Calls |-> "idle"]
  /\ proc = [c \in Calls |-> "none"]
  /\ info = [c \in Calls |-> NoInfo]
  /\ handler = [c \in Calls |-> "none"]
  /\ drain = [c \in Calls |-> FALSE]
  /\ runs = [c \in Calls |-> 0]

-----------------------------------------------------------------------------
(* The tester's operations. *)

\* Names are random strings; log.Fatalf when one exists already.
MakeEnd(e) ==
  /\ e \notin made
  /\ made' = made \cup {e}
  /\ enabled' = [enabled EXCEPT ![e] = FALSE]
  /\ connections' = [connections EXCEPT ![e] = None]
  /\ UNCHANGED <<servers, reliable, closed, looping, added, callVars>>

Connect(e, s) ==
  /\ connections' = [connections EXCEPT ![e] = s]
  /\ UNCHANGED <<made, enabled, servers, reliable, closed, looping, added, callVars>>

\* Enable(e, yes) for every end of E: the testers do it for several at a time.
Enable(E, yes) ==
  /\ enabled' = [e \in Ends |-> IF e \in E THEN yes ELSE enabled[e]]
  /\ UNCHANGED <<made, connections, servers, reliable, closed, looping, added, callVars>>

\* rs comes from MakeServer(), so that it is not an object added before.
AddServer(s, rs) ==
  /\ rs \notin added
  /\ added' = added \cup {rs}
  /\ servers' = [servers EXCEPT ![s] = rs]
  /\ UNCHANGED <<made, enabled, connections, reliable, closed, looping, callVars>>

DeleteServer(s) ==
  /\ servers' = [servers EXCEPT ![s] = None]
  /\ UNCHANGED <<made, enabled, connections, reliable, closed, looping, added, callVars>>

Reliable(yes) ==
  /\ reliable' = yes
  /\ UNCHANGED <<made, enabled, connections, servers, closed, looping, added, callVars>>

\* Called once: closing a closed channel panics.
Cleanup ==
  /\ ~closed
  /\ closed' = TRUE
  /\ UNCHANGED <<made, enabled, connections, servers, reliable, looping, added, callVars>>

-----------------------------------------------------------------------------
(* ClientEnd.Call() and the goroutine of MakeNetwork(). *)

\* Call() up to its select.
Call(c, e) ==
  /\ client[c] = "idle"
  /\ e \in made
  /\ client' = [client EXCEPT ![c] = "sending"]
  /\ end' = [end EXCEPT ![c] = e]
  /\ UNCHANGED <<netVars, proc, info, handler, drain, runs>>

\* The rendezvous on rn.endCh; "go rn.processReq(xreq)".
Accept(c) ==
  /\ client[c] = "sending"
  /\ looping
  /\ client' = [client EXCEPT ![c] = "waiting"]
  /\ proc' = [proc EXCEPT ![c] = "accepted"]
  /\ UNCHANGED <<netVars, end, info, handler, drain, runs>>

\* "entire Network has been destroyed."  With the goroutine still there,
\* the select may take either branch.
Destroyed(c) ==
  /\ client[c] = "sending"
  /\ closed
  /\ client' = [client EXCEPT ![c] = "failed"]
  /\ UNCHANGED <<netVars, end, proc, info, handler, drain, runs>>

LoopEnds ==
  /\ looping /\ closed
  /\ looping' = FALSE
  /\ UNCHANGED <<made, enabled, connections, servers, reliable, closed, added, callVars>>

-----------------------------------------------------------------------------
(* processReq(). *)

\* readEndnameInfo(end[c]).
EndnameInfo(c) ==
  LET s == connections[end[c]] IN
    [servername |-> s, server |-> IF s = None THEN None ELSE servers[s],
     reliable |-> reliable]

\* A mutation: no look at the server, which may have been deleted.
AdmitsConnected(c) == enabled[end[c]] /\ EndnameInfo(c).servername # None

Admits(c) == enabled[end[c]] /\ EndnameInfo(c).server # None

ReadEndnameInfo(c) ==
  /\ proc[c] = "accepted"
  /\ info' = [info EXCEPT ![c] = EndnameInfo(c)]
  /\ proc' = [proc EXCEPT ![c] = IF Admits(c) THEN "admitted" ELSE "failing"]
  /\ UNCHANGED <<netVars, end, client, handler, drain, runs>>

\* "drop the request, return as if timeout".
DropRequest(c) ==
  /\ proc[c] = "admitted"
  /\ ~info[c].reliable
  /\ proc' = [proc EXCEPT ![c] = "failing"]
  /\ UNCHANGED <<netVars, end, client, info, handler, drain, runs>>

\* "go func() { r := server.dispatch(req); ech <- r }()".
Execute(c) ==
  /\ proc[c] = "admitted"
  /\ proc' = [proc EXCEPT ![c] = "waiting"]
  /\ handler' = [handler EXCEPT ![c] = "started"]
  /\ UNCHANGED <<netVars, end, client, info, drain, runs>>

\* Server.dispatch() and Service.dispatch() up to the call of the method.
Dispatch(c) ==
  /\ handler[c] = "started"
  /\ handler' = [handler EXCEPT ![c] = "running"]
  /\ UNCHANGED <<netVars, end, client, proc, info, drain, runs>>

\* The method returns; its goroutine is now at "ech <- r".
MethodReturns(c) ==
  /\ handler[c] = "running"
  /\ runs' = [runs EXCEPT ![c] = @ + 1]
  /\ handler' = [handler EXCEPT ![c] = "returned"]
  /\ UNCHANGED <<netVars, end, client, proc, info, drain>>

\* "case reply = <-ech".
Receive(c) ==
  /\ proc[c] = "waiting"
  /\ handler[c] = "returned"
  /\ proc' = [proc EXCEPT ![c] = "received"]
  /\ handler' = [handler EXCEPT ![c] = "done"]
  /\ UNCHANGED <<netVars, end, client, info, drain, runs>>

\* A mutation: a server deleted and added again within 100ms seems alive.
IsDeleted(c) == ~enabled[end[c]] \/ servers[info[c].servername] = None

isServerDead(c) ==
  \/ ~enabled[end[c]]
  \/ servers[info[c].servername] # info[c].server

\* A mutation: nobody takes the late reply from ech.
PollNoDrain(c) ==
  /\ proc[c] = "waiting"
  /\ isServerDead(c)
  /\ proc' = [proc EXCEPT ![c] = "gaveup"]
  /\ UNCHANGED <<netVars, end, client, info, handler, drain, runs>>

\* "case <-time.After(100 * time.Millisecond)".
Poll(c) ==
  /\ proc[c] = "waiting"
  /\ isServerDead(c)
  /\ proc' = [proc EXCEPT ![c] = "gaveup"]
  /\ drain' = [drain EXCEPT ![c] = TRUE]
  /\ UNCHANGED <<netVars, end, client, info, handler, runs>>

\* The goroutine that lets the handler's goroutine end.
Drain(c) ==
  /\ drain[c]
  /\ handler[c] = "returned"
  /\ handler' = [handler EXCEPT ![c] = "done"]
  /\ drain' = [drain EXCEPT ![c] = FALSE]
  /\ UNCHANGED <<netVars, end, client, proc, info, runs>>

\* A mutation: replyOK is forgotten, though the end was enabled again.
ForgetsReplyOK(c) == isServerDead(c)

\* "replyOK == false || serverDead == true", with serverDead read anew.
MustFail(c) == proc[c] = "gaveup" \/ isServerDead(c)

\* The last look at the server, and the choice to drop the reply.
Decide(c) ==
  /\ proc[c] \in {"received", "gaveup"}
  /\ \/ proc' = [proc EXCEPT ![c] = IF MustFail(c) THEN "failing" ELSE "replying"]
     \/ /\ ~info[c].reliable
        /\ proc' = [proc EXCEPT ![c] = "failing"]
  /\ UNCHANGED <<netVars, end, client, info, handler, drain, runs>>

\* The rendezvous on replyCh: Call() returns false, or true with the reply.
Answer(c) ==
  /\ proc[c] \in {"failing", "replying"}
  /\ client[c] = "waiting"
  /\ client' = [client EXCEPT ![c] = IF proc[c] = "replying" THEN "ok" ELSE "failed"]
  /\ proc' = [proc EXCEPT ![c] = "done"]
  /\ UNCHANGED <<netVars, end, info, handler, drain, runs>>

-----------------------------------------------------------------------------
Network(c) == Accept(c) \/ ReadEndnameInfo(c) \/ DropRequest(c) \/ Execute(c)
  \/ Dispatch(c) \/ Receive(c) \/ Poll(c) \/ Drain(c) \/ Decide(c)
  \/ Answer(c) \/ Destroyed(c)

Tester ==
  \/ \E e \in Ends : MakeEnd(e)
  \/ \E e \in made, s \in ServerNames : connections[e] = None /\ Connect(e, s)
  \/ \E e \in made, yes \in BOOLEAN : Enable({e}, yes)
  \/ \E s \in ServerNames, rs \in Objects : AddServer(s, rs)
  \/ \E s \in ServerNames : DeleteServer(s)
  \/ \E yes \in BOOLEAN : Reliable(yes)
  \/ Cleanup

Next ==
  \/ Tester
  \/ LoopEnds
  \/ \E c \in Calls, e \in Ends : Call(c, e)
  \/ \E c \in Calls : MethodReturns(c) \/ Network(c)

Spec == Init /\ [][Next]_vars

\* The Go scheduler runs every goroutine that can run.  Nothing is assumed
\* of the tester, of the callers or of the handlers' methods.
FairSpec ==
  /\ Spec
  /\ WF_vars(LoopEnds)
  /\ \A c \in Calls : WF_vars(Network(c))

-----------------------------------------------------------------------------
(* Properties. *)

\* What the caller of c sees.
Seen(c) == IF client[c] \in {"sending", "waiting"} THEN "calling" ELSE client[c]

Abstract == INSTANCE Rpc WITH
  status <- [c \in Calls |-> Seen(c)], executed <- [c \in Calls |-> runs[c] > 0]

\* labrpc.go:82-84: the handler runs at most once and true is returned only
\* after it ran, whatever the tester does to ends and servers meanwhile.
AtMostOnce == Abstract!RpcSpec

\* The method of c is being run by a server that is still there.
Hangs(c) ==
  /\ proc[c] = "waiting" /\ handler[c] = "running"
  /\ enabled[end[c]] /\ servers[info[c].servername] = info[c].server

\* labrpc.go:37-38: a call returns, except if its handler does not return
\* while its server stays.
CallReturns == \A c \in Calls :
  <>[]~Hangs(c) => (client[c] \in {"sending", "waiting"} ~> client[c] \in Returned)

\* labrpc.go:256: a handler that has returned never stays blocked on ech,
\* also when nobody waits for its reply any more.
HandlerEnds == \A c \in Calls : handler[c] = "returned" ~> handler[c] = "done"
=============================================================================
