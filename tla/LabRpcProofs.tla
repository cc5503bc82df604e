---------------------------- MODULE LabRpcProofs ----------------------------
(***************************************************************************)
(* Proofs about LabRpc, for any calls, ends, servers and testers: its      *)
(* types, and that it implements Rpc.  Both rest on CallInv, which relates *)
(* the goroutines of one call to each other.                               *)
(***************************************************************************)
EXTENDS LabRpc, TLAPS

\* What processReq() read names a server that was there.
Admitted(c) == info[c].servername \in ServerNames /\ info[c].server \in Objects

\* How far the caller, processReq() and the handler's goroutine of a call
\* may be apart.
CallInv(c) ==
  /\ client[c] # "idle" => end[c] \in Ends
  /\ client[c] \in {"idle", "sending"} => proc[c] = "none"
  /\ proc[c] \notin {"none", "done"} => client[c] = "waiting"
  /\ proc[c] \in {"none", "accepted", "admitted"} => handler[c] = "none"
  /\ proc[c] = "admitted" \/ handler[c] # "none" => Admitted(c)
  /\ proc[c] \in {"received", "replying"} \/ client[c] = "ok" => handler[c] = "done"
  /\ runs[c] = IF handler[c] \in {"returned", "done"} THEN 1 ELSE 0

Inv == TypeOK /\ \A c \in Calls : CallInv(c)

\* In the beginning there is no call.
LEMMA InitInv == Init => Inv
<1> SUFFICES ASSUME Init PROVE Inv
    OBVIOUS
<1>1. reliable \in BOOLEAN /\ closed \in BOOLEAN /\ looping \in BOOLEAN
    BY Zenon DEF Init
<1>2. info \in [Calls -> Infos]
    BY DEF Init, NoInfo, Infos
<1>3. \A c \in Calls : CallInv(c)
    BY DEF Init, CallInv
<1> QED
    BY <1>1, <1>2, <1>3 DEF Init, Inv, TypeOK, ClientStates, ProcStates, HandlerStates

\* The steps of the tester and of the network's goroutine, which leave the
\* calls alone.
LEMMA NetStep ==
    ASSUME Inv, Tester \/ LoopEnds
    PROVE  Inv' /\ UNCHANGED callVars
<1>1. UNCHANGED callVars
    BY DEF Tester, LoopEnds, MakeEnd, Connect, Enable, AddServer, DeleteServer, Reliable,
           Cleanup
<1>2. TypeOK'
    BY <1>1, ZenonT(60) DEF Inv, TypeOK, callVars, Tester, LoopEnds, MakeEnd, Connect, Enable, AddServer,
           DeleteServer, Reliable, Cleanup
<1> QED
    BY <1>1, <1>2 DEF Inv, CallInv, Admitted, callVars

\* The steps of a call c.
LEMMA CallStep ==
    ASSUME Inv, NEW c \in Calls,
           MethodReturns(c) \/ Network(c) \/ \E e \in Ends : Call(c, e)
    PROVE  Inv'
<1> USE DEF Inv, TypeOK, CallInv, ClientStates, ProcStates, HandlerStates, Returned, netVars
<1>1. ASSUME NEW e \in Ends, Call(c, e) PROVE Inv'
    BY <1>1 DEF Call, Admitted
<1>2. CASE Accept(c)
    BY <1>2 DEF Accept, Admitted
<1>3. CASE ReadEndnameInfo(c)
    <2>1. proc[c] = "accepted" /\ end[c] \in Ends /\ handler[c] = "none"
        BY <1>3 DEF ReadEndnameInfo
    <2>2. EndnameInfo(c) \in Infos
        BY <2>1 DEF EndnameInfo, Infos
    <2>3. Admits(c) => EndnameInfo(c).servername \in ServerNames /\ EndnameInfo(c).server \in Objects
        BY <2>1 DEF Admits, EndnameInfo
    <2>4. /\ info' = [info EXCEPT ![c] = EndnameInfo(c)]
          /\ proc'[c] \in {"admitted", "failing"} /\ proc' = [proc EXCEPT ![c] = proc'[c]]
          /\ proc'[c] = "admitted" => Admits(c)
          /\ UNCHANGED <<netVars, end, client, handler, drain, runs>>
        BY <1>3 DEF ReadEndnameInfo
    <2> QED
        BY <2>1, <2>2, <2>3, <2>4 DEF Admitted
<1>4. CASE DropRequest(c)
    BY <1>4 DEF DropRequest, Admitted
<1>5. CASE Execute(c)
    BY <1>5 DEF Execute, Admitted
<1>6. CASE Dispatch(c)
    BY <1>6 DEF Dispatch, Admitted
<1>7. CASE MethodReturns(c)
    BY <1>7 DEF MethodReturns, Admitted
<1>8. CASE Receive(c)
    BY <1>8 DEF Receive, Admitted
<1>9. CASE Poll(c)
    BY <1>9 DEF Poll, Admitted
<1>10. CASE Drain(c)
    BY <1>10 DEF Drain, Admitted
<1>11. CASE Decide(c)
    <2>1. /\ proc[c] \in {"received", "gaveup"}
          /\ proc'[c] \in {"replying", "failing"} /\ proc' = [proc EXCEPT ![c] = proc'[c]]
          /\ proc'[c] = "replying" => proc[c] = "received"
          /\ UNCHANGED <<netVars, end, client, info, handler, drain, runs>>
        BY <1>11 DEF Decide, MustFail
    <2> QED
        BY <2>1 DEF Admitted
<1>12. CASE Answer(c)
    BY <1>12 DEF Answer, Admitted
<1>13. CASE Destroyed(c)
    BY <1>13 DEF Destroyed, Admitted
<1> QED
    BY <1>1, <1>2, <1>3, <1>4, <1>5, <1>6, <1>7, <1>8, <1>9, <1>10, <1>11, <1>12, <1>13 DEF Network

\* Whatever the step is, Inv holds after it.
LEMMA InvStep == Inv /\ [Next]_vars => Inv'
<1> SUFFICES ASSUME Inv, [Next]_vars PROVE Inv'
    OBVIOUS
<1>1. CASE UNCHANGED vars
    BY <1>1 DEF vars, netVars, callVars, Inv, TypeOK, CallInv, Admitted
<1> QED
    BY <1>1, NetStep, CallStep DEF Next

\* labrpc.go:213-296: the variables keep their types; in particular no request
\* is dispatched to a nil server, whenever servers are deleted.
THEOREM TypeCorrect == Spec => []TypeOK
<1>1. Inv => TypeOK
    BY DEF Inv
<1> QED
    BY <1>1, InitInv, InvStep, PTL DEF Spec

----------------------------------------------------------------------------
(* LabRpc implements Rpc. *)

LEMMA InitRefines == Init => Abstract!RpcInit
<1> SUFFICES ASSUME Init PROVE Abstract!RpcInit
    OBVIOUS
<1>1. [c \in Calls |-> Seen(c)] = [c \in Calls |-> "idle"]
    BY DEF Init, Seen
<1>2. \A c \in Calls : (runs[c] > 0) = FALSE
    BY DEF Init
<1>3. [c \in Calls |-> runs[c] > 0] = [c \in Calls |-> FALSE]
    BY <1>2, Zenon
<1> QED
    BY <1>1, <1>3, Zenon DEF Abstract!RpcInit

\* What it takes to be an update of a function.
LEMMA SetsAt ==
    ASSUME NEW S, NEW c, NEW f, NEW g, NEW v,
           f = [d \in S |-> f[d]], g = [d \in S |-> g[d]],
           \A d \in S : g[d] = IF d = c THEN v ELSE f[d]
    PROVE  g = [f EXCEPT ![c] = v]
OBVIOUS

\* What a step that only changes the caller's view of call c, or only whether
\* its handler has run, is to Rpc.
LEMMA SeenStep ==
    ASSUME NEW c \in Calls, \A d \in Calls : d # c => Seen(d)' = Seen(d),
           \A d \in Calls : (runs'[d] > 0) = (runs[d] > 0)
    PROVE  /\ Seen(c) = "idle" /\ Seen(c)' = "calling" => Abstract!Begin(c)
           /\ Seen(c) = "calling" /\ Seen(c)' = "failed" => Abstract!Fail(c)
           /\ Seen(c) = "calling" /\ Seen(c)' = "ok" /\ runs[c] > 0 => Abstract!Succeed(c)
           /\ Seen(c)' = Seen(c) => UNCHANGED Abstract!rpcVars
<1> DEFINE st == [d \in Calls |-> Seen(d)]
<1>1. UNCHANGED [d \in Calls |-> runs[d] > 0]
    BY Zenon
<1>2. st' = [st EXCEPT ![c] = Seen(c)'] /\ (Seen(c)' = Seen(c) => st' = st) /\ st[c] = Seen(c)
    OBVIOUS
<1>3. runs[c] > 0 => [d \in Calls |-> runs[d] > 0][c]
    BY Zenon
<1> QED
    BY <1>1, <1>2, <1>3, Zenon DEF Abstract!Begin, Abstract!Fail, Abstract!Succeed, Abstract!rpcVars

\* A step of call c shows the caller nothing, or is a step of Rpc.
LEMMA CallRefines ==
    ASSUME Inv, NEW c \in Calls,
           MethodReturns(c) \/ Network(c) \/ \E e \in Ends : Call(c, e)
    PROVE  [Abstract!RpcNext]_Abstract!rpcVars
<1> USE DEF Inv, TypeOK, CallInv, Returned
<1>1. CASE MethodReturns(c)
    <2> DEFINE st == [d \in Calls |-> Seen(d)]
               ex == [d \in Calls |-> runs[d] > 0]
    <2>1. st[c] \in {"calling", "failed"} /\ st' = st
        BY <1>1 DEF MethodReturns, Seen, ClientStates
    <2>2. runs'[c] > 0 /\ \A d \in Calls : d # c => runs'[d] = runs[d]
        BY <1>1 DEF MethodReturns
    <2>3. ~(runs[c] > 0)
        BY <1>1 DEF MethodReturns
    <2>4. ex' = [ex EXCEPT ![c] = TRUE] /\ ~ex[c]
        <3>1. \A d \in Calls : ex'[d] = IF d = c THEN TRUE ELSE ex[d]
            BY <2>2, Zenon
        <3>2. ex' = [ex EXCEPT ![c] = TRUE]
            BY <3>1, SetsAt
        <3> QED
            BY <2>3, <3>2, Zenon
    <2>5. Abstract!Execute(c)
        BY <2>1, <2>4, Zenon DEF Abstract!Execute
    <2> QED
        BY <2>5 DEF Abstract!RpcNext
<1>2. CASE Network(c) \/ \E e \in Ends : Call(c, e)
    <2>1. /\ UNCHANGED runs
          /\ \A d \in Calls : d # c => client'[d] = client[d]
        BY <1>2 DEF Call, Network, Accept, ReadEndnameInfo, DropRequest, Execute, Dispatch,
             Receive, Poll, Drain, Decide, Answer, Destroyed
    <2>2. \/ client[c] = "idle" /\ client'[c] = "sending"
          \/ client[c] = "sending" /\ client'[c] \in {"waiting", "failed"}
          \/ client[c] = "waiting" /\ client'[c] \in {"ok", "failed"}
                /\ (client'[c] = "ok" => proc[c] = "replying")
          \/ client'[c] = client[c]
        BY <1>2 DEF Call, Network, Accept, ReadEndnameInfo, DropRequest, Execute, Dispatch,
             Receive, Poll, Drain, Decide, Answer, Destroyed
    <2>3. client'[c] = "ok" /\ client[c] # "ok" => runs[c] > 0
        BY <2>2
    <2>4. \A d \in Calls : d # c => Seen(d)' = Seen(d)
        BY <2>1 DEF Seen
    <2>5. \/ Seen(c) = "idle" /\ Seen(c)' = "calling"
          \/ Seen(c) = "calling" /\ Seen(c)' = "failed"
          \/ Seen(c) = "calling" /\ Seen(c)' = "ok" /\ runs[c] > 0
          \/ Seen(c)' = Seen(c)
        BY <2>2, <2>3 DEF Seen
    <2>6. Abstract!Begin(c) \/ Abstract!Fail(c) \/ Abstract!Succeed(c) \/ UNCHANGED Abstract!rpcVars
        BY <2>1, <2>4, <2>5, SeenStep
    <2> QED
        BY <2>6 DEF Abstract!RpcNext
<1> QED
    BY <1>1, <1>2

LEMMA StepRefines == Inv /\ [Next]_vars => [Abstract!RpcNext]_Abstract!rpcVars
<1> SUFFICES ASSUME Inv, [Next]_vars PROVE [Abstract!RpcNext]_Abstract!rpcVars
    OBVIOUS
<1>1. CASE UNCHANGED callVars
    BY <1>1 DEF callVars, Abstract!rpcVars, Seen
<1> QED
    BY <1>1, NetStep, CallRefines DEF Next, vars

\* labrpc.go:82-84: the network implements Rpc.  A handler runs at most once, and
\* Call() returns true only after it has run, whatever is done to ends and servers.
THEOREM Refinement == Spec => AtMostOnce
BY InitInv, InvStep, InitRefines, StepRefines, PTL DEF Spec, AtMostOnce, Abstract!RpcSpec
=============================================================================
