-------------------------------- MODULE Rpc --------------------------------
(***************************************************************************)
(* What labrpc promises its users (Raft, the clerks): a remote procedure   *)
(* call runs the handler at most once, Call() returns true only after the  *)
(* handler has run, and false says nothing: the handler may have run, may  *)
(* never run, or may run later.                                            *)
(***************************************************************************)
CONSTANT Calls

VARIABLES
  status,    \* status[c]: what the caller of call c sees
  executed   \* executed[c]: the handler has run for call c

rpcVars == <<status, executed>>

Status == {"idle", "calling", "ok", "failed"}

RpcInit ==
  /\ status = [c \in Calls |-> "idle"]
  /\ executed = [c \in Calls |-> FALSE]

Begin(c) ==
  /\ status[c] = "idle"
  /\ status' = [status EXCEPT ![c] = "calling"]
  /\ UNCHANGED executed

\* At most once, and also after the caller was told "failed".
Execute(c) ==
  /\ status[c] \in {"calling", "failed"}
  /\ ~executed[c]
  /\ executed' = [executed EXCEPT ![c] = TRUE]
  /\ UNCHANGED status

Succeed(c) ==
  /\ status[c] = "calling"
  /\ executed[c]
  /\ status' = [status EXCEPT ![c] = "ok"]
  /\ UNCHANGED executed

Fail(c) ==
  /\ status[c] = "calling"
  /\ status' = [status EXCEPT ![c] = "failed"]
  /\ UNCHANGED executed

RpcNext == \E c \in Calls : Begin(c) \/ Execute(c) \/ Succeed(c) \/ Fail(c)

RpcSpec == RpcInit /\ [][RpcNext]_rpcVars
=============================================================================
