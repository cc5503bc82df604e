---------------------------- MODULE MCPorcupine ----------------------------
(***************************************************************************)
(* The checker on every small history of the key/value service.            *)
(***************************************************************************)
EXTENDS Porcupine, KvModel

CONSTANTS
  NOps,  \* operations in a history
  Keys   \* keys, as numbers

a == <<"a">>
b == <<"b">>

Op(k, op, v, out) == [input |-> [op |-> op, key |-> k, value |-> v],
                      output |-> [value |-> out]]

\* What an operation on key k may be, with appends and without.
Appends(k) == {Op(k, "put", a, <<>>), Op(k, "append", b, <<>>),
               Op(k, "get", <<>>, <<>>), Op(k, "get", <<>>, a \o b)}
Plain(k) == {Op(k, "put", a, <<>>), Op(k, "get", <<>>, <<>>), Op(k, "get", <<>>, a)}
Lone(k) == {Op(k, "put", a, <<>>), Op(k, "get", <<>>, a)}

\* Every way in which NOps operations may overlap, with different times.
Intervals == {f \in [1 .. NOps -> {<<c, r>> \in (1 .. 2 * NOps) \X (1 .. 2 * NOps) : c < r}] :
  /\ \A x, y \in 1 .. NOps : x < y => f[x][1] < f[y][1]
  /\ UNION {{f[x][1], f[x][2]} : x \in 1 .. NOps} = 1 .. 2 * NOps}

Histories(ops) == {[x \in 1 .. NOps |-> [input |-> o[x].input, output |-> o[x].output,
                                         call |-> f[x][1], ret |-> f[x][2]]] :
                     f \in Intervals, o \in [1 .. NOps -> ops]}

KeyOrder == [k \in Keys |-> k]

\* Histories of one key, and histories of which one operation, not the first,
\* is on another key (the checker treats keys alike): a put, or a get of a
\* value that nobody put, so that its partition alone is legal or not.
OperationParts ==
  {checkOperations(h, KeyOrder) : h \in Histories(Appends(1))} \cup
  {checkOperations(h, KeyOrder) : h \in {g \in Histories(Plain(1) \cup Lone(2)) :
     g[1].input.key = 1 /\ Cardinality({x \in 2 .. NOps : g[x].input.key # 1}) = 1}}

\* Histories as events, with ids in no order.
EventsOf(h) ==
  LET e == makeEntries(h)
  IN [x \in DOMAIN e |-> [kind |-> e[x].kind, value |-> e[x].value, id |-> 7 - 3 * e[x].id]]

EventParts ==
  {checkEvents(EventsOf(h)) : h \in Histories({Op(1, "put", a, <<>>), Op(1, "get", <<>>, a)})}

MCParts == OperationParts \cup EventParts

-----------------------------------------------------------------------------
(* Linearizability of the whole history, over all keys. *)

Whole == UNION {{i} \X Ids(i) : i \in P}
CallTime(o) == parts[o[1]][CallOf(o[1], o[2])].time
RetTime(o) == parts[o[1]][Match(o[1], CallOf(o[1], o[2]))].time

WholeOrders == {s \in [1 .. Cardinality(Whole) -> Whole] :
  /\ Range(s) = Whole
  /\ \A x, y \in DOMAIN s : x < y => CallTime(s[x]) < RetTime(s[y])}

WholeStep(acc, o) ==
  LET in == InputOf(o[1], o[2])
      n == KvStep(acc.store[in.key], in, OutputOf(o[1], o[2]))
  IN [ok |-> acc.ok /\ n.ok, store |-> [acc.store EXCEPT ![in.key] = n.state]]

WholeLinearizable == \E s \in WholeOrders :
  FoldLeft(WholeStep, [ok |-> TRUE, store |-> [k \in Keys |-> KvInit]], s).ok

\* models/kv.go:36-37 and porcupine/model.go:28-29: checking each key alone is
\* okay, the answer is that of the whole history.
WholeVerdict ==
  /\ result = "Ok" => WholeLinearizable
  /\ result = "Illegal" => ~WholeLinearizable
=============================================================================
