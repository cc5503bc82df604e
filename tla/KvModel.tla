------------------------------ MODULE KvModel ------------------------------
(***************************************************************************)
(* models/kv.go, the sequential model of the key/value service, and the    *)
(* entry lists that checkOperations() and checkEvents() make of a history  *)
(* (porcupine/checker.go).  A string is a sequence of symbols.             *)
(***************************************************************************)
EXTENDS Integers, FiniteSets, SequencesExt, TLC

\* A single key's value: histories are partitioned by key.
KvInit == <<>>

\* Step: op is "get", "put" or "append"; a get has the value that it returned.
KvStep(st, input, output) ==
  CASE input.op = "get"    -> [ok |-> output.value = st, state |-> st]
    [] input.op = "put"    -> [ok |-> TRUE, state |-> input.value]
    [] input.op = "append" -> [ok |-> TRUE, state |-> st \o input.value]

\* A mutation: all keys are taken for one.
OnePartition(history, keys) == <<history>>

\* The operations of each key, keys in their order.
Partition(history, keys) ==
  LET ks == SetToSortSeq({history[x].input.key : x \in DOMAIN history},
                         LAMBDA a, b : keys[a] < keys[b])
  IN [i \in DOMAIN ks |-> SelectSeq(history, LAMBDA o : o.input.key = ks[i])]

\* The default of fillDefault(): KvModel has no PartitionEvent.
NoPartitionEvent(events) == <<events>>

\* Two entries for each operation, in the order of their times.
makeEntries(history) ==
  LET both == FlattenSeq([x \in DOMAIN history |->
        << [kind |-> "call", value |-> history[x].input, id |-> x - 1,
            time |-> history[x].call],
           [kind |-> "return", value |-> history[x].output, id |-> x - 1,
            time |-> history[x].ret] >>])
  IN SortSeq(both, LAMBDA a, b : a.time < b.time)

\* Ids become 0, 1, ... in the order in which they first appear.
renumber(events) ==
  LET first(x) == CHOOSE y \in DOMAIN events : events[y].id = events[x].id /\
                    \A z \in DOMAIN events : events[z].id = events[x].id => y <= z
  IN [x \in DOMAIN events |-> [events[x] EXCEPT
        !.id = Cardinality({events[y].id : y \in 1 .. first(x) - 1})]]

\* "use index as time".
convertEntries(events) ==
  [x \in DOMAIN events |-> [kind |-> events[x].kind, value |-> events[x].value,
                            id |-> events[x].id, time |-> x]]

checkOperations(history, keys) ==
  LET p == Partition(history, keys) IN [i \in DOMAIN p |-> makeEntries(p[i])]

checkEvents(events) ==
  LET p == NoPartitionEvent(events)
  IN [i \in DOMAIN p |-> convertEntries(renumber(p[i]))]
=============================================================================
