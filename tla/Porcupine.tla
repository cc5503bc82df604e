----------------------------- MODULE Porcupine -----------------------------
(***************************************************************************)
(* porcupine/checker.go: is a history of calls and returns linearizable?   *)
(* checkParallel() gives each partition of the history to a goroutine that *)
(* runs checkSingle(), a depth-first search with a cache, collects their   *)
(* answers and gives up on a time-out.  One step is one iteration of       *)
(* checkSingle's loop, or one receive of checkParallel.                    *)
(*                                                                         *)
(* The doubly linked list of entries that are not linearized yet and the   *)
(* bitset of operations that are, are those of LinkedEntries and Bitset.   *)
(***************************************************************************)
EXTENDS LinkedEntries, Bitset, FiniteSets, SequencesExt

CONSTANTS
  InitState,     \* model.Init()
  Step(_, _, _), \* model.Step(state, input, output): [ok, state]
  Parts,         \* the partitioned histories to check: sequences of entry lists
  MaxParts,      \* how many partitions they have at most
  Nil            \* Go's nil

\* What makeEntries() and convertEntries() make of a history: for each of the
\* ids 0, 1, ... a call and, later, a return.
IsHistory(h) ==
  /\ h \in Seq(Range(h))
  /\ {h[x].id : x \in DOMAIN h} = 0 .. Len(h) \div 2 - 1
  /\ \A x \in DOMAIN h : h[x].kind \in {"call", "return"}
  /\ \A x, y \in DOMAIN h : h[x].id = h[y].id /\ h[x].kind = h[y].kind => x = y
  /\ \A z \in DOMAIN h : \E x, y \in DOMAIN h :
       /\ x < y /\ h[x].kind = "call" /\ h[y].kind = "return"
       /\ h[x].id = h[z].id /\ h[y].id = h[z].id

ASSUME PartsAssumption == \A history \in Parts :
  history \in Seq(Range(history)) /\ \A i \in DOMAIN history : IsHistory(history[i])

\* nil is no sequence of ids.
ASSUME NilAssumption == Nil \notin Seq(Nat)

VARIABLES
  parts,        \* the argument `history`: for each partition, its entries
  computeInfo,  \* the argument of that name (verbose)
  limited,      \* timeout > 0
  list,         \* list[i]: the pointers of the nodes of partition i
  entry,        \* entry[i]: the node that checkSingle looks at
  state,        \* state[i]
  linearized,   \* linearized[i]: a bitset of ids
  calls,        \* calls[i]: stack of [entry, state]
  cache,        \* cache[i]: set of <<linearized, state>>
  longest,      \* longest[i]: id -> sequence of ids, or Nil
  verdict,      \* verdict[i]: "running", or what checkSingle returned
  sent,         \* sent[i]: "no", "sent" on the channel, "received"
  kill, count, ok, timedOut,
  phase,        \* checkParallel: "collecting" results, "finishing" after the loop
  result        \* "none" until checkParallel returns

searchVars == <<list, entry, state, linearized, calls, cache, longest, verdict>>
mainVars == <<sent, kill, count, ok, timedOut, phase, result>>
vars == <<parts, computeInfo, limited, searchVars, mainVars>>

P == DOMAIN parts
Ids(i) == {parts[i][x].id : x \in DOMAIN parts[i]}

Init ==
  /\ parts \in Parts
  /\ computeInfo \in BOOLEAN
  /\ limited \in BOOLEAN
  /\ list = [i \in P |-> makeLinkedEntries(Len(parts[i]))]
  /\ entry = [i \in P |-> 1]
  /\ state = [i \in P |-> InitState]
  /\ linearized = [i \in P |-> newBitset(Len(parts[i]) \div 2)]
  /\ calls = [i \in P |-> <<>>]
  /\ cache = [i \in P |-> {}]
  /\ longest = [i \in P |-> [d \in Ids(i) |-> Nil]]
  /\ verdict = [i \in P |-> "running"]
  /\ sent = [i \in P |-> "no"]
  /\ kill = FALSE
  /\ count = 0
  /\ ok = TRUE
  /\ timedOut = FALSE
  /\ phase = "collecting"
  /\ result = "none"

-----------------------------------------------------------------------------
(* checkSingle(). *)

EntryAt(i) == parts[i][entry[i]]

\* A call entry's match is its return entry.
Match(i, x) ==
  CHOOSE y \in DOMAIN parts[i] : parts[i][y].id = parts[i][x].id /\ parts[i][y].kind = "return"

\* headEntry.next == nil.
Empty(i) == list[i].next[0] \notin DOMAIN parts[i]

Looping(i) == verdict[i] = "running" /\ ~Empty(i) /\ ~kill

\* model.Step() for the call that checkSingle looks at.
Stepped(i) == Step(state[i], EntryAt(i).value, parts[i][Match(i, entry[i])].value)

newLinearized(i) == set(linearized[i], EntryAt(i).id)

\* A mutation: the state is not compared.
SeenSet(i) == \E e \in cache[i] : equals(newLinearized(i), e[1])

cacheContains(i) ==
  \E e \in cache[i] : equals(newLinearized(i), e[1]) /\ Stepped(i).state = e[2]

Linearize(i) ==
  /\ Looping(i)
  /\ EntryAt(i).kind = "call"
  /\ Stepped(i).ok
  /\ ~cacheContains(i)
  /\ cache' = [cache EXCEPT ![i] = @ \cup {<<newLinearized(i), Stepped(i).state>>}]
  /\ calls' = [calls EXCEPT ![i] = Append(@, [entry |-> entry[i], state |-> state[i]])]
  /\ state' = [state EXCEPT ![i] = Stepped(i).state]
  /\ linearized' = [linearized EXCEPT ![i] = newLinearized(i)]
  /\ list' = [list EXCEPT ![i] = lift(@, entry[i], Match(i, entry[i]))]
  /\ entry' = [entry EXCEPT ![i] = list'[i].next[0]]
  /\ UNCHANGED <<parts, computeInfo, limited, longest, verdict, mainVars>>

\* The call cannot be next, or leads to where the search has been.
Skip(i) ==
  /\ Looping(i)
  /\ EntryAt(i).kind = "call"
  /\ Stepped(i).ok => cacheContains(i)
  /\ entry' = [entry EXCEPT ![i] = list[i].next[@]]
  /\ UNCHANGED <<parts, computeInfo, limited, list, state, linearized, calls, cache,
                 longest, verdict, mainVars>>

CallIds(i) == [x \in DOMAIN calls[i] |-> parts[i][calls[i][x].entry].id]

\* A mutation: the first one is kept.
IsFirst(i, d) == longest[i][d] = Nil

IsLonger(i, d) == longest[i][d] = Nil \/ Len(calls[i]) > Len(longest[i][d])

LongestAfter(i) ==
  [d \in Ids(i) |->
     IF computeInfo /\ d \in Range(CallIds(i)) /\ IsLonger(i, d)
     THEN CallIds(i) ELSE longest[i][d]]

\* A mutation: linearized.clear() is missing.
KeepsBit(b, pos) == b

Unset(b, pos) == clear(b, pos)

\* A return entry: the operation had to be linearized before it.
Backtrack(i) ==
  /\ Looping(i)
  /\ EntryAt(i).kind = "return"
  /\ calls[i] # <<>>
  /\ LET top == Last(calls[i])
     IN /\ state' = [state EXCEPT ![i] = top.state]
        /\ linearized' = [linearized EXCEPT ![i] = Unset(@, parts[i][top.entry].id)]
        /\ list' = [list EXCEPT ![i] = unlift(@, top.entry, Match(i, top.entry))]
        /\ entry' = [entry EXCEPT ![i] = list'[i].next[top.entry]]
  /\ calls' = [calls EXCEPT ![i] = Front(@)]
  /\ longest' = [longest EXCEPT ![i] = LongestAfter(i)]
  /\ UNCHANGED <<parts, computeInfo, limited, cache, verdict, mainVars>>

GiveUp(i) ==
  /\ Looping(i)
  /\ EntryAt(i).kind = "return"
  /\ calls[i] = <<>>
  /\ verdict' = [verdict EXCEPT ![i] = "false"]
  /\ UNCHANGED <<parts, computeInfo, limited, list, entry, state, linearized, calls,
                 cache, longest, mainVars>>

Killed(i) ==
  /\ verdict[i] = "running"
  /\ ~Empty(i)
  /\ kill
  /\ verdict' = [verdict EXCEPT ![i] = "false"]
  /\ UNCHANGED <<parts, computeInfo, limited, list, entry, state, linearized, calls,
                 cache, longest, mainVars>>

\* The list is empty: calls is a linearization.
Complete(i) ==
  /\ verdict[i] = "running"
  /\ Empty(i)
  /\ verdict' = [verdict EXCEPT ![i] = "true"]
  /\ longest' = [longest EXCEPT ![i] = [d \in Ids(i) |-> CallIds(i)]]
  /\ UNCHANGED <<parts, computeInfo, limited, list, entry, state, linearized, calls,
                 cache, mainVars>>

\* A mutation: an unbuffered channel, which needs a receiver.
Unbuffered == phase = "collecting"

\* make(chan bool, len(history)).
Room == Cardinality({i \in P : sent[i] = "sent"}) < Len(parts)

\* longest[i] = l; results <- ok.
Report(i) ==
  /\ verdict[i] # "running"
  /\ Room
  /\ sent[i] = "no"
  /\ sent' = [sent EXCEPT ![i] = "sent"]
  /\ UNCHANGED <<parts, computeInfo, limited, searchVars, kill, count, ok,
                 timedOut, phase, result>>

checkSingle(i) ==
  Linearize(i) \/ Skip(i) \/ Backtrack(i) \/ GiveUp(i) \/ Killed(i)
    \/ Complete(i) \/ Report(i)

-----------------------------------------------------------------------------
(* checkParallel(). *)

\* A mutation: the last answer wins.
LastAnswer(i) == verdict[i] = "true"

\* ok && result.
AllOk(i) == ok /\ verdict[i] = "true"

\* One receive in the loop.
Receive(i) ==
  /\ phase = "collecting"
  /\ sent[i] = "sent"
  /\ sent' = [sent EXCEPT ![i] = "received"]
  /\ count' = count + 1
  /\ ok' = AllOk(i)
  /\ kill' = (kill \/ (~ok' /\ ~computeInfo))
  /\ phase' = IF kill' \/ count' >= Len(parts) THEN "finishing" ELSE phase
  /\ UNCHANGED <<parts, computeInfo, limited, searchVars, timedOut, result>>

Timeout ==
  /\ phase = "collecting"
  /\ limited
  /\ timedOut' = TRUE
  /\ kill' = TRUE
  /\ phase' = "finishing"
  /\ UNCHANGED <<parts, computeInfo, limited, searchVars, sent, count, ok, result>>

\* A mutation: what is drained is not counted.
DrainUncounted(i) ==
  /\ phase = "finishing"
  /\ computeInfo
  /\ sent[i] = "sent"
  /\ sent' = [sent EXCEPT ![i] = "received"]
  /\ UNCHANGED <<parts, computeInfo, limited, searchVars, kill, count, ok, timedOut,
                 phase, result>>

\* "make sure we've waited for all goroutines to finish": the value is not used.
Drain(i) ==
  /\ phase = "finishing"
  /\ computeInfo
  /\ sent[i] = "sent"
  /\ sent' = [sent EXCEPT ![i] = "received"]
  /\ count' = count + 1
  /\ UNCHANGED <<parts, computeInfo, limited, searchVars, kill, ok, timedOut,
                 phase, result>>

\* A mutation: timedOut is forgotten.
ReturnsOk == IF ~ok THEN "Illegal" ELSE "Ok"

Answer == IF ~ok THEN "Illegal" ELSE IF timedOut THEN "Unknown" ELSE "Ok"

Return ==
  /\ phase = "finishing"
  /\ result = "none"
  /\ computeInfo => count >= Len(parts)
  /\ result' = Answer
  /\ UNCHANGED <<parts, computeInfo, limited, searchVars, sent, kill, count, ok,
                 timedOut, phase>>

checkParallel == Timeout \/ Return \/ \E i \in P : Receive(i) \/ Drain(i)

Next == checkParallel \/ \E i \in P : checkSingle(i)

Spec == Init /\ [][Next]_vars

\* The Go scheduler runs every goroutine that can run.  A time-out may come.
Fairness ==
  /\ WF_vars(Return \/ \E i \in P : Receive(i) \/ Drain(i))
  /\ \A i \in 1 .. MaxParts : WF_vars(i \in P /\ checkSingle(i))

FairSpec == Spec /\ Fairness

-----------------------------------------------------------------------------
(* Linearizability, by its definition. *)

\* The operation a returned before b was called.
Precedes(i, a, b) == \E x, y \in DOMAIN parts[i] :
  /\ x < y
  /\ parts[i][x].id = a /\ parts[i][x].kind = "return"
  /\ parts[i][y].id = b /\ parts[i][y].kind = "call"

\* A sequence of different operations, in which no operation comes after, or
\* without, one that had to come before it.
Orders(i, ids) ==
  {o \in [1 .. Cardinality(ids) -> ids] :
     /\ Range(o) = ids
     /\ \A x \in DOMAIN o, b \in Ids(i) : Precedes(i, b, o[x]) =>
          \E y \in 1 .. x - 1 : o[y] = b}

\* The call of the operation d.
CallOf(i, d) ==
  CHOOSE x \in DOMAIN parts[i] : parts[i][x].id = d /\ parts[i][x].kind = "call"
InputOf(i, d) == parts[i][CallOf(i, d)].value
OutputOf(i, d) == parts[i][Match(i, CallOf(i, d))].value

\* The model accepts the operations of o one after the other.
Replay(i, o) ==
  LET after[n \in 0 .. Len(o)] ==
        IF n = 0 THEN [ok |-> TRUE, state |-> InitState]
        ELSE LET before == after[n - 1]
                 s == Step(before.state, InputOf(i, o[n]), OutputOf(i, o[n]))
             IN [ok |-> before.ok /\ s.ok, state |-> s.state]
  IN after[Len(o)]

\* The linearizations of the operations `ids`, a prefix of partition i.
Linearizations(i, ids) == {o \in Orders(i, ids) : Replay(i, o).ok}

Linearizable(i) == Linearizations(i, Ids(i)) # {}

-----------------------------------------------------------------------------
(* Properties. *)

\* The variables have their types: the search is at an entry of the list, and
\* every id has an element of longest and a word of the bitset.
TypeOK ==
  /\ \A i \in P :
       /\ Ids(i) = 0 .. Len(parts[i]) \div 2 - 1
       /\ \A d \in Ids(i) : major(d) \in DOMAIN linearized[i]
       /\ entry[i] \in 1 .. Len(parts[i]) + 1
       /\ Looping(i) => entry[i] \in DOMAIN parts[i]
       /\ verdict[i] \in {"running", "true", "false"}
       /\ sent[i] \in {"no", "sent", "received"}
  /\ count = Cardinality({i \in P : sent[i] = "received"})
  /\ {kill, ok, timedOut, computeInfo, limited} \subseteq BOOLEAN
  /\ result \in {"none", "Ok", "Illegal", "Unknown"}

\* bitset.go:10-72, checker.go:202, 234: the bitset has the bits of the
\* operations on the stack, across words and after backtracking, and equals()
\* tells apart the sets that the cache keeps.
BitsetIsSet == \A i \in P :
  LET Members(b) == {d \in Ids(i) : get(b, d)}
  IN /\ Members(linearized[i]) = Range(CallIds(i))
     /\ \A e, f \in cache[i] : equals(e[1], f[1]) <=> Members(e[1]) = Members(f[1])

\* The entries of operations that are not on the stack.
Remaining(i) == {x \in DOMAIN parts[i] : parts[i][x].id \notin Range(CallIds(i))}

\* checker.go:154-172: after any lifts and unlifts the list holds, in the
\* order of the history and in both directions, the entries that remain.
ListIsRemaining == \A i \in P :
  LET Adjacent(x, y) == x < y /\ \A z \in Remaining(i) : z <= x \/ y <= z
      nil == Len(parts[i]) + 1
  IN /\ \A x \in Remaining(i) \cup {0} :
          list[i].next[x] \in Remaining(i) \cup {nil} /\ Adjacent(x, list[i].next[x])
     /\ \A x \in Remaining(i) :
          list[i].prev[x] \in Remaining(i) \cup {0} /\ Adjacent(list[i].prev[x], x)

\* checker.go:239: a history that is found Ok has a linearization in every
\* partition, also when a time-out races the last answer.
OkSound == result = "Ok" => \A i \in P : Linearizable(i)

\* checker.go:142, 293: a history that is found Illegal has none in some
\* partition: the cache prunes no linearization, and the answer of a search
\* that was killed is never taken for a refutation.
IllegalSound == result = "Illegal" => \E i \in P : ~Linearizable(i)

Published(i) == {longest[i][d] : d \in Ids(i)} \ {Nil}

\* checker.go:180, 314 and the panic of visualization.go:69: with computeInfo
\* every partial linearization is one, and when no search was killed it is a
\* longest one among those that include the operation.
LongestIsLongest == result # "none" /\ computeInfo => \A i \in P :
  /\ \A o \in Published(i) : o \in Linearizations(i, Range(o))
  /\ ~kill => \A d \in Ids(i), S \in SUBSET Ids(i) :
       d \in S /\ Linearizations(i, S) # {} =>
         longest[i][d] # Nil /\ Len(longest[i][d]) >= Cardinality(S)

\* checker.go:287: with at least one partition checkParallel returns.
Answers == P # {} ~> result # "none"

\* checker.go:294, 302: no goroutine goes on searching after the answer.
SearchesEnd == \A i \in 1 .. MaxParts :
  (i \in P /\ result # "none") ~> (i \in P /\ sent[i] # "no")
=============================================================================
