------------------------------ MODULE Grouping ------------------------------
(***************************************************************************)
(* The data path of MapReduce as operators: doMap() deals the pairs of an  *)
(* input out to NReduce files, doReduce() sorts what it collected by key   *)
(* and makes one line of each run of equal keys (mr/worker.go).            *)
(* main/mrsequential.go does this in one place and with a loop of another  *)
(* form, and is the reference for the output of a job.                     *)
(*                                                                         *)
(* A pair is a record of a key and a value, a file a sequence of pairs.  A *)
(* line is a key and the bag of values given to reducef: sort.Sort is not  *)
(* stable, so that the order of values with one key is not determined.     *)
(***************************************************************************)
EXTENDS Integers, Sequences, SequencesExt, FiniteSetsExt

\* sort.Sort(ByKey(s)). It may leave equal keys in any order; a line forgets
\* the order of its values, so that this one stands for all.
ByKey(s) == SortSeq(s, LAMBDA p, q : p.key < q.key)

\* reducef(key, values of the pairs x .. y - 1 of s), written as a line.
Line(s, x, y) ==
  [key |-> s[x].key, values |-> ToBag([z \in 1 .. y - x |-> s[x + z - 1].value])]

-----------------------------------------------------------------------------
(* mr/worker.go *)

\* The records of mr-f-t, where `pairs` is what mapf returns for f and
\* hash[key] is ihash(key) % NReduce.
Dealt(pairs, hash, t) == SelectSeq(pairs, LAMBDA kv : hash[kv.key] = t)

\* An iteration of the loop: a key that differs from kvbox[k]'s ends a run.
Group(box, acc, i) ==
  IF box[i].key # box[acc.k].key
  THEN [k |-> i, lines |-> Append(acc.lines, Line(box, acc.k, i))]
  ELSE acc

\* Mutant: the last run is left to the loop.
NoLastRun(box, acc) == acc.lines

\* The last run is written after the loop.
LastRun(box, acc) == Append(acc.lines, Line(box, acc.k, Len(box) + 1))

\* The lines of mr-out-t; without a record nothing is written.
doReduce(records) ==
  LET box == ByKey(records)
      loop[i \in 0 .. Len(box)] ==
        IF i = 0 THEN [k |-> 1, lines |-> <<>>] ELSE Group(box, loop[i - 1], i)
  IN IF records = <<>> THEN <<>> ELSE LastRun(box, loop[Len(box)])

-----------------------------------------------------------------------------
(* main/mrsequential.go *)

\* The first index after i that does not have the key of i.
EndOfRun(s, i) ==
  Min({j \in i + 1 .. Len(s) + 1 : j \in DOMAIN s => s[j].key # s[i].key})

\* The lines it writes, where inputs[f] is what mapf returns for input f.
mrsequential(inputs) ==
  LET intermediate == ByKey(FlattenSeq(inputs))
      lines[i \in 1 .. Len(intermediate) + 1] ==
        IF i \notin DOMAIN intermediate THEN <<>>
        ELSE LET j == EndOfRun(intermediate, i)
             IN <<Line(intermediate, i, j)>> \o lines[j]
  IN lines[1]
=============================================================================
