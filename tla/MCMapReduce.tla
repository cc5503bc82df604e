---------------------------- MODULE MCMapReduce ----------------------------
(***************************************************************************)
(* A small job of MapReduce for TLC, with the records that module Grouping *)
(* deals out and groups.                                                   *)
(***************************************************************************)
EXTENDS MapReduce, SequencesExt

CONSTANTS f1, f2

\* Both inputs have keys of partition 0, only f1 has keys of partition 1, and
\* partition 2, if there is one, stays empty.
Keys == {<<f1, 0>>, <<f2, 0>>, <<f1, 1>>}

Data == INSTANCE Grouping

Pairs == [key : 1 .. 3, value : 1 .. 2]
Emissions == UNION {[1 .. n -> Pairs] : n \in 0 .. 2}

\* Every hash of three keys and every output of mapf, of up to two pairs per
\* input, in which the inputs have keys of just the partitions of HasKeys.
Emits(f, hash) ==
  {e \in Emissions : {hash[kv.key] : kv \in Range(e)} = {r \in Partition : <<f, r>> \in HasKeys}}
Jobs == UNION {{[hash |-> h, emitted |-> e] :
                  e \in {g \in [File -> Emissions] : \A f \in File : g[f] \in Emits(f, h)}} :
               h \in [1 .. 3 -> Partition]}

\* All lines of the outputs, where o[r] are the inputs that mr-out-r was
\* computed from.
Written(o, d) ==
  FlattenSeq([n \in 1 .. NReduce |->
    LET read == SetToSeq(o[n - 1])
    IN Data!doReduce(FlattenSeq([x \in DOMAIN read |->
         Data!Dealt(d.emitted[read[x]], d.hash, n - 1)]))])

Sequential(d) ==
  LET fs == SetToSeq(File) IN Data!mrsequential([x \in DOMAIN fs |-> d.emitted[fs[x]]])

\* For all outputs, whether "sort mr-out*" is what it is for mrsequential.
Compared == {<<o, \A d \in Jobs : ToBag(Written(o, d)) = ToBag(Sequential(d))>> :
               o \in [Partition -> SUBSET File]}

\* main/test-mr.sh:59-60: when the job is done its outputs together have the
\* lines that mrsequential writes: whichever workers crashed, every key has
\* one line, with its values of all inputs.
SameOutput == Done => <<outputs, TRUE>> \in Compared
============================================================================
