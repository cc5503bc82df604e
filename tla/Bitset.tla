------------------------------- MODULE Bitset -------------------------------
(***************************************************************************)
(* porcupine/bitset.go: a set of numbers as a slice of words, as operators *)
(* on its words.  A word is the set of its bits that are 1.                *)
(***************************************************************************)
EXTENDS Integers

CONSTANT WordSize  \* 64 in the code

ASSUME WordSizeAssumption == WordSize \in Nat \ {0}

\* A mutation: no chunk for the rest.
chunksFloor(bits) == bits \div WordSize

chunks(bits) == bits \div WordSize + (IF bits % WordSize # 0 THEN 1 ELSE 0)

newBitset(bits) == [c \in 0 .. chunks(bits) - 1 |-> {}]

\* bitsetIndex().
major(pos) == pos \div WordSize
minor(pos) == pos % WordSize

set(b, pos) == [b EXCEPT ![major(pos)] = @ \cup {minor(pos)}]
clear(b, pos) == [b EXCEPT ![major(pos)] = @ \ {minor(pos)}]
get(b, pos) == minor(pos) \in b[major(pos)]
equals(b, b2) == DOMAIN b = DOMAIN b2 /\ \A c \in DOMAIN b : b[c] = b2[c]
=============================================================================
