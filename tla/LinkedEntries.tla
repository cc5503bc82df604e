--------------------------- MODULE LinkedEntries ---------------------------
(***************************************************************************)
(* The doubly linked list of porcupine/checker.go, as operators on its     *)
(* pointers.  The nodes are numbered in the order of the history; 0 is     *)
(* headEntry and the number after the last node stands for nil.            *)
(***************************************************************************)
EXTENDS Integers

\* makeLinkedEntries() for n entries, and the insertion of headEntry.
makeLinkedEntries(n) ==
  [next |-> [x \in 0 .. n |-> x + 1], prev |-> [x \in 1 .. n |-> x - 1]]

\* x.prev.next = y and, unless x.next is nil, x.next.prev = z.
SetNeighbours(list, x, y, z) ==
  LET after == list.next[x]
  IN [next |-> [list.next EXCEPT ![list.prev[x]] = y],
      prev |-> IF after \in DOMAIN list.prev THEN [list.prev EXCEPT ![after] = z]
                                             ELSE list.prev]

\* Takes x out: what is before it and what is after it meet.
Out(list, x) == SetNeighbours(list, x, list.next[x], list.prev[x])

\* A mutation: x.next.prev = x is missing.
BackForward(list, x) == [list EXCEPT !.next[list.prev[x]] = x]

\* Puts x back where its own pointers, kept while it was out, say.
Back(list, x) == SetNeighbours(list, x, x, x)

\* A call and its match, the return; back in the reverse order.
lift(list, call, match) == Out(Out(list, call), match)
unlift(list, call, match) == Back(Back(list, match), call)
=============================================================================
