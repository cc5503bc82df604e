-------------------------- MODULE PorcupineProofs --------------------------
(***************************************************************************)
(* Proofs about Porcupine, for every sequential model and every history.   *)
(*                                                                         *)
(* The search in one partition is described by its values: the entries h,  *)
(* the list l, the entry e, the state st, the bitset b, the stack c and    *)
(* the cache ca, so that most lemmas are not about variables.              *)
(***************************************************************************)
EXTENDS Porcupine, FiniteSetTheorems, NaturalsInduction, WellFoundedInduction, TLAPS

----------------------------------------------------------------------------
(* Bitsets. *)

LEMMA DivMod ==
    ASSUME NEW d \in Nat
    PROVE  /\ major(d) \in Nat /\ minor(d) \in 0 .. WordSize - 1
           /\ d = WordSize * major(d) + minor(d)
BY WordSizeAssumption DEF major, minor

\* Different positions are different bits.
LEMMA OneBit ==
    ASSUME NEW d \in Nat, NEW e \in Nat, major(d) = major(e), minor(d) = minor(e)
    PROVE  d = e
BY DivMod

LEMMA InChunks ==
    ASSUME NEW n \in Nat, NEW d \in 0 .. n - 1
    PROVE  major(d) \in 0 .. chunks(n) - 1
<1>1. /\ major(d) \in Nat /\ minor(d) \in 0 .. WordSize - 1
      /\ d = WordSize * major(d) + minor(d)
    BY DivMod
<1>2. /\ major(n) \in Nat /\ minor(n) \in 0 .. WordSize - 1
      /\ n = WordSize * major(n) + minor(n)
    BY DivMod
<1>3. chunks(n) = major(n) + (IF minor(n) # 0 THEN 1 ELSE 0)
    BY DEF chunks, major, minor
<1>4. CASE major(d) < major(n)
    BY <1>1, <1>2, <1>3, <1>4
<1>5. CASE major(d) > major(n)
    <2>1. WordSize * major(d) >= WordSize * (major(n) + 1)
        BY <1>1, <1>2, <1>5, WordSizeAssumption
    <2> QED
        BY <1>1, <1>2, <2>1, WordSizeAssumption
<1>6. CASE major(d) = major(n)
    BY <1>1, <1>2, <1>3, <1>6, WordSizeAssumption
<1> QED
    BY <1>1, <1>2, <1>4, <1>5, <1>6

\* The bitset of n bits that has those of S.
BitsOf(n, S) == [w \in 0 .. chunks(n) - 1 |-> {minor(d) : d \in {x \in S : major(x) = w}}]

LEMMA BitsOfSet ==
    ASSUME NEW n \in Nat, NEW S \in SUBSET (0 .. n - 1), NEW d \in 0 .. n - 1
    PROVE  /\ newBitset(n) = BitsOf(n, {})
           /\ get(BitsOf(n, S), d) <=> d \in S
           /\ set(BitsOf(n, S), d) = BitsOf(n, S \cup {d})
           /\ clear(BitsOf(n, S), d) = BitsOf(n, S \ {d})
<1>1. newBitset(n) = BitsOf(n, {})
    BY DEF newBitset, BitsOf
<1>2. major(d) \in 0 .. chunks(n) - 1
    BY InChunks
<1>3. \A x \in S : x \in Nat
    OBVIOUS
<1>4. get(BitsOf(n, S), d) <=> d \in S
    BY <1>2, <1>3, OneBit DEF get, BitsOf
<1>5. set(BitsOf(n, S), d) = BitsOf(n, S \cup {d})
    <2>1. \A w \in 0 .. chunks(n) - 1 : BitsOf(n, S \cup {d})[w] =
            IF w = major(d) THEN BitsOf(n, S)[w] \cup {minor(d)} ELSE BitsOf(n, S)[w]
        BY DEF BitsOf
    <2> QED
        BY <1>2, <2>1 DEF set, BitsOf
<1>6. clear(BitsOf(n, S), d) = BitsOf(n, S \ {d})
    <2>1. ASSUME NEW w \in 0 .. chunks(n) - 1
          PROVE  BitsOf(n, S \ {d})[w] =
                   IF w = major(d) THEN BitsOf(n, S)[w] \ {minor(d)} ELSE BitsOf(n, S)[w]
        BY <1>3, OneBit DEF BitsOf
    <2> QED
        BY <1>2, <2>1 DEF clear, BitsOf
<1> QED
    BY <1>1, <1>4, <1>5, <1>6

\* equals() tells sets apart.
LEMMA BitsOfEquals ==
    ASSUME NEW n \in Nat, NEW S \in SUBSET (0 .. n - 1), NEW T \in SUBSET (0 .. n - 1)
    PROVE  equals(BitsOf(n, S), BitsOf(n, T)) <=> S = T
<1>1. ASSUME equals(BitsOf(n, S), BitsOf(n, T)), NEW d \in 0 .. n - 1
      PROVE  d \in S <=> d \in T
    <2>1. major(d) \in 0 .. chunks(n) - 1
        BY InChunks
    <2>2. BitsOf(n, S)[major(d)] = BitsOf(n, T)[major(d)]
        BY <1>1, <2>1 DEF equals, BitsOf
    <2>3. get(BitsOf(n, S), d) <=> get(BitsOf(n, T), d)
        BY <2>2 DEF get
    <2> QED
        BY <2>3, BitsOfSet
<1> QED
    BY <1>1 DEF equals

----------------------------------------------------------------------------
(* Linked lists. *)

\* x and y are neighbours among the nodes of R.
Adjacent(R, x, y) == x < y /\ \A z \in R : z <= x \/ y <= z

\* The pointers nx and pv link the nodes of R, out of 1 .. n, both ways and in
\* order.
Chain(nx, pv, R, n) ==
  /\ nx \in [0 .. n -> 1 .. n + 1]
  /\ pv \in [1 .. n -> 0 .. n]
  /\ \A x \in R \cup {0} : nx[x] \in R \cup {n + 1} /\ Adjacent(R, x, nx[x])
  /\ \A x \in R : pv[x] \in R \cup {0} /\ Adjacent(R, pv[x], x)

IsList(l, R, n) == l = [next |-> l.next, prev |-> l.prev] /\ Chain(l.next, l.prev, R, n)

LEMMA MakeList ==
    ASSUME NEW n \in Nat
    PROVE  IsList(makeLinkedEntries(n), 1 .. n, n)
<1> DEFINE nx == [x \in 0 .. n |-> x + 1]
           pv == [x \in 1 .. n |-> x - 1]
<1>1. nx \in [0 .. n -> 1 .. n + 1] /\ pv \in [1 .. n -> 0 .. n]
    OBVIOUS
<1>2. ASSUME NEW x \in (1 .. n) \cup {0}
      PROVE  nx[x] \in (1 .. n) \cup {n + 1} /\ Adjacent(1 .. n, x, nx[x])
    <2>1. x \in 0 .. n /\ nx[x] = x + 1
        OBVIOUS
    <2> HIDE DEF nx
    <2> QED
        BY <2>1 DEF Adjacent
<1>3. ASSUME NEW x \in 1 .. n
      PROVE  pv[x] \in (1 .. n) \cup {0} /\ Adjacent(1 .. n, pv[x], x)
    <2>1. pv[x] = x - 1
        OBVIOUS
    <2> HIDE DEF pv
    <2> QED
        BY <2>1 DEF Adjacent
<1>4. Chain(nx, pv, 1 .. n, n)
    <2> HIDE DEF nx, pv
    <2> QED
        BY <1>1, <1>2, <1>3 DEF Chain
<1> QED
    BY <1>4 DEF IsList, makeLinkedEntries

\* The neighbours of x have x for a neighbour.
Meets(nx, pv, x, n) ==
  /\ x \in 1 .. n
  /\ pv[x] \in 0 .. n /\ pv[x] < x /\ nx[pv[x]] = x
  /\ nx[x] \in 1 .. n + 1 /\ x < nx[x]
  /\ nx[x] \in 1 .. n => pv[nx[x]] = x

LEMMA Neighbours ==
    ASSUME NEW n \in Nat, NEW R \in SUBSET (1 .. n), NEW nx, NEW pv, Chain(nx, pv, R, n),
           NEW x \in R
    PROVE  Meets(nx, pv, x, n)
<1>1. \A z \in R : z \in 1 .. n
    OBVIOUS
<1>2. PICK p \in 0 .. n : p = pv[x]
    BY <1>1 DEF Chain
<1>3. PICK a \in 1 .. n + 1 : a = nx[x]
    BY <1>1 DEF Chain
<1>4. /\ p \in R \cup {0} /\ p < x /\ \A z \in R : z <= p \/ x <= z
      /\ a \in R \cup {n + 1} /\ x < a /\ \A z \in R : z <= x \/ a <= z
    BY <1>2, <1>3 DEF Chain, Adjacent
<1>5. nx[p] = x
    <2>1. PICK q \in 1 .. n + 1 : q = nx[p]
        BY DEF Chain
    <2>2. q \in R \cup {n + 1} /\ p < q /\ \A z \in R : z <= p \/ q <= z
        BY <1>4, <2>1 DEF Chain, Adjacent
    <2>3. q <= x
        BY <1>1, <1>4, <2>2
    <2>4. q \in R
        BY <1>1, <2>2, <2>3
    <2> QED
        BY <1>1, <1>4, <2>1, <2>2, <2>3, <2>4
<1>6. ASSUME a \in 1 .. n PROVE a \in R /\ pv[a] = x
    <2>1. a \in R
        BY <1>4, <1>6
    <2>2. PICK q \in 0 .. n : q = pv[a]
        BY <1>6 DEF Chain
    <2>3. q \in R \cup {0} /\ q < a /\ \A z \in R : z <= q \/ a <= z
        BY <2>1, <2>2 DEF Chain, Adjacent
    <2>4. x <= q
        BY <1>1, <1>4, <2>3
    <2>5. q \in R
        BY <1>1, <2>3, <2>4
    <2> QED
        BY <1>1, <1>4, <2>1, <2>2, <2>3, <2>4, <2>5
<1> QED
    BY <1>1, <1>2, <1>3, <1>4, <1>5, <1>6 DEF Meets

\* Taking a node out leaves the others linked.
LEMMA ChainOut ==
    ASSUME NEW n \in Nat, NEW R \in SUBSET (1 .. n), NEW nx, NEW pv, Chain(nx, pv, R, n),
           NEW x \in R, NEW nx2, NEW pv2,
           nx2 = [nx EXCEPT ![pv[x]] = nx[x]],
           pv2 = IF nx[x] \in 1 .. n THEN [pv EXCEPT ![nx[x]] = pv[x]] ELSE pv
    PROVE  Chain(nx2, pv2, R \ {x}, n)
<1>1. \A z \in R : z \in 1 .. n
    OBVIOUS
<1>2. PICK p \in 0 .. n : p = pv[x]
    BY <1>1 DEF Chain
<1>3. PICK a \in 1 .. n + 1 : a = nx[x]
    BY <1>1 DEF Chain
<1>4. /\ p \in R \cup {0} /\ p < x /\ \A z \in R : z <= p \/ x <= z
      /\ a \in R \cup {n + 1} /\ x < a /\ \A z \in R : z <= x \/ a <= z
    BY <1>2, <1>3 DEF Chain, Adjacent
<1>5. nx2 \in [0 .. n -> 1 .. n + 1] /\ \A y \in 0 .. n : nx2[y] = IF y = p THEN a ELSE nx[y]
    BY <1>2, <1>3 DEF Chain
<1>6. pv2 \in [1 .. n -> 0 .. n] /\ \A y \in 1 .. n : pv2[y] = IF y = a THEN p ELSE pv[y]
    BY <1>2, <1>3 DEF Chain
<1>7. Adjacent(R \ {x}, p, a)
    BY <1>1, <1>4 DEF Adjacent
<1>8. ASSUME NEW y \in (R \ {x}) \cup {0}
      PROVE  nx2[y] \in (R \ {x}) \cup {n + 1} /\ Adjacent(R \ {x}, y, nx2[y])
    <2>1. CASE y = p
        BY <1>1, <1>4, <1>5, <1>7, <2>1
    <2>2. CASE y # p
        <3>1. y \in 0 .. n /\ nx2[y] = nx[y] /\ nx[y] \in R \cup {n + 1} /\ Adjacent(R, y, nx[y])
            BY <1>1, <1>5, <2>2, SMTT(30) DEF Chain
        <3>2. nx[y] # x
            \* p is between y and x.
            BY <1>1, <1>4, <2>2, <3>1 DEF Adjacent
        <3> QED
            BY <3>1, <3>2 DEF Adjacent
    <2> QED
        BY <2>1, <2>2
<1>9. ASSUME NEW y \in R \ {x}
      PROVE  pv2[y] \in (R \ {x}) \cup {0} /\ Adjacent(R \ {x}, pv2[y], y)
    <2>1. CASE y = a
        BY <1>1, <1>4, <1>6, <1>7, <2>1
    <2>2. CASE y # a
        <3>1. y \in 1 .. n /\ pv2[y] = pv[y] /\ pv[y] \in R \cup {0} /\ Adjacent(R, pv[y], y)
            BY <1>1, <1>6, <2>2 DEF Chain
        <3>2. pv[y] # x
            BY <1>1, <1>4, <2>2, <3>1 DEF Adjacent
        <3> QED
            BY <3>1, <3>2 DEF Adjacent
    <2> QED
        BY <2>1, <2>2
<1> QED
    BY <1>5, <1>6, <1>8, <1>9 DEF Chain

\* A node that was taken out can be put back.
LEMMA OutBack ==
    ASSUME NEW n \in Nat, NEW R \in SUBSET (1 .. n), NEW l, IsList(l, R, n), NEW x \in R
    PROVE  IsList(Out(l, x), R \ {x}, n) /\ Back(Out(l, x), x) = l
<1>0. PICK nx, pv : l = [next |-> nx, prev |-> pv] /\ Chain(nx, pv, R, n)
    BY DEF IsList
<1> DEFINE p == pv[x]
           a == nx[x]
           nx2 == [nx EXCEPT ![p] = a]
           pv2 == IF a \in 1 .. n THEN [pv EXCEPT ![a] = p] ELSE pv
<1>1. /\ x \in 1 .. n
      /\ p \in 0 .. n /\ p < x /\ nx[p] = x
      /\ a \in 1 .. n + 1 /\ x < a
      /\ a \in 1 .. n => pv[a] = x
    <2>1. Meets(nx, pv, x, n)
        BY <1>0, Neighbours
    <2> QED
        BY <2>1 DEF Meets
<1>2. nx \in [0 .. n -> 1 .. n + 1] /\ pv \in [1 .. n -> 0 .. n]
    BY <1>0 DEF Chain
<1>3. Out(l, x) = [next |-> nx2, prev |-> pv2]
    <2>1. l.next = nx /\ l.prev = pv /\ DOMAIN pv = 1 .. n
        BY <1>0, <1>2
    <2> QED
        BY <2>1 DEF Out, SetNeighbours
<1>4. Chain(nx2, pv2, R \ {x}, n)
    BY <1>0, ChainOut
<1>5. nx2[x] = a /\ pv2[x] = p /\ DOMAIN pv2 = 1 .. n
    BY <1>1, <1>2
<1>6. Back([next |-> nx2, prev |-> pv2], x) =
        [next |-> [nx2 EXCEPT ![p] = x],
         prev |-> IF a \in 1 .. n THEN [pv2 EXCEPT ![a] = x] ELSE pv2]
    <2> HIDE DEF p, a, nx2, pv2
    <2> QED
        BY <1>5 DEF Back, SetNeighbours
<1>7. [nx2 EXCEPT ![p] = x] = nx
    BY <1>1, <1>2
<1>8. (IF a \in 1 .. n THEN [pv2 EXCEPT ![a] = x] ELSE pv2) = pv
    BY <1>1, <1>2
<1> HIDE DEF p, a, nx2, pv2
<1> QED
    BY <1>0, <1>3, <1>4, <1>6, <1>7, <1>8 DEF IsList

\* unlift() undoes lift().
LEMMA LiftUnlift ==
    ASSUME NEW n \in Nat, NEW R \in SUBSET (1 .. n), NEW l, IsList(l, R, n),
           NEW x \in R, NEW y \in R, x # y
    PROVE  IsList(lift(l, x, y), R \ {x, y}, n) /\ unlift(lift(l, x, y), x, y) = l
<1> DEFINE m == Out(l, x)
<1>1. IsList(m, R \ {x}, n) /\ Back(m, x) = l
    BY OutBack
<1>2. y \in R \ {x} /\ R \ {x} \in SUBSET (1 .. n) /\ (R \ {x}) \ {y} = R \ {x, y}
    OBVIOUS
<1> HIDE DEF m
<1>3. IsList(Out(m, y), R \ {x, y}, n) /\ Back(Out(m, y), y) = m
    BY <1>1, <1>2, OutBack
<1> QED
    BY <1>1, <1>3 DEF lift, unlift, m

----------------------------------------------------------------------------
(* Histories, and what may follow a partial linearization. *)

IdsOf(h) == {h[x].id : x \in DOMAIN h}

\* The entries of the operation d.
CallIn(h, d) == CHOOSE x \in DOMAIN h : h[x].id = d /\ h[x].kind = "call"
MatchIn(h, x) == CHOOSE y \in DOMAIN h : h[y].id = h[x].id /\ h[y].kind = "return"

\* The model's step for the operation d.
StepIn(h, s, d) == Step(s, h[CallIn(h, d)].value, h[MatchIn(h, CallIn(h, d))].value)

Before(h, a, b) == \E x, y \in DOMAIN h :
  /\ x < y
  /\ h[x].id = a /\ h[x].kind = "return"
  /\ h[y].id = b /\ h[y].kind = "call"

LEMMA Entries ==
    ASSUME NEW h, IsHistory(h)
    PROVE  /\ Len(h) \in Nat /\ DOMAIN h = 1 .. Len(h)
           /\ IdsOf(h) \subseteq Nat /\ IdsOf(h) = 0 .. Len(h) \div 2 - 1 /\ Len(h) \div 2 \in Nat
           /\ \A x \in DOMAIN h : h[x].id \in IdsOf(h)
           /\ \A x \in DOMAIN h :
                /\ MatchIn(h, x) \in DOMAIN h
                /\ h[MatchIn(h, x)].id = h[x].id /\ h[MatchIn(h, x)].kind = "return"
                /\ h[x].kind = "call" => x < MatchIn(h, x)
                /\ h[x].kind = "call" => CallIn(h, h[x].id) = x
                /\ h[x].kind = "return" => MatchIn(h, x) = x
           /\ \A d \in IdsOf(h) : /\ CallIn(h, d) \in DOMAIN h
                                  /\ h[CallIn(h, d)].id = d /\ h[CallIn(h, d)].kind = "call"
<1>1. Len(h) \in Nat /\ DOMAIN h = 1 .. Len(h)
    <2>1. h \in Seq(Range(h))
        BY DEF IsHistory
    <2> HIDE DEF IsHistory
    <2> QED
        BY <2>1
<1>2. IdsOf(h) = 0 .. Len(h) \div 2 - 1 /\ Len(h) \div 2 \in Nat
    <2>1. IdsOf(h) = 0 .. Len(h) \div 2 - 1
        BY Zenon DEF IsHistory, IdsOf
    <2>2. \A n \in Nat : n \div 2 \in Nat
        OBVIOUS
    <2> QED
        BY <1>1, <2>1, <2>2
<1>3. \A x \in DOMAIN h : h[x].id \in IdsOf(h)
    BY DEF IdsOf
<1>4. ASSUME NEW x \in DOMAIN h
      PROVE  /\ MatchIn(h, x) \in DOMAIN h
             /\ h[MatchIn(h, x)].id = h[x].id /\ h[MatchIn(h, x)].kind = "return"
             /\ h[x].kind = "call" => x < MatchIn(h, x)
             /\ h[x].kind = "call" => CallIn(h, h[x].id) = x
             /\ h[x].kind = "return" => MatchIn(h, x) = x
    <2>1. PICK u, v \in DOMAIN h : /\ u < v /\ h[u].kind = "call" /\ h[v].kind = "return"
                                   /\ h[u].id = h[x].id /\ h[v].id = h[x].id
        BY DEF IsHistory
    <2>2. /\ MatchIn(h, x) \in DOMAIN h
          /\ h[MatchIn(h, x)].id = h[x].id /\ h[MatchIn(h, x)].kind = "return"
        BY <2>1 DEF MatchIn
    <2>3. /\ CallIn(h, h[x].id) \in DOMAIN h
          /\ h[CallIn(h, h[x].id)].id = h[x].id /\ h[CallIn(h, h[x].id)].kind = "call"
        BY <2>1 DEF CallIn
    <2>4. \A a, b \in DOMAIN h : h[a].id = h[b].id /\ h[a].kind = h[b].kind => a = b
        BY DEF IsHistory
    <2>5. MatchIn(h, x) = v
        BY <2>1, <2>2, <2>4
    <2>6. h[x].kind = "call" => x = u
        BY <2>1, <2>4
    <2>7. h[x].kind = "call" => CallIn(h, h[x].id) = x
        BY <2>3, <2>4
    <2>8. h[x].kind = "return" => MatchIn(h, x) = x
        BY <2>2, <2>4
    <2> QED
        BY <2>1, <2>2, <2>5, <2>6, <2>7, <2>8
<1>5. ASSUME NEW d \in IdsOf(h)
      PROVE  /\ CallIn(h, d) \in DOMAIN h
             /\ h[CallIn(h, d)].id = d /\ h[CallIn(h, d)].kind = "call"
    <2>1. PICK z \in DOMAIN h : h[z].id = d
        BY DEF IdsOf
    <2>2. \E x \in DOMAIN h : h[x].id = d /\ h[x].kind = "call"
        BY <2>1 DEF IsHistory
    <2> QED
        BY <2>2 DEF CallIn
<1>6. IdsOf(h) \subseteq Nat
    BY <1>2
<1> QED
    BY <1>1, <1>2, <1>3, <1>4, <1>5, <1>6

\* The model accepts the operations of o one after the other, from state s on;
\* q are the states it goes through.
Accepted(h, s, m, o, q) ==
  /\ q[0] = s
  /\ \A x \in 1 .. m : /\ StepIn(h, q[x - 1], o[x]).ok
                       /\ q[x] = StepIn(h, q[x - 1], o[x]).state

\* o is an order of m operations that are not in S, which fits the history.
Partial(h, S, m, o) ==
  /\ o \in [1 .. m -> IdsOf(h) \ S]
  /\ \A x, y \in 1 .. m : o[x] = o[y] => x = y
  /\ \A x \in 1 .. m, b \in IdsOf(h) : Before(h, b, o[x]) =>
       b \in S \/ \E y \in 1 .. x - 1 : o[y] = b

Members(o, m) == {o[x] : x \in 1 .. m}

\* No linearization begins with the operations of S and has state s after them.
Dead(h, S, s) == \A m \in Nat : \A o, q :
  Partial(h, S, m, o) /\ Accepted(h, s, m, o, q) => S \cup Members(o, m) # IdsOf(h)

\* X, a set of sets of operations, has all those that the model accepts after
\* those of S, from state s on, in some order.
Explored(h, X, S, s) == \A m \in Nat : \A o, q :
  Partial(h, S, m, o) /\ Accepted(h, s, m, o, q) => S \cup Members(o, m) \in X

\* The search has nothing more to find after the operations of S.
Over(h, X, S, s) == Dead(h, S, s) /\ Explored(h, X, S, s)

\* The operation d may be the next one after those of S.
MayBeNext(h, S, d) == d \in IdsOf(h) \ S /\ \A b \in IdsOf(h) : Before(h, b, d) => b \in S

\* What comes after the first operation of o is accepted, too.
HasRest(h, S, s, m, o) == \E o2, q2 :
  /\ Partial(h, S \cup {o[1]}, m - 1, o2)
  /\ Accepted(h, StepIn(h, s, o[1]).state, m - 1, o2, q2)
  /\ S \cup Members(o, m) = (S \cup {o[1]}) \cup Members(o2, m - 1)

LEMMA Rest ==
    ASSUME NEW h, NEW S \in SUBSET IdsOf(h), NEW s, NEW m \in Nat, m # 0, NEW o, NEW q,
           Partial(h, S, m, o), Accepted(h, s, m, o, q)
    PROVE  /\ MayBeNext(h, S, o[1]) /\ StepIn(h, s, o[1]).ok /\ m - 1 \in Nat
           /\ HasRest(h, S, s, m, o)
<1> DEFINE d == o[1]
           o2 == [x \in 1 .. m - 1 |-> o[x + 1]]
           q2 == [x \in 0 .. m - 1 |-> q[x + 1]]
<1>2. 1 \in 1 .. m /\ m - 1 \in Nat /\ \A x \in 1 .. m - 1 : x + 1 \in 1 .. m
    OBVIOUS
<1>3. MayBeNext(h, S, d)
    BY <1>2 DEF Partial, MayBeNext
<1>4. StepIn(h, s, d).ok /\ q[1] = StepIn(h, s, d).state
    BY <1>2 DEF Accepted
<1>6. Accepted(h, q[1], m - 1, o2, q2)
    <2>1. q2[0] = q[1]
        BY <1>2
    <2>2. ASSUME NEW x \in 1 .. m - 1
          PROVE  /\ StepIn(h, q2[x - 1], o2[x]).ok
                 /\ q2[x] = StepIn(h, q2[x - 1], o2[x]).state
        <3>1. x + 1 \in 1 .. m /\ (x + 1) - 1 = x /\ x - 1 \in 0 .. m - 1 /\ x \in 0 .. m - 1 /\ (x - 1) + 1 = x
            BY <1>2
        <3>2. q2[x - 1] = q[x] /\ q2[x] = q[x + 1] /\ o2[x] = o[x + 1]
            BY <3>1
        <3>3. /\ StepIn(h, q[x], o[x + 1]).ok
              /\ q[x + 1] = StepIn(h, q[x], o[x + 1]).state
            BY <3>1 DEF Accepted
        <3> HIDE DEF q2, o2
        <3> QED
            BY <3>2, <3>3
    <2> QED
        BY <2>1, <2>2 DEF Accepted
<1>7. Partial(h, S \cup {d}, m - 1, o2)
    <2>1. \A x \in 1 .. m - 1 : o2[x] = o[x + 1] /\ x + 1 \in 1 .. m /\ x + 1 # 1
        BY <1>2
    <2>2. /\ o \in [1 .. m -> IdsOf(h) \ S]
          /\ \A x, y \in 1 .. m : o[x] = o[y] => x = y
        BY DEF Partial
    <2>3. o2 \in [1 .. m - 1 -> IdsOf(h) \ (S \cup {d})]
        BY <1>2, <2>1, <2>2
    <2>5. \A x, y \in 1 .. m - 1 : o2[x] = o2[y] => x = y
        <3> SUFFICES ASSUME NEW x \in 1 .. m - 1, NEW y \in 1 .. m - 1, o2[x] = o2[y] PROVE x = y
            OBVIOUS
        <3>1. x + 1 = y + 1
            BY <2>1, <2>2
        <3> QED
            BY <3>1
    <2>6. ASSUME NEW x \in 1 .. m - 1, NEW b \in IdsOf(h), Before(h, b, o2[x])
          PROVE  b \in S \cup {d} \/ \E y \in 1 .. x - 1 : o2[y] = b
        <3>1. x + 1 \in 1 .. m /\ Before(h, b, o[x + 1])
            BY <2>1, <2>6
        <3>2. b \in S \/ \E y \in 1 .. (x + 1) - 1 : o[y] = b
            BY <3>1 DEF Partial
        <3>3. ASSUME NEW y \in 1 .. (x + 1) - 1, o[y] = b, y # 1
              PROVE  \E z \in 1 .. x - 1 : o2[z] = b
            <4>1. y - 1 \in 1 .. x - 1 /\ y - 1 \in 1 .. m - 1 /\ (y - 1) + 1 = y
                BY <3>3
            <4>2. o2[y - 1] = b
                BY <3>3, <4>1
            <4> QED
                BY <4>1, <4>2
        <3> QED
            BY <3>2, <3>3
    <2> HIDE DEF o2, d
    <2> QED
        BY <2>3, <2>5, <2>6 DEF Partial
<1>8. S \cup Members(o, m) = (S \cup {d}) \cup Members(o2, m - 1)
    <2>1. Members(o2, m - 1) = {o[x + 1] : x \in 1 .. m - 1}
        BY DEF Members
    <2>2. 1 .. m = {1} \cup {x + 1 : x \in 1 .. m - 1}
        <3>1. ASSUME NEW y \in 1 .. m, y # 1 PROVE y - 1 \in 1 .. m - 1 /\ y = (y - 1) + 1
            BY <3>1
        <3> QED
            BY <1>2, <3>1
    <2>3. Members(o, m) = {d} \cup {o[x + 1] : x \in 1 .. m - 1}
        BY <2>2 DEF Members
    <2> HIDE DEF o2, d
    <2> QED
        BY <2>1, <2>3
<1> HIDE DEF o2, q2
<1> QED
    BY <1>2, <1>3, <1>4, <1>6, <1>7, <1>8 DEF HasRest

\* If there is something left, S is in X and every next operation fails or leads
\* to where nothing is to be found, there is nothing here.
LEMMA OverEnd ==
    ASSUME NEW h, NEW X, NEW S \in SUBSET IdsOf(h), S # IdsOf(h), S \in X, NEW s,
           \A d : MayBeNext(h, S, d) /\ StepIn(h, s, d).ok =>
             Over(h, X, S \cup {d}, StepIn(h, s, d).state)
    PROVE  Over(h, X, S, s)
<1> SUFFICES ASSUME NEW m \in Nat, NEW o, NEW q, Partial(h, S, m, o), Accepted(h, s, m, o, q)
             PROVE  S \cup Members(o, m) # IdsOf(h) /\ S \cup Members(o, m) \in X
    BY DEF Over, Dead, Explored
<1>1. CASE m = 0
    <2>1. Members(o, m) = {}
        BY <1>1 DEF Members
    <2> QED
        BY <2>1
<1>2. CASE m # 0
    <2>1. MayBeNext(h, S, o[1]) /\ StepIn(h, s, o[1]).ok /\ m - 1 \in Nat /\ HasRest(h, S, s, m, o)
        BY <1>2, Rest
    <2>2. PICK o2, q2 : /\ Partial(h, S \cup {o[1]}, m - 1, o2)
                        /\ Accepted(h, StepIn(h, s, o[1]).state, m - 1, o2, q2)
                        /\ S \cup Members(o, m) = (S \cup {o[1]}) \cup Members(o2, m - 1)
        BY <2>1 DEF HasRest
    <2>3. Over(h, X, S \cup {o[1]}, StepIn(h, s, o[1]).state)
        BY <2>1
    <2> QED
        BY <2>1, <2>2, <2>3 DEF Over, Dead, Explored
<1> QED
    BY <1>1, <1>2

----------------------------------------------------------------------------
(* The invariant of the search in one partition. *)

\* Level k of the search is where it was, or is, with k calls on the stack:
\* the operations linearized by then, the state, and the entry to look at.
Done(h, c, k) == {h[c[x].entry].id : x \in 1 .. k}
StateAt(c, st, k) == IF k < Len(c) THEN c[k + 1].state ELSE st
PlaceAt(c, e, k) == IF k < Len(c) THEN c[k + 1].entry ELSE e

\* The entries of operations that are not in S.
Left(h, S) == {x \in DOMAIN h : h[x].id \notin S}

\* All that is left before e are calls, none of which leads on.
Tried(h, X, S, s, e) == \A y \in Left(h, S) : y < e =>
  /\ h[y].kind = "call"
  /\ StepIn(h, s, h[y].id).ok => Over(h, X, S \cup {h[y].id}, StepIn(h, s, h[y].id).state)

\* Each call on the stack was left, and the model accepted it.
Stacked(h, st, c) ==
  /\ StateAt(c, st, 0) = InitState
  /\ \A k \in 1 .. Len(c) :
       /\ c[k].entry \in Left(h, Done(h, c, k - 1)) /\ h[c[k].entry].kind = "call"
       /\ StepIn(h, c[k].state, h[c[k].entry].id).ok
       /\ StateAt(c, st, k) = StepIn(h, c[k].state, h[c[k].entry].id).state

\* The list is what the lifts of the calls on the stack make of the first one.
Lists(h, l, c) == \E L :
  /\ L[0] = makeLinkedEntries(Len(h))
  /\ \A k \in 1 .. Len(c) : L[k] = lift(L[k - 1], c[k].entry, MatchIn(h, c[k].entry))
  /\ \A k \in 0 .. Len(c) : IsList(L[k], Left(h, Done(h, c, k)), Len(h))
  /\ L[Len(c)] = l

\* A configuration in the cache is that of a level, or no linearization has it.
Cached(h, X, st, c, ca) == \A p \in ca : \E S \in SUBSET IdsOf(h) : \E s :
  /\ p = <<BitsOf(Len(h) \div 2, S), s>>
  /\ Over(h, X, S, s) \/ \E k \in 1 .. Len(c) : S = Done(h, c, k) /\ s = StateAt(c, st, k)

\* At every level, what comes before the entry was tried.
AllTried(h, X, c, st, e) ==
  \A k \in 0 .. Len(c) : Tried(h, X, Done(h, c, k), StateAt(c, st, k), PlaceAt(c, e, k))

IsSeq(c) == \E T : c \in Seq(T)

Search(h, X, l, e, st, b, c, ca) ==
  /\ IsSeq(c) /\ Stacked(h, st, c) /\ Lists(h, l, c) /\ Cached(h, X, st, c, ca)
  /\ AllTried(h, X, c, st, e)
  /\ b = BitsOf(Len(h) \div 2, Done(h, c, Len(c)))
  /\ e \in Left(h, Done(h, c, Len(c))) \cup {Len(h) + 1}

\* A larger X is as good.
LEMMA SearchGrows ==
    ASSUME NEW h, NEW X, NEW Y, X \subseteq Y, NEW l, NEW e, NEW st, NEW b, NEW c, NEW ca,
           Search(h, X, l, e, st, b, c, ca)
    PROVE  Search(h, Y, l, e, st, b, c, ca)
<1>1. \A S, s : Over(h, X, S, s) => Over(h, Y, S, s)
    BY DEF Over, Explored
<1>2. \A S, s, x : Tried(h, X, S, s, x) => Tried(h, Y, S, s, x)
    BY <1>1 DEF Tried
<1>3. AllTried(h, Y, c, st, e)
    BY <1>2 DEF Search, AllTried
<1>4. Cached(h, Y, st, c, ca)
    <2> SUFFICES ASSUME NEW p \in ca
                 PROVE  \E S \in SUBSET IdsOf(h) : \E s :
                          /\ p = <<BitsOf(Len(h) \div 2, S), s>>
                          /\ \/ Over(h, Y, S, s)
                             \/ \E k \in 1 .. Len(c) : S = Done(h, c, k) /\ s = StateAt(c, st, k)
        BY DEF Cached
    <2>1. PICK S, s : /\ S \in SUBSET IdsOf(h)
                      /\ p = <<BitsOf(Len(h) \div 2, S), s>>
                      /\ \/ Over(h, X, S, s)
                         \/ \E k \in 1 .. Len(c) : S = Done(h, c, k) /\ s = StateAt(c, st, k)
        BY DEF Search, Cached
    <2> QED
        BY <1>1, <2>1
<1> QED
    BY <1>3, <1>4 DEF Search

\* c2 is c with one call more.
Pushed(c, e, st, c2) ==
  /\ IsSeq(c) /\ IsSeq(c2) /\ Len(c2) = Len(c) + 1
  /\ \A x \in 1 .. Len(c) : c2[x] = c[x]
  /\ c2[Len(c) + 1].entry = e /\ c2[Len(c) + 1].state = st

LEMMA LenNat == \A c : IsSeq(c) => Len(c) \in Nat
BY DEF IsSeq

LEMMA AppendPushes ==
    ASSUME NEW c, IsSeq(c), NEW e, NEW st
    PROVE  Pushed(c, e, st, Append(c, [entry |-> e, state |-> st]))
<1>1. PICK T : c \in Seq(T)
    BY DEF IsSeq
<1> DEFINE r == [entry |-> e, state |-> st]
           T2 == T \cup {r}
<1>2. c \in Seq(T2) /\ r \in T2
    BY <1>1
<1>3. r.entry = e /\ r.state = st
    OBVIOUS
<1> HIDE DEF r, T2
<1>4. /\ Append(c, r) \in Seq(T2) /\ Len(Append(c, r)) = Len(c) + 1
      /\ \A x \in 1 .. Len(c) : Append(c, r)[x] = c[x]
      /\ Append(c, r)[Len(c) + 1] = r
    BY <1>2
<1> QED
    BY <1>1, <1>3, <1>4 DEF Pushed, IsSeq, r

LEMMA FrontPushes ==
    ASSUME NEW c, IsSeq(c), c # <<>>
    PROVE  Pushed(Front(c), Last(c).entry, Last(c).state, c)
<1>1. PICK T : c \in Seq(T)
    BY DEF IsSeq
<1>2. Len(c) \in Nat /\ Len(c) > 0
    BY <1>1
<1>3. /\ Front(c) \in Seq(T) /\ Len(Front(c)) = Len(c) - 1
      /\ \A x \in 1 .. Len(c) - 1 : Front(c)[x] = c[x]
    <2> DEFINE n == Len(c) - 1
    <2>1. n \in 0 .. Len(c)
        BY <1>2
    <2> HIDE DEF n
    <2>2. /\ SubSeq(c, 1, n) \in Seq(T) /\ Len(SubSeq(c, 1, n)) = n
          /\ \A x \in 1 .. n : SubSeq(c, 1, n)[x] = c[x]
        BY <1>1, <1>2, <2>1
    <2>3. Front(c) = SubSeq(c, 1, n)
        BY DEF Front, n
    <2> QED
        BY <2>2, <2>3 DEF n
<1>4. Last(c) = c[Len(c)] /\ Len(Front(c)) + 1 = Len(c)
    BY <1>2, <1>3 DEF Last
<1>5. \A x \in 1 .. Len(Front(c)) : c[x] = Front(c)[x]
    BY <1>3
<1>6. c[Len(Front(c)) + 1] = Last(c)
    BY <1>4
<1>7. IsSeq(Front(c))
    BY <1>3 DEF IsSeq
<1> QED
    BY <1>4, <1>5, <1>6, <1>7 DEF Pushed

\* The levels before and after a call is pushed on the stack.
SameLevels(h, c, e, st, c2, e2, st2) ==
  /\ Len(c) \in Nat /\ Len(c2) = Len(c) + 1
  /\ \A k \in 0 .. Len(c) : /\ Done(h, c2, k) = Done(h, c, k)
                            /\ StateAt(c2, st2, k) = StateAt(c, st, k)
                            /\ PlaceAt(c2, e2, k) = PlaceAt(c, e, k)
  /\ Done(h, c2, Len(c2)) = Done(h, c, Len(c)) \cup {h[e].id}
  /\ StateAt(c2, st2, Len(c2)) = st2 /\ PlaceAt(c2, e2, Len(c2)) = e2
  /\ StateAt(c, st, Len(c)) = st /\ PlaceAt(c, e, Len(c)) = e

LEMMA Levels ==
    ASSUME NEW h, NEW c, NEW c2, NEW e, NEW st, NEW e2, NEW st2, Pushed(c, e, st, c2)
    PROVE  SameLevels(h, c, e, st, c2, e2, st2)
<1>1. /\ Len(c) \in Nat /\ Len(c2) = Len(c) + 1
      /\ \A x \in 1 .. Len(c) : c2[x] = c[x]
      /\ c2[Len(c) + 1].entry = e /\ c2[Len(c) + 1].state = st
    BY LenNat DEF Pushed
<1>2. ASSUME NEW k \in 0 .. Len(c)
      PROVE  /\ Done(h, c2, k) = Done(h, c, k)
             /\ StateAt(c2, st2, k) = StateAt(c, st, k)
             /\ PlaceAt(c2, e2, k) = PlaceAt(c, e, k)
    <2>1. \A x \in 1 .. k : c2[x] = c[x]
        BY <1>1
    <2>2. Done(h, c2, k) = Done(h, c, k)
        BY <2>1 DEF Done
    <2>3. CASE k < Len(c)
        BY <1>1, <2>2, <2>3 DEF StateAt, PlaceAt
    <2>4. CASE k = Len(c)
        BY <1>1, <2>2, <2>4 DEF StateAt, PlaceAt
    <2> QED
        BY <1>1, <2>3, <2>4
<1>3. Done(h, c2, Len(c2)) = Done(h, c, Len(c)) \cup {h[e].id}
    <2>1. 1 .. Len(c) + 1 = (1 .. Len(c)) \cup {Len(c) + 1}
        BY <1>1
    <2> QED
        BY <1>1, <2>1 DEF Done
<1> QED
    BY <1>1, <1>2, <1>3 DEF StateAt, PlaceAt, SameLevels

\* An operation's entries leave together.
LEMMA LeftMinus ==
    ASSUME NEW h, IsHistory(h), NEW S, NEW x \in Left(h, S), h[x].kind = "call"
    PROVE  /\ MatchIn(h, x) \in Left(h, S) /\ x # MatchIn(h, x)
           /\ Left(h, S \cup {h[x].id}) = Left(h, S) \ {x, MatchIn(h, x)}
<1>1. x \in DOMAIN h /\ h[x].id \notin S
    BY DEF Left
<1>2. /\ MatchIn(h, x) \in DOMAIN h
      /\ h[MatchIn(h, x)].id = h[x].id /\ h[MatchIn(h, x)].kind = "return"
    BY <1>1, Entries
<1>3. ASSUME NEW y \in DOMAIN h, h[y].id = h[x].id PROVE y \in {x, MatchIn(h, x)}
    <2>1. h[x].kind \in {"call", "return"} /\ h[y].kind \in {"call", "return"}
        BY <1>1 DEF IsHistory
    <2>2. \A u, v \in DOMAIN h : h[u].id = h[v].id /\ h[u].kind = h[v].kind => u = v
        BY DEF IsHistory
    <2> QED
        BY <1>1, <1>2, <1>3, <2>1, <2>2
<1>4. "call" # "return"
    OBVIOUS
<1> QED
    BY <1>1, <1>2, <1>3, <1>4 DEF Left

\* What the invariant says of the operations on the stack.
LEMMA StackIds ==
    ASSUME NEW h, IsHistory(h), NEW st, NEW c, IsSeq(c), Stacked(h, st, c)
    PROVE  /\ Len(c) \in Nat
           /\ \A k \in 1 .. Len(c) : c[k].entry \in DOMAIN h /\ h[c[k].entry].kind = "call"
           /\ \A k \in 0 .. Len(c) : Done(h, c, k) \in SUBSET IdsOf(h)
           /\ \A k \in 0 .. Len(c) : Done(h, c, k) \subseteq Done(h, c, Len(c))
<1>1. Len(c) \in Nat
    BY LenNat
<1>2. \A k \in 1 .. Len(c) : c[k].entry \in DOMAIN h /\ h[c[k].entry].kind = "call"
    BY DEF Stacked, Left
<1>3. \A k \in 0 .. Len(c) : \A x \in 1 .. k : x \in 1 .. Len(c)
    BY <1>1
<1>4. \A k \in 0 .. Len(c) : Done(h, c, k) \in SUBSET IdsOf(h)
    BY <1>2, <1>3 DEF Done, IdsOf
<1>5. \A k \in 0 .. Len(c) : Done(h, c, k) \subseteq Done(h, c, Len(c))
    BY <1>3 DEF Done
<1> QED
    BY <1>1, <1>2, <1>4, <1>5

\* Nothing is left before the first node of the list.
LEMMA First ==
    ASSUME NEW h, IsHistory(h), NEW X, NEW l, NEW S, IsList(l, Left(h, S), Len(h)), NEW s
    PROVE  l.next[0] \in Left(h, S) \cup {Len(h) + 1} /\ Tried(h, X, S, s, l.next[0])
<1>1. DOMAIN h = 1 .. Len(h) /\ Len(h) \in Nat
    BY Entries
<1>2. l.next[0] \in Left(h, S) \cup {Len(h) + 1} /\ Adjacent(Left(h, S), 0, l.next[0])
    BY DEF IsList, Chain
<1>3. \A y \in Left(h, S) : y \in 1 .. Len(h)
    BY <1>1 DEF Left
<1>4. \A y \in Left(h, S) : ~(y < l.next[0])
    BY <1>1, <1>2, <1>3 DEF Adjacent
<1> QED
    BY <1>2, <1>4 DEF Tried

\* Linearize() keeps the invariant.
LEMMA Linearized ==
    ASSUME NEW h, IsHistory(h), NEW X, NEW l, NEW e \in DOMAIN h, NEW st, NEW b, NEW c, NEW ca,
           Search(h, X, l, e, st, b, c, ca),
           h[e].kind = "call", StepIn(h, st, h[e].id).ok,
           NEW st2, st2 = StepIn(h, st, h[e].id).state,
           NEW l2, l2 = lift(l, e, MatchIn(h, e)),
           NEW b2, b2 = set(b, h[e].id),
           NEW c2, Pushed(c, e, st, c2)
    PROVE  Search(h, X, l2, l2.next[0], st2, b2, c2, ca \cup {<<b2, st2>>})
<1> DEFINE D == Done(h, c, Len(c))
           D2 == Done(h, c2, Len(c2))
           e2 == l2.next[0]
<1>1. /\ IsSeq(c) /\ Stacked(h, st, c) /\ Lists(h, l, c) /\ Cached(h, X, st, c, ca)
      /\ \A k \in 0 .. Len(c) : Tried(h, X, Done(h, c, k), StateAt(c, st, k), PlaceAt(c, e, k))
      /\ b = BitsOf(Len(h) \div 2, D)
      /\ e \in Left(h, D) \cup {Len(h) + 1}
    BY DEF Search, AllTried
<1>2. /\ Len(h) \in Nat /\ DOMAIN h = 1 .. Len(h)
      /\ h[e].id \in IdsOf(h) /\ IdsOf(h) = 0 .. Len(h) \div 2 - 1 /\ Len(h) \div 2 \in Nat
    BY Entries
<1>3. e \in Left(h, D) /\ D \in SUBSET IdsOf(h) /\ Len(c) \in Nat
    BY <1>1, <1>2, StackIds
<1>4. /\ Len(c2) = Len(c) + 1 /\ IsSeq(c2)
      /\ \A x \in 1 .. Len(c) : c2[x] = c[x]
      /\ c2[Len(c) + 1].entry = e /\ c2[Len(c) + 1].state = st
    BY DEF Pushed
<1>5. /\ \A k \in 0 .. Len(c) : /\ Done(h, c2, k) = Done(h, c, k)
                                /\ StateAt(c2, st2, k) = StateAt(c, st, k)
                                /\ PlaceAt(c2, e2, k) = PlaceAt(c, e, k)
      /\ D2 = D \cup {h[e].id}
      /\ StateAt(c2, st2, Len(c2)) = st2 /\ PlaceAt(c2, e2, Len(c2)) = e2
      /\ StateAt(c, st, Len(c)) = st /\ PlaceAt(c, e, Len(c)) = e
    <2> HIDE DEF e2
    <2>1. SameLevels(h, c, e, st, c2, e2, st2)
        BY Levels
    <2> QED
        BY <2>1 DEF SameLevels
<1>6. /\ MatchIn(h, e) \in Left(h, D) /\ e # MatchIn(h, e)
      /\ Left(h, D2) = Left(h, D) \ {e, MatchIn(h, e)}
    <2> HIDE DEF D, D2
    <2>1. /\ MatchIn(h, e) \in Left(h, D) /\ e # MatchIn(h, e)
          /\ Left(h, D \cup {h[e].id}) = Left(h, D) \ {e, MatchIn(h, e)}
        BY <1>3, LeftMinus
    <2> QED
        BY <1>5, <2>1
<1>7. Stacked(h, st2, c2)
    <2>1. StateAt(c2, st2, 0) = InitState
        BY <1>1, <1>3, <1>5 DEF Stacked
    <2>2. ASSUME NEW k \in 1 .. Len(c)
          PROVE  /\ c2[k].entry \in Left(h, Done(h, c2, k - 1)) /\ h[c2[k].entry].kind = "call"
                 /\ StepIn(h, c2[k].state, h[c2[k].entry].id).ok
                 /\ StateAt(c2, st2, k) = StepIn(h, c2[k].state, h[c2[k].entry].id).state
        <3>1. k - 1 \in 0 .. Len(c) /\ k \in 0 .. Len(c)
            BY <1>3
        <3>2. /\ c2[k] = c[k] /\ Done(h, c2, k - 1) = Done(h, c, k - 1)
              /\ StateAt(c2, st2, k) = StateAt(c, st, k)
            BY <1>4, <1>5, <3>1
        <3> QED
            BY <1>1, <3>2 DEF Stacked
    <2>3. \A k \in 1 .. Len(c2) : k \in 1 .. Len(c) \/ (k = Len(c) + 1 /\ k - 1 = Len(c) /\ k = Len(c2))
        BY <1>3, <1>4
    <2>4. Len(c) \in 0 .. Len(c)
        BY <1>3
    <2>5. ASSUME NEW k, k = Len(c) + 1, k - 1 = Len(c), k = Len(c2)
          PROVE  /\ c2[k].entry \in Left(h, Done(h, c2, k - 1)) /\ h[c2[k].entry].kind = "call"
                 /\ StepIn(h, c2[k].state, h[c2[k].entry].id).ok
                 /\ StateAt(c2, st2, k) = StepIn(h, c2[k].state, h[c2[k].entry].id).state
        <3>1. c2[k].entry = e /\ c2[k].state = st /\ Done(h, c2, k - 1) = D
            BY <1>4, <1>5, <2>4, <2>5
        <3> QED
            BY <1>3, <1>5, <2>5, <3>1
    <2> QED
        BY <2>1, <2>2, <2>3, <2>5 DEF Stacked
<1>8. Lists(h, l2, c2) /\ IsList(l2, Left(h, D2), Len(h))
    <2>1. PICK L :
            /\ L[0] = makeLinkedEntries(Len(h))
            /\ \A k \in 1 .. Len(c) : L[k] = lift(L[k - 1], c[k].entry, MatchIn(h, c[k].entry))
            /\ \A k \in 0 .. Len(c) : IsList(L[k], Left(h, Done(h, c, k)), Len(h))
            /\ L[Len(c)] = l
        BY <1>1 DEF Lists
    <2> DEFINE M == [k \in 0 .. Len(c2) |-> IF k = Len(c2) THEN l2 ELSE L[k]]
    <2>2. M[Len(c2)] = l2 /\ \A k \in 0 .. Len(c) : M[k] = L[k] /\ 0 \in 0 .. Len(c) /\ Len(c) \in 0 .. Len(c)
        BY <1>3, <1>4
    <2>3. IsList(l2, Left(h, D2), Len(h))
        <3>1. IsList(l, Left(h, D), Len(h))
            BY <2>1, <2>2, <1>3
        <3>2. Left(h, D) \in SUBSET (1 .. Len(h))
            BY <1>2 DEF Left
        <3> QED
            BY <1>2, <1>3, <1>6, <3>1, <3>2, LiftUnlift
    <2> HIDE DEF M
    <2>4. M[0] = makeLinkedEntries(Len(h))
        BY <1>3, <2>1, <2>2
    <2>5. ASSUME NEW k \in 1 .. Len(c2)
          PROVE  M[k] = lift(M[k - 1], c2[k].entry, MatchIn(h, c2[k].entry))
        <3>1. CASE k \in 1 .. Len(c)
            <4>1. k - 1 \in 0 .. Len(c) /\ k \in 0 .. Len(c)
                BY <1>3, <3>1
            <4>2. M[k] = L[k] /\ M[k - 1] = L[k - 1] /\ c2[k] = c[k]
                BY <1>4, <2>2, <3>1, <4>1
            <4> QED
                BY <2>1, <3>1, <4>2
        <3>2. CASE k = Len(c) + 1
            <4>1. k - 1 = Len(c) /\ Len(c) \in 0 .. Len(c)
                BY <1>3, <3>2
            <4>2. M[k - 1] = l /\ M[k] = l2 /\ c2[k].entry = e
                BY <1>4, <2>1, <2>2, <3>2, <4>1
            <4> QED
                BY <4>2
        <3> QED
            BY <1>3, <1>4, <3>1, <3>2
    <2>6. ASSUME NEW k \in 0 .. Len(c2)
          PROVE  IsList(M[k], Left(h, Done(h, c2, k)), Len(h))
        <3>1. CASE k \in 0 .. Len(c)
            BY <1>5, <2>1, <2>2, <3>1
        <3>2. CASE k = Len(c2)
            BY <2>2, <2>3, <3>2
        <3> QED
            BY <1>3, <1>4, <3>1, <3>2
    <2> QED
        BY <2>2, <2>3, <2>4, <2>5, <2>6 DEF Lists
<1>9. b2 = BitsOf(Len(h) \div 2, D2)
    <2> HIDE DEF D, D2
    <2>1. PICK n \in Nat : n = Len(h) \div 2
        BY <1>2
    <2>2. D \in SUBSET (0 .. n - 1) /\ h[e].id \in 0 .. n - 1
        BY <1>2, <1>3, <2>1
    <2>3. set(BitsOf(n, D), h[e].id) = BitsOf(n, D \cup {h[e].id})
        BY <2>2, BitsOfSet
    <2>4. b = BitsOf(n, D) /\ D2 = D \cup {h[e].id}
        BY <1>1, <1>5, <2>1
    <2> QED
        BY <2>1, <2>3, <2>4
<1>10. D2 \in SUBSET IdsOf(h)
    BY <1>2, <1>3, <1>5
<1>11. Cached(h, X, st2, c2, ca \cup {<<b2, st2>>})
    <2>1. ASSUME NEW p \in ca
          PROVE  \E S \in SUBSET IdsOf(h) : \E s :
                   /\ p = <<BitsOf(Len(h) \div 2, S), s>>
                   /\ Over(h, X, S, s) \/ \E k \in 1 .. Len(c2) : S = Done(h, c2, k) /\ s = StateAt(c2, st2, k)
        <3>1. PICK S, s :
                /\ S \in SUBSET IdsOf(h)
                /\ p = <<BitsOf(Len(h) \div 2, S), s>>
                /\ Over(h, X, S, s) \/ \E k \in 1 .. Len(c) : S = Done(h, c, k) /\ s = StateAt(c, st, k)
            BY <1>1 DEF Cached
        <3>2. \A k \in 1 .. Len(c) : k \in 1 .. Len(c2) /\ k \in 0 .. Len(c)
            BY <1>3, <1>4
        <3> QED
            BY <1>5, <3>1, <3>2
    <2>2. Len(c2) \in 1 .. Len(c2)
        BY <1>3, <1>4
    <2>3. \E S \in SUBSET IdsOf(h) : \E s :
            /\ <<b2, st2>> = <<BitsOf(Len(h) \div 2, S), s>>
            /\ Over(h, X, S, s) \/ \E k \in 1 .. Len(c2) : S = Done(h, c2, k) /\ s = StateAt(c2, st2, k)
        BY <1>5, <1>9, <1>10, <2>2
    <2> QED
        BY <2>1, <2>3 DEF Cached
<1>12. e2 \in Left(h, D2) \cup {Len(h) + 1} /\ Tried(h, X, D2, st2, e2)
    BY <1>8, First
<1>13. ASSUME NEW k \in 0 .. Len(c2)
       PROVE  Tried(h, X, Done(h, c2, k), StateAt(c2, st2, k), PlaceAt(c2, e2, k))
    <2>1. CASE k \in 0 .. Len(c)
        BY <1>1, <1>5, <2>1
    <2>2. CASE k = Len(c2)
        BY <1>5, <1>12, <2>2
    <2> QED
        BY <1>3, <1>4, <2>1, <2>2
<1> QED
    BY <1>4, <1>7, <1>8, <1>9, <1>11, <1>12, <1>13 DEF Search, AllTried

LEMMA ListNow ==
    ASSUME NEW h, NEW l, NEW c, IsSeq(c), Lists(h, l, c)
    PROVE  IsList(l, Left(h, Done(h, c, Len(c))), Len(h))
<1>1. Len(c) \in 0 .. Len(c)
    BY LenNat
<1> QED
    BY <1>1 DEF Lists

\* A call that does not lead on is passed.
LEMMA Passed ==
    ASSUME NEW h, IsHistory(h), NEW X, NEW l, NEW S, IsList(l, Left(h, S), Len(h)),
           NEW x \in Left(h, S), h[x].kind = "call", NEW s, Tried(h, X, S, s, x),
           StepIn(h, s, h[x].id).ok => Over(h, X, S \cup {h[x].id}, StepIn(h, s, h[x].id).state)
    PROVE  l.next[x] \in Left(h, S) \cup {Len(h) + 1} /\ Tried(h, X, S, s, l.next[x])
<1>1. DOMAIN h = 1 .. Len(h) /\ Len(h) \in Nat
    BY Entries
<1>2. l.next[x] \in Left(h, S) \cup {Len(h) + 1} /\ Adjacent(Left(h, S), x, l.next[x])
    BY DEF IsList, Chain
<1>3. \A y \in Left(h, S) : y \in 1 .. Len(h)
    BY <1>1 DEF Left
<1>4. \A y \in Left(h, S) : y < l.next[x] => y < x \/ y = x
    BY <1>1, <1>2, <1>3 DEF Adjacent
<1> QED
    BY <1>2, <1>4 DEF Tried

\* The entry matters to the last level only.
LEMMA Moved ==
    ASSUME NEW h, NEW X, NEW st, NEW c, IsSeq(c), NEW e, NEW e2,
           AllTried(h, X, c, st, e), Tried(h, X, Done(h, c, Len(c)), st, e2)
    PROVE  AllTried(h, X, c, st, e2)
<1>1. Len(c) \in Nat
    BY LenNat
<1>2. StateAt(c, st, Len(c)) = st /\ PlaceAt(c, e2, Len(c)) = e2
    BY <1>1 DEF StateAt, PlaceAt
<1>3. \A k \in 0 .. Len(c) : k = Len(c) \/ PlaceAt(c, e2, k) = PlaceAt(c, e, k)
    BY <1>1 DEF PlaceAt
<1> QED
    BY <1>2, <1>3 DEF AllTried

\* A cached configuration with one operation more is not that of a level.
LEMMA CacheIsOver ==
    ASSUME NEW h, IsHistory(h), NEW X, NEW st, NEW c, IsSeq(c), Stacked(h, st, c),
           NEW ca, Cached(h, X, st, c, ca), NEW D, D = Done(h, c, Len(c)),
           NEW d \in IdsOf(h), d \notin D, NEW s,
           NEW p \in ca, equals(set(BitsOf(Len(h) \div 2, D), d), p[1]), s = p[2]
    PROVE  Over(h, X, D \cup {d}, s)
<1>1. PICK n \in Nat : n = Len(h) \div 2 /\ IdsOf(h) = 0 .. n - 1
    BY Entries
<1>2. /\ D \in SUBSET IdsOf(h)
      /\ \A k \in 0 .. Len(c) : Done(h, c, k) \subseteq D
      /\ Len(c) \in Nat
    <2>1. Len(c) \in Nat /\ Len(c) \in 0 .. Len(c)
        BY LenNat
    <2> QED
        BY <2>1, StackIds
<1>3. PICK S, r :
        /\ S \in SUBSET IdsOf(h)
        /\ p = <<BitsOf(Len(h) \div 2, S), r>>
        /\ Over(h, X, S, r) \/ \E k \in 1 .. Len(c) : S = Done(h, c, k) /\ r = StateAt(c, st, k)
    BY DEF Cached
<1>4. p[1] = BitsOf(n, S) /\ s = r
    BY <1>1, <1>3
<1>5. set(BitsOf(n, D), d) = BitsOf(n, D \cup {d})
    <2>1. D \in SUBSET (0 .. n - 1) /\ d \in 0 .. n - 1
        BY <1>1, <1>2
    <2> QED
        BY <2>1, BitsOfSet
<1>6. S = D \cup {d}
    <2>1. S \in SUBSET (0 .. n - 1) /\ D \cup {d} \in SUBSET (0 .. n - 1)
        BY <1>1, <1>2, <1>3
    <2>2. equals(BitsOf(n, D \cup {d}), BitsOf(n, S))
        BY <1>1, <1>4, <1>5
    <2> QED
        BY <2>1, <2>2, BitsOfEquals
<1>7. \A k \in 1 .. Len(c) : S # Done(h, c, k)
    <2>1. \A k \in 1 .. Len(c) : k \in 0 .. Len(c)
        BY <1>2
    <2> QED
        BY <1>2, <1>6, <2>1
<1> QED
    BY <1>3, <1>4, <1>6, <1>7

\* Skip() keeps the invariant.
LEMMA Skipped ==
    ASSUME NEW h, IsHistory(h), NEW X, NEW l, NEW e \in DOMAIN h, NEW st, NEW b, NEW c, NEW ca,
           Search(h, X, l, e, st, b, c, ca),
           h[e].kind = "call",
           StepIn(h, st, h[e].id).ok =>
             \E p \in ca : /\ equals(set(b, h[e].id), p[1])
                           /\ StepIn(h, st, h[e].id).state = p[2]
    PROVE  Search(h, X, l, l.next[e], st, b, c, ca)
<1> DEFINE D == Done(h, c, Len(c))
<1>1. /\ IsSeq(c) /\ Stacked(h, st, c) /\ Lists(h, l, c) /\ Cached(h, X, st, c, ca)
      /\ AllTried(h, X, c, st, e)
      /\ b = BitsOf(Len(h) \div 2, D)
      /\ e \in Left(h, D) \cup {Len(h) + 1}
    BY DEF Search, AllTried
<1>2. /\ Len(h) \in Nat /\ DOMAIN h = 1 .. Len(h) /\ h[e].id \in IdsOf(h)
    BY Entries
<1>3. e \in Left(h, D) /\ h[e].id \notin D
    BY <1>1, <1>2 DEF Left
<1>4. Tried(h, X, D, st, e)
    <2>1. Len(c) \in Nat /\ Len(c) \in 0 .. Len(c)
        BY <1>1, LenNat
    <2>2. StateAt(c, st, Len(c)) = st /\ PlaceAt(c, e, Len(c)) = e
        BY <2>1 DEF StateAt, PlaceAt
    <2> QED
        BY <1>1, <2>1, <2>2 DEF AllTried
<1>5. StepIn(h, st, h[e].id).ok => Over(h, X, D \cup {h[e].id}, StepIn(h, st, h[e].id).state)
    <2> HIDE DEF D
    <2> SUFFICES ASSUME NEW s, s = StepIn(h, st, h[e].id).state, StepIn(h, st, h[e].id).ok
                 PROVE  Over(h, X, D \cup {h[e].id}, s)
        OBVIOUS
    <2>1. PICK p \in ca : equals(set(BitsOf(Len(h) \div 2, D), h[e].id), p[1]) /\ s = p[2]
        BY <1>1
    <2>2. D = Done(h, c, Len(c))
        BY DEF D
    <2> QED
        BY <1>1, <1>2, <1>3, <2>1, <2>2, CacheIsOver
<1>6. IsList(l, Left(h, D), Len(h))
    BY <1>1, ListNow
<1>7. l.next[e] \in Left(h, D) \cup {Len(h) + 1} /\ Tried(h, X, D, st, l.next[e])
    <2> HIDE DEF D
    <2> QED
        BY <1>3, <1>4, <1>5, <1>6, Passed
<1>8. AllTried(h, X, c, st, l.next[e])
    BY <1>1, <1>7, Moved
<1> QED
    BY <1>1, <1>7, <1>8 DEF Search

\* At a return entry nothing leads on.
LEMMA Exhausted ==
    ASSUME NEW h, IsHistory(h), NEW X, NEW l, NEW e \in DOMAIN h, NEW st, NEW b, NEW c, NEW ca,
           Search(h, X, l, e, st, b, c, ca), h[e].kind = "return", Done(h, c, Len(c)) \in X
    PROVE  Over(h, X, Done(h, c, Len(c)), st)
<1> DEFINE D == Done(h, c, Len(c))
<1>1. /\ Len(h) \in Nat /\ DOMAIN h = 1 .. Len(h) /\ h[e].id \in IdsOf(h)
      /\ \A d \in IdsOf(h) : /\ CallIn(h, d) \in DOMAIN h
                             /\ h[CallIn(h, d)].id = d /\ h[CallIn(h, d)].kind = "call"
    BY Entries
<1>2. /\ IsSeq(c) /\ Stacked(h, st, c)
      /\ \A k \in 0 .. Len(c) : Tried(h, X, Done(h, c, k), StateAt(c, st, k), PlaceAt(c, e, k))
      /\ e \in Left(h, D) \cup {Len(h) + 1}
    BY DEF Search, AllTried
<1>3. Len(c) \in Nat /\ Len(c) \in 0 .. Len(c)
    BY <1>2, LenNat
<1>4. Tried(h, X, D, st, e)
    <2>1. StateAt(c, st, Len(c)) = st /\ PlaceAt(c, e, Len(c)) = e
        BY <1>3 DEF StateAt, PlaceAt
    <2> QED
        BY <1>2, <1>3, <2>1
<1>5. D \in SUBSET IdsOf(h) /\ D \in X
    BY <1>2, <1>3, StackIds
<1> HIDE DEF D
<1>6. e \in Left(h, D) /\ h[e].id \notin D /\ D # IdsOf(h)
    BY <1>1, <1>2 DEF Left
<1>7. ASSUME NEW d, MayBeNext(h, D, d), StepIn(h, st, d).ok
      PROVE  Over(h, X, D \cup {d}, StepIn(h, st, d).state)
    <2>1. d \in IdsOf(h) /\ d \notin D
        BY <1>7 DEF MayBeNext
    <2>2. PICK y \in DOMAIN h : h[y].id = d /\ h[y].kind = "call"
        BY <1>1, <2>1
    <2>3. y # e
        BY <2>2
    <2>4. ~(e < y)
        <3>1. SUFFICES ASSUME e < y PROVE FALSE
            OBVIOUS
        <3>2. Before(h, h[e].id, d)
            BY <2>2, <3>1 DEF Before
        <3> QED
            BY <1>1, <1>6, <1>7, <3>2 DEF MayBeNext
    <2>5. y < e
        BY <1>1, <2>3, <2>4
    <2>6. y \in Left(h, D)
        BY <2>1, <2>2 DEF Left
    <2> QED
        BY <1>4, <1>7, <2>2, <2>5, <2>6 DEF Tried
<1>8. Over(h, X, D, st)
    BY <1>5, <1>6, <1>7, OverEnd
<1> QED
    BY <1>8 DEF D

\* Backtrack() keeps the invariant.
LEMMA Backtracked ==
    ASSUME NEW h, IsHistory(h), NEW X, NEW l, NEW e \in DOMAIN h, NEW st, NEW b, NEW c2, NEW ca,
           Search(h, X, l, e, st, b, c2, ca), h[e].kind = "return", Done(h, c2, Len(c2)) \in X,
           NEW c, NEW x, NEW s, Pushed(c, x, s, c2),
           NEW l2, l2 = unlift(l, x, MatchIn(h, x)),
           NEW b2, b2 = clear(b, h[x].id)
    PROVE  Search(h, X, l2, l2.next[x], s, b2, c, ca)
<1> DEFINE D == Done(h, c, Len(c))
           D2 == Done(h, c2, Len(c2))
<1>1. /\ IsSeq(c2) /\ Stacked(h, st, c2) /\ Lists(h, l, c2) /\ Cached(h, X, st, c2, ca)
      /\ \A k \in 0 .. Len(c2) : Tried(h, X, Done(h, c2, k), StateAt(c2, st, k), PlaceAt(c2, e, k))
      /\ b = BitsOf(Len(h) \div 2, D2)
    BY DEF Search, AllTried
<1>2. /\ Len(h) \in Nat /\ DOMAIN h = 1 .. Len(h)
      /\ IdsOf(h) = 0 .. Len(h) \div 2 - 1 /\ Len(h) \div 2 \in Nat
      /\ \A y \in DOMAIN h : h[y].id \in IdsOf(h)
    BY Entries
<1>3. /\ Len(c2) = Len(c) + 1 /\ IsSeq(c)
      /\ \A k \in 1 .. Len(c) : c2[k] = c[k]
      /\ c2[Len(c) + 1].entry = x /\ c2[Len(c) + 1].state = s
    BY DEF Pushed
<1>4. /\ Len(c) \in Nat
      /\ \A k \in 0 .. Len(c) : /\ Done(h, c2, k) = Done(h, c, k)
                                /\ StateAt(c2, st, k) = StateAt(c, s, k)
                                /\ PlaceAt(c2, e, k) = PlaceAt(c, x, k)
      /\ D2 = D \cup {h[x].id}
      /\ StateAt(c2, st, Len(c2)) = st
      /\ StateAt(c, s, Len(c)) = s /\ PlaceAt(c, x, Len(c)) = x
    <2>1. SameLevels(h, c, x, s, c2, e, st)
        BY Levels
    <2> QED
        BY <2>1 DEF SameLevels
<1>5. \A k \in 0 .. Len(c) : k \in 0 .. Len(c2)
    BY <1>3, <1>4
<1>6. \A k \in 1 .. Len(c) : k \in 1 .. Len(c2) /\ k \in 0 .. Len(c) /\ k - 1 \in 0 .. Len(c)
    BY <1>3, <1>4
<1>7. Len(c2) \in 1 .. Len(c2) /\ Len(c2) - 1 = Len(c) /\ Len(c) \in 0 .. Len(c) /\ 0 \in 0 .. Len(c)
    BY <1>3, <1>4
<1>8. /\ x \in Left(h, D) /\ h[x].kind = "call"
      /\ StepIn(h, s, h[x].id).ok /\ st = StepIn(h, s, h[x].id).state
    <2>1. Done(h, c2, Len(c2) - 1) = D
        BY <1>4, <1>7
    <2>2. /\ c2[Len(c2)].entry \in Left(h, Done(h, c2, Len(c2) - 1)) /\ h[c2[Len(c2)].entry].kind = "call"
          /\ StepIn(h, c2[Len(c2)].state, h[c2[Len(c2)].entry].id).ok
          /\ StateAt(c2, st, Len(c2)) =
               StepIn(h, c2[Len(c2)].state, h[c2[Len(c2)].entry].id).state
        BY <1>1, <1>7 DEF Stacked
    <2>3. c2[Len(c2)].entry = x /\ c2[Len(c2)].state = s
        BY <1>3
    <2> HIDE DEF D
    <2> QED
        BY <1>4, <2>1, <2>2, <2>3
<1>9. Stacked(h, s, c)
    <2>1. StateAt(c, s, 0) = InitState
        BY <1>1, <1>4, <1>7 DEF Stacked
    <2>2. ASSUME NEW k \in 1 .. Len(c)
          PROVE  /\ c[k].entry \in Left(h, Done(h, c, k - 1)) /\ h[c[k].entry].kind = "call"
                 /\ StepIn(h, c[k].state, h[c[k].entry].id).ok
                 /\ StateAt(c, s, k) = StepIn(h, c[k].state, h[c[k].entry].id).state
        <3>1. /\ c2[k] = c[k] /\ Done(h, c2, k - 1) = Done(h, c, k - 1)
              /\ StateAt(c2, st, k) = StateAt(c, s, k)
            BY <1>3, <1>4, <1>6
        <3> QED
            BY <1>1, <1>6, <3>1 DEF Stacked
    <2> QED
        BY <2>1, <2>2 DEF Stacked
<1>10. D \in SUBSET IdsOf(h) /\ h[x].id \in IdsOf(h) /\ h[x].id \notin D
    <2>1. h[x].id \in IdsOf(h) /\ h[x].id \notin D
        BY <1>2, <1>8 DEF Left
    <2> QED
        BY <1>3, <1>7, <1>9, <2>1, StackIds
<1>11. Lists(h, l2, c) /\ IsList(l2, Left(h, D), Len(h))
    <2>1. PICK L :
            /\ L[0] = makeLinkedEntries(Len(h))
            /\ \A k \in 1 .. Len(c2) : L[k] = lift(L[k - 1], c2[k].entry, MatchIn(h, c2[k].entry))
            /\ \A k \in 0 .. Len(c2) : IsList(L[k], Left(h, Done(h, c2, k)), Len(h))
            /\ L[Len(c2)] = l
        BY <1>1 DEF Lists
    <2>2. IsList(L[Len(c)], Left(h, D), Len(h))
        BY <1>4, <1>5, <1>7, <2>1
    <2>3. l = lift(L[Len(c)], x, MatchIn(h, x))
        BY <1>3, <1>7, <2>1
    <2>4. L[Len(c)] = l2
        <3> HIDE DEF D
        <3>1. MatchIn(h, x) \in Left(h, D) /\ x # MatchIn(h, x)
            BY <1>8, LeftMinus
        <3>2. Left(h, D) \in SUBSET (1 .. Len(h))
            BY <1>2 DEF Left
        <3>3. PICK m : m = L[Len(c)]
            OBVIOUS
        <3>4. IsList(m, Left(h, D), Len(h)) /\ l = lift(m, x, MatchIn(h, x))
            BY <2>2, <2>3, <3>3
        <3>5. unlift(lift(m, x, MatchIn(h, x)), x, MatchIn(h, x)) = m
            <4> DEFINE R == Left(h, D)
                       y == MatchIn(h, x)
            <4>1. R \in SUBSET (1 .. Len(h)) /\ IsList(m, R, Len(h)) /\ x \in R /\ y \in R /\ x # y
                BY <1>8, <3>1, <3>2, <3>4
            <4> HIDE DEF R, y
            <4>2. IsList(lift(m, x, y), R \ {x, y}, Len(h)) /\ unlift(lift(m, x, y), x, y) = m
                BY <1>2, <4>1, LiftUnlift
            <4> QED
                BY <4>2 DEF y
        <3> QED
            BY <3>3, <3>4, <3>5
    <2>5. \A k \in 1 .. Len(c) : L[k] = lift(L[k - 1], c[k].entry, MatchIn(h, c[k].entry))
        BY <1>3, <1>6, <2>1
    <2>6. \A k \in 0 .. Len(c) : IsList(L[k], Left(h, Done(h, c, k)), Len(h))
        BY <1>4, <1>5, <2>1
    <2> QED
        BY <2>1, <2>2, <2>4, <2>5, <2>6 DEF Lists
<1>12. b2 = BitsOf(Len(h) \div 2, D)
    <2> HIDE DEF D, D2
    <2>1. PICK n \in Nat : n = Len(h) \div 2
        BY <1>2
    <2>2. D2 \in SUBSET (0 .. n - 1) /\ h[x].id \in 0 .. n - 1 /\ D2 \ {h[x].id} = D
        BY <1>2, <1>4, <1>10, <2>1
    <2>3. clear(BitsOf(n, D2), h[x].id) = BitsOf(n, D2 \ {h[x].id})
        BY <2>2, BitsOfSet, ZenonT(60)
    <2>4. b = BitsOf(n, D2)
        BY <1>1, <2>1
    <2> QED
        BY <2>1, <2>2, <2>3, <2>4
<1>13. Over(h, X, D2, st)
    BY Exhausted
<1>14. Cached(h, X, s, c, ca)
    <2>1. ASSUME NEW p \in ca
          PROVE  \E S \in SUBSET IdsOf(h) : \E r :
                   /\ p = <<BitsOf(Len(h) \div 2, S), r>>
                   /\ Over(h, X, S, r) \/ \E k \in 1 .. Len(c) : S = Done(h, c, k) /\ r = StateAt(c, s, k)
        <3>1. PICK S, r :
                /\ S \in SUBSET IdsOf(h)
                /\ p = <<BitsOf(Len(h) \div 2, S), r>>
                /\ Over(h, X, S, r) \/ \E k \in 1 .. Len(c2) : S = Done(h, c2, k) /\ r = StateAt(c2, st, k)
            BY <1>1 DEF Cached
        <3>2. ASSUME NEW k \in 1 .. Len(c2), S = Done(h, c2, k), r = StateAt(c2, st, k)
              PROVE  Over(h, X, S, r) \/ \E j \in 1 .. Len(c) : S = Done(h, c, j) /\ r = StateAt(c, s, j)
            <4>1. CASE k = Len(c2)
                BY <1>4, <1>13, <3>2, <4>1
            <4>2. CASE k \in 1 .. Len(c)
                BY <1>4, <1>6, <3>2, <4>2
            <4> QED
                BY <1>3, <1>4, <4>1, <4>2
        <3> QED
            BY <3>1, <3>2
    <2> QED
        BY <2>1 DEF Cached
<1>15. AllTried(h, X, c, s, x)
    BY <1>1, <1>4, <1>5 DEF AllTried
<1>16. l2.next[x] \in Left(h, D) \cup {Len(h) + 1} /\ Tried(h, X, D, s, l2.next[x])
    <2>1. Tried(h, X, D, s, x)
        BY <1>4, <1>7, <1>15 DEF AllTried
    <2>2. Over(h, X, D \cup {h[x].id}, StepIn(h, s, h[x].id).state)
        BY <1>4, <1>8, <1>13
    <2> HIDE DEF D
    <2> QED
        BY <1>8, <1>11, <2>1, <2>2, Passed
<1>17. AllTried(h, X, c, s, l2.next[x])
    BY <1>3, <1>15, <1>16, Moved
<1> QED
    BY <1>3, <1>9, <1>11, <1>12, <1>14, <1>16, <1>17 DEF Search

\* While the list is not empty the search is at one of its entries; when it is
\* empty every operation is on the stack.
LEMMA AtEntry ==
    ASSUME NEW h, IsHistory(h), NEW X, NEW l, NEW e, NEW st, NEW b, NEW c, NEW ca,
           Search(h, X, l, e, st, b, c, ca)
    PROVE  /\ e \in 1 .. Len(h) + 1
           /\ l.next[0] \in DOMAIN h => e \in DOMAIN h
           /\ l.next[0] \notin DOMAIN h => Done(h, c, Len(c)) = IdsOf(h)
<1> DEFINE D == Done(h, c, Len(c))
<1>1. /\ Len(h) \in Nat /\ DOMAIN h = 1 .. Len(h)
    BY Entries
<1>2. /\ IsSeq(c) /\ Stacked(h, st, c) /\ Lists(h, l, c)
      /\ \A k \in 0 .. Len(c) : Tried(h, X, Done(h, c, k), StateAt(c, st, k), PlaceAt(c, e, k))
      /\ e \in Left(h, D) \cup {Len(h) + 1}
    BY DEF Search, AllTried
<1>3. Len(c) \in Nat /\ Len(c) \in 0 .. Len(c)
    BY <1>2, LenNat
<1>4. Tried(h, X, D, st, e)
    <2>1. StateAt(c, st, Len(c)) = st /\ PlaceAt(c, e, Len(c)) = e
        BY <1>3 DEF StateAt, PlaceAt
    <2> QED
        BY <1>2, <1>3, <2>1
<1>5. D \in SUBSET IdsOf(h)
    BY <1>2, <1>3, StackIds
<1>6. IsList(l, Left(h, D), Len(h))
    BY <1>2, ListNow
<1> HIDE DEF D
<1>7. /\ l.next[0] \in Left(h, D) \cup {Len(h) + 1}
      /\ \A z \in Left(h, D) : z <= 0 \/ l.next[0] <= z
    BY <1>6 DEF IsList, Chain, Adjacent
<1>8. \A z \in Left(h, D) : z \in 1 .. Len(h)
    BY <1>1 DEF Left
<1>9. ASSUME l.next[0] \in DOMAIN h PROVE e \in DOMAIN h
    <2>1. l.next[0] \in Left(h, D)
        BY <1>1, <1>7, <1>9
    <2>2. PICK y \in Left(h, D) : h[y].kind = "return"
        <3>1. PICK z \in DOMAIN h : z \in Left(h, D)
            BY <1>9, <2>1
        <3>2. /\ MatchIn(h, z) \in DOMAIN h
              /\ h[MatchIn(h, z)].id = h[z].id /\ h[MatchIn(h, z)].kind = "return"
            BY Entries
        <3>3. MatchIn(h, z) \in Left(h, D)
            BY <3>1, <3>2 DEF Left
        <3> QED
            BY <3>2, <3>3
    <2>3. ~(y < e)
        BY <1>4, <2>2 DEF Tried
    <2> QED
        BY <1>1, <1>2, <1>8, <2>2, <2>3 DEF D
<1>10. ASSUME l.next[0] \notin DOMAIN h PROVE D = IdsOf(h)
    <2>1. l.next[0] = Len(h) + 1
        BY <1>1, <1>7, <1>8, <1>10
    <2>2. Left(h, D) = {}
        BY <1>1, <1>7, <1>8, <2>1
    <2> QED
        BY <1>5, <2>2 DEF Left, IdsOf
<1> QED
    BY <1>1, <1>2, <1>8, <1>9, <1>10 DEF D

----------------------------------------------------------------------------
(* Linearizability by its definition, and the search. *)

\* A nonempty set of naturals has a smallest member.
LEMMA Smallest ==
    ASSUME NEW B, B \subseteq Nat, B # {}
    PROVE  \E x \in B : \A y \in B : x <= y
<1> DEFINE R == {ss \in Nat \X Nat : ss[1] < ss[2]}
<1>1. IsWellFoundedOn(R, Nat)
    BY NatLessThanWellFounded DEF OpToRel
<1>2. PICK x \in B : \A y \in B : ~(<<y, x>> \in R)
    <2> HIDE DEF R
    <2> QED BY <1>1, WFMin
<1>3. ASSUME NEW y \in B PROVE x <= y
    <2>1. y < x => <<y, x>> \in R
        OBVIOUS
    <2> QED
        BY <1>2, <2>1
<1> QED
    BY <1>3

\* f is what Replay computes for the first n operations of o.
IsReplay(h, o, n, f) ==
  /\ f = [x \in 0 .. n |-> f[x]]
  /\ f[0] = [ok |-> TRUE, state |-> InitState]
  /\ \A x \in 1 .. n : f[x] = [ok |-> f[x - 1].ok /\ StepIn(h, f[x - 1].state, o[x]).ok,
                               state |-> StepIn(h, f[x - 1].state, o[x]).state]

LEMMA ReplayExists ==
    ASSUME NEW h, NEW o, NEW n \in Nat
    PROVE  \E f : IsReplay(h, o, n, f)
<1> DEFINE B == {m \in Nat : ~ \E f : IsReplay(h, o, m, f)}
<1>1. SUFFICES ASSUME B # {} PROVE FALSE
    OBVIOUS
<1>2. PICK m \in B : \A y \in B : m <= y
    BY <1>1, Smallest
<1>3. m # 0
    <2> DEFINE g == [x \in 0 .. 0 |-> [ok |-> TRUE, state |-> InitState]]
    <2>1. g = [x \in 0 .. 0 |-> g[x]] /\ g[0] = [ok |-> TRUE, state |-> InitState] /\ 1 .. 0 = {}
        OBVIOUS
    <2> HIDE DEF g
    <2>2. IsReplay(h, o, 0, g)
        BY <2>1 DEF IsReplay
    <2> QED
        BY <2>2
<1>4. m \in Nat /\ m - 1 \in Nat /\ m - 1 \notin B
    BY <1>2, <1>3
<1>5. PICK f : IsReplay(h, o, m - 1, f)
    BY <1>4
<1> DEFINE last == [ok |-> f[m - 1].ok /\ StepIn(h, f[m - 1].state, o[m]).ok,
                    state |-> StepIn(h, f[m - 1].state, o[m]).state]
           g == [x \in 0 .. m |-> IF x = m THEN last ELSE f[x]]
<1>6. /\ g = [x \in 0 .. m |-> g[x]] /\ g[m] = last
      /\ \A x \in 0 .. m - 1 : g[x] = f[x]
    <2> HIDE DEF last
    <2> QED
        BY <1>4
<1>7. IsReplay(h, o, m, g)
    <2>1. 0 \in 0 .. m - 1 /\ m - 1 \in 0 .. m - 1
        BY <1>4
    <2>2. g[0] = [ok |-> TRUE, state |-> InitState]
        BY <1>5, <1>6, <2>1 DEF IsReplay
    <2>3. \A x \in 1 .. m : x = m \/ (x \in 1 .. m - 1 /\ x \in 0 .. m - 1 /\ x - 1 \in 0 .. m - 1)
        BY <1>4
    <2> HIDE DEF g
    <2>4. ASSUME NEW x \in 1 .. m
          PROVE  g[x] = [ok |-> g[x - 1].ok /\ StepIn(h, g[x - 1].state, o[x]).ok,
                         state |-> StepIn(h, g[x - 1].state, o[x]).state]
        <3>1. CASE x = m
            BY <1>6, <2>1, <3>1
        <3>2. CASE x # m
            <4>1. g[x] = f[x] /\ g[x - 1] = f[x - 1] /\ x \in 1 .. m - 1
                BY <1>6, <2>3, <3>2
            <4> QED
                BY <1>5, <4>1 DEF IsReplay
        <3> QED
            BY <3>1, <3>2
    <2> QED
        BY <1>6, <2>2, <2>4 DEF IsReplay
<1> QED
    BY <1>2, <1>7

\* The function that Replay defines is that one.
LEMMA ReplayIs ==
    ASSUME NEW i, NEW o, Len(o) \in Nat
    PROVE  \E f : IsReplay(parts[i], o, Len(o), f) /\ Replay(i, o) = f[Len(o)]
<1> DEFINE h == parts[i]
           F(f) == [n \in 0 .. Len(o) |->
                      IF n = 0 THEN [ok |-> TRUE, state |-> InitState]
                      ELSE LET before == f[n - 1]
                               s == Step(before.state, InputOf(i, o[n]), OutputOf(i, o[n]))
                           IN [ok |-> before.ok /\ s.ok, state |-> s.state]]
           g == CHOOSE f : f = F(f)
<1>1. Replay(i, o) = g[Len(o)]
    BY DEF Replay
<1>2. \A s, d : Step(s, InputOf(i, d), OutputOf(i, d)) = StepIn(h, s, d)
    BY DEF InputOf, OutputOf, CallOf, Match, StepIn, CallIn, MatchIn
<1>3. ASSUME NEW f PROVE IsReplay(h, o, Len(o), f) <=> f = F(f)
    <2>1. ASSUME IsReplay(h, o, Len(o), f) PROVE f = F(f)
        <3>1. ASSUME NEW n \in 0 .. Len(o) PROVE f[n] = F(f)[n]
            <4>1. CASE n = 0
                BY <2>1, <4>1 DEF IsReplay
            <4>2. CASE n # 0
                <5>1. n \in 1 .. Len(o)
                    BY <4>2
                <5> QED
                    BY <1>2, <2>1, <4>2, <5>1 DEF IsReplay
            <4> QED
                BY <4>1, <4>2
        <3>2. f = [n \in 0 .. Len(o) |-> f[n]] /\ F(f) = [n \in 0 .. Len(o) |-> F(f)[n]]
            BY <2>1 DEF IsReplay
        <3> QED
            BY <3>1, <3>2
    <2>2. ASSUME f = F(f) PROVE IsReplay(h, o, Len(o), f)
        <3>1. f = [n \in 0 .. Len(o) |-> f[n]]
            BY <2>2
        <3>2. f[0] = [ok |-> TRUE, state |-> InitState]
            <4>1. 0 \in 0 .. Len(o)
                OBVIOUS
            <4>2. F(f)[0] = [ok |-> TRUE, state |-> InitState]
                BY <4>1
            <4> QED
                BY <2>2, <4>2
        <3>3. ASSUME NEW n \in 1 .. Len(o)
              PROVE  f[n] = [ok |-> f[n - 1].ok /\ StepIn(h, f[n - 1].state, o[n]).ok,
                             state |-> StepIn(h, f[n - 1].state, o[n]).state]
            <4>1. n \in 0 .. Len(o) /\ n # 0
                OBVIOUS
            <4>2. F(f)[n] = [ok |-> f[n - 1].ok /\ StepIn(h, f[n - 1].state, o[n]).ok,
                             state |-> StepIn(h, f[n - 1].state, o[n]).state]
                BY <1>2, <4>1
            <4> HIDE DEF F
            <4> QED
                BY <2>2, <4>2
        <3> HIDE DEF F
        <3> QED
            BY <3>1, <3>2, <3>3 DEF IsReplay
    <2> QED
        BY <2>1, <2>2
<1>4. \E f : f = F(f)
    <2> HIDE DEF F
    <2> QED
        BY <1>3, ReplayExists
<1>5. g = F(g)
    <2> HIDE DEF F
    <2> QED
        BY <1>4 DEF g
<1>6. IsReplay(h, o, Len(o), g)
    <2> HIDE DEF F, g
    <2> QED
        BY <1>3, <1>5
<1> HIDE DEF g
<1> QED
    BY <1>1, <1>6

\* Replay's answer is ok when the model accepts every operation.
LEMMA ReplayAccepts ==
    ASSUME NEW h, NEW o, NEW n \in Nat, NEW f, IsReplay(h, o, n, f)
    PROVE  f[n].ok <=> \E q : Accepted(h, InitState, n, o, q)
<1> DEFINE Fine(k) == \A x \in 1 .. k : StepIn(h, f[x - 1].state, o[x]).ok
<1>1. f[0].ok = TRUE /\ f[0].state = InitState
    BY DEF IsReplay
<1>2. ASSUME NEW x \in 1 .. n
      PROVE  /\ f[x].ok <=> f[x - 1].ok /\ StepIn(h, f[x - 1].state, o[x]).ok
             /\ f[x].state = StepIn(h, f[x - 1].state, o[x]).state
    <2> DEFINE A == f[x - 1].ok /\ StepIn(h, f[x - 1].state, o[x]).ok
               t == StepIn(h, f[x - 1].state, o[x]).state
    <2>1. f[x] = [ok |-> A, state |-> t]
        BY DEF IsReplay
    <2> HIDE DEF A, t
    <2>2. f[x].ok = A /\ f[x].state = t
        BY <2>1
    <2>3. f[x].ok <=> A
        BY <2>2, Zenon
    <2> QED
        BY <2>2, <2>3 DEF A, t
<1>3. \A k \in 0 .. n : f[k].ok <=> Fine(k)
    <2> DEFINE B == {k \in 0 .. n : ~(f[k].ok <=> Fine(k))}
    <2>1. SUFFICES ASSUME B # {} PROVE FALSE
        OBVIOUS
    <2>2. PICK k \in B : \A y \in B : k <= y
        <3>1. B \subseteq Nat
            OBVIOUS
        <3> HIDE DEF B
        <3> QED
            BY <2>1, <3>1, Smallest
    <2>3. k # 0
        <3>1. Fine(0)
            OBVIOUS
        <3> HIDE DEF Fine
        <3> QED
            BY <1>1, <2>2, <3>1
    <2>4. k \in 1 .. n /\ k - 1 \in 0 .. n /\ k - 1 \notin B
        BY <2>2, <2>3
    <2>5. f[k - 1].ok <=> Fine(k - 1)
        <3> HIDE DEF Fine
        <3> QED
            BY <2>4
    <2>6. Fine(k) <=> Fine(k - 1) /\ StepIn(h, f[k - 1].state, o[k]).ok
        <3>1. 1 .. k = (1 .. k - 1) \cup {k}
            BY <2>4
        <3> QED
            BY <3>1
    <2>7. f[k].ok <=> f[k - 1].ok /\ StepIn(h, f[k - 1].state, o[k]).ok
        BY <1>2, <2>4
    <2> HIDE DEF Fine
    <2> QED
        BY <2>2, <2>5, <2>6, <2>7
<1>4. ASSUME f[n].ok PROVE \E q : Accepted(h, InitState, n, o, q)
    <2> DEFINE q == [x \in 0 .. n |-> f[x].state]
    <2>1. \A x \in 0 .. n : q[x] = f[x].state
        OBVIOUS
    <2>2. \A x \in 1 .. n : x \in 0 .. n /\ x - 1 \in 0 .. n
        OBVIOUS
    <2>3. Fine(n)
        BY <1>3, <1>4
    <2> HIDE DEF q
    <2>4. Accepted(h, InitState, n, o, q)
        BY <1>1, <1>2, <2>1, <2>2, <2>3 DEF Accepted
    <2> QED
        BY <2>4
<1>5. ASSUME NEW q, Accepted(h, InitState, n, o, q) PROVE f[n].ok
    <2>1. ASSUME NEW x \in 1 .. n
          PROVE  StepIn(h, q[x - 1], o[x]).ok /\ q[x] = StepIn(h, q[x - 1], o[x]).state
        BY <1>5 DEF Accepted
    <2>2. \A k \in 0 .. n : q[k] = f[k].state
        <3> DEFINE B == {k \in 0 .. n : q[k] # f[k].state}
        <3>1. SUFFICES ASSUME B # {} PROVE FALSE
            OBVIOUS
        <3>2. PICK k \in B : \A y \in B : k <= y
            <4>1. B \subseteq Nat
                OBVIOUS
            <4> HIDE DEF B
            <4> QED
                BY <3>1, <4>1, Smallest
        <3>3. k # 0
            BY <1>1, <1>5, <3>2 DEF Accepted
        <3>4. k \in 1 .. n /\ k - 1 \in 0 .. n /\ k - 1 \notin B
            BY <3>2, <3>3
        <3>5. q[k - 1] = f[k - 1].state
            BY <3>4
        <3> QED
            BY <1>2, <2>1, <3>2, <3>4, <3>5
    <2>3. \A x \in 1 .. n : x - 1 \in 0 .. n
        OBVIOUS
    <2>4. Fine(n)
        BY <2>1, <2>2, <2>3
    <2> QED
        BY <1>3, <2>4
<1> QED
    BY <1>4, <1>5

Onto(o, m, S) == o \in [1 .. m -> S] /\ \A d \in S : \E x \in 1 .. m : o[x] = d
OneToOne(o, m) == \A x, y \in 1 .. m : o[x] = o[y] => x = y

\* An order of the operations of S is as long as they are many.
LEMMA OrderLength ==
    ASSUME NEW S, NEW m \in Nat, NEW o, Onto(o, m, S)
    PROVE  /\ IsFiniteSet(S) /\ Cardinality(S) \in Nat
           /\ m = Cardinality(S) <=> OneToOne(o, m)
<1>1. IsFiniteSet(1 .. m) /\ Cardinality(1 .. m) = m
    BY FS_Interval
<1>2. o \in Surjection(1 .. m, S)
    BY DEF Surjection, Onto
<1>3. /\ IsFiniteSet(S)
      /\ Cardinality(S) = Cardinality(1 .. m) <=> o \in Injection(1 .. m, S)
    BY <1>1, <1>2, FS_Surjection
<1>4. o \in Injection(1 .. m, S) <=> OneToOne(o, m)
    BY DEF Injection, IsInjective, Onto, OneToOne
<1> QED
    BY <1>1, <1>3, <1>4, FS_CardinalityType

\* The model accepts o from its first state on.
Fits(h, m, o) == Partial(h, {}, m, o) /\ \E q : Accepted(h, InitState, m, o, q)

\* The linearizations of a set of operations, by their definition.
LEMMA LinearizationIs ==
    ASSUME NEW i, IsHistory(parts[i]), NEW S \in SUBSET Ids(i), NEW o
    PROVE  o \in Linearizations(i, S) <=>
             \E m \in Nat : Fits(parts[i], m, o) /\ Members(o, m) = S
<1> DEFINE h == parts[i]
           n == Cardinality(S)
<1>1. Ids(i) = IdsOf(h) /\ \A a, b : Precedes(i, a, b) <=> Before(h, a, b)
    BY DEF Ids, IdsOf, Precedes, Before
<1>2. n \in Nat
    <2>1. IsFiniteSet(IdsOf(h))
        BY Entries, FS_Interval
    <2>2. IsFiniteSet(S)
        BY <1>1, <2>1, FS_Subset
    <2> QED
        BY <2>2, FS_CardinalityType
<1>3. ASSUME NEW k \in Nat, o \in [1 .. k -> Ids(i)]
      PROVE  Replay(i, o).ok <=> \E q : Accepted(h, InitState, k, o, q)
    <2>1. o \in Seq(Ids(i)) /\ Len(o) = k
        BY <1>3
    <2>2. PICK f : IsReplay(h, o, k, f) /\ Replay(i, o) = f[k]
        BY <2>1, ReplayIs
    <2> QED
        BY <2>2, ReplayAccepts
<1>4. ASSUME o \in Linearizations(i, S)
      PROVE  Fits(h, n, o) /\ Members(o, n) = S
    <2>1. o \in Orders(i, S) /\ Replay(i, o).ok
        BY <1>4 DEF Linearizations
    <2>2. /\ o \in [1 .. n -> S] /\ Range(o) = S
          /\ \A x \in 1 .. n, b \in IdsOf(h) : Before(h, b, o[x]) => \E y \in 1 .. x - 1 : o[y] = b
        BY <1>1, <2>1 DEF Orders
    <2>3. n = Cardinality(S)
        OBVIOUS
    <2> HIDE DEF n
    <2>4. \A d \in S : \E x \in 1 .. n : o[x] = d
        BY <2>2 DEF Range
    <2>5. Onto(o, n, S)
        BY <2>2, <2>4 DEF Onto
    <2>6. \A x, y \in 1 .. n : o[x] = o[y] => x = y
        BY <1>2, <2>3, <2>5, OrderLength DEF OneToOne
    <2>7. Members(o, n) = S
        BY <2>2, <2>4 DEF Members
    <2>8. o \in [1 .. n -> IdsOf(h) \ {}] /\ o \in [1 .. n -> Ids(i)]
        BY <1>1, <2>2
    <2>9. Partial(h, {}, n, o)
        BY <2>2, <2>6, <2>8 DEF Partial
    <2> QED
        BY <1>2, <1>3, <2>1, <2>7, <2>8, <2>9 DEF Fits
<1>5. ASSUME NEW m \in Nat, Fits(h, m, o), Members(o, m) = S
      PROVE  o \in Linearizations(i, S)
    <2>1. /\ o \in [1 .. m -> IdsOf(h)]
          /\ \A x, y \in 1 .. m : o[x] = o[y] => x = y
          /\ \A x \in 1 .. m, b \in IdsOf(h) : Before(h, b, o[x]) => \E y \in 1 .. x - 1 : o[y] = b
        BY <1>5 DEF Fits, Partial
    <2>2. o \in [1 .. m -> S] /\ \A d \in S : \E x \in 1 .. m : o[x] = d
        BY <1>5, <2>1 DEF Members
    <2>3. Onto(o, m, S) /\ OneToOne(o, m)
        BY <2>1, <2>2 DEF Onto, OneToOne
    <2>4. m = n
        BY <2>3, OrderLength
    <2>5. Range(o) = S
        BY <2>2 DEF Range
    <2>6. o \in Orders(i, S)
        <3> HIDE DEF n
        <3>1. o \in [1 .. n -> S] /\ DOMAIN o = 1 .. n
            BY <2>2, <2>4
        <3>2. \A x \in DOMAIN o, b \in Ids(i) : Precedes(i, b, o[x]) => \E y \in 1 .. x - 1 : o[y] = b
            BY <1>1, <2>1, <2>4, <3>1
        <3> QED
            BY <2>5, <3>1, <3>2 DEF Orders, n
    <2>7. Replay(i, o).ok
        BY <1>1, <1>3, <1>5, <2>1 DEF Fits
    <2> QED
        BY <2>6, <2>7 DEF Linearizations
<1> QED
    BY <1>2, <1>4, <1>5

\* A partition is linearizable when its search has a way to go at the start.
LEMMA LinearizableIsAlive ==
    ASSUME NEW i, IsHistory(parts[i])
    PROVE  Linearizable(i) <=> ~Dead(parts[i], {}, InitState)
<1>1. Ids(i) = IdsOf(parts[i]) /\ Ids(i) \in SUBSET Ids(i)
    BY DEF Ids, IdsOf
<1>2. Linearizable(i) <=>
        \E o : \E m \in Nat : Fits(parts[i], m, o) /\ Members(o, m) = Ids(i)
    BY <1>1, LinearizationIs DEF Linearizable
<1>3. \A T : {} \cup T = T
    OBVIOUS
<1> QED
    BY <1>1, <1>2, <1>3 DEF Dead, Fits

\* The operations on the stack, and the stack as a partial linearization.
StackOf(h, c) == [x \in 1 .. Len(c) |-> h[c[x].entry].id]

LEMMA StackFits ==
    ASSUME NEW h, IsHistory(h), NEW X, NEW l, NEW e, NEW st, NEW b, NEW c, NEW ca,
           Search(h, X, l, e, st, b, c, ca)
    PROVE  /\ Len(c) \in Nat /\ Fits(h, Len(c), StackOf(h, c))
           /\ Members(StackOf(h, c), Len(c)) = Done(h, c, Len(c))
<1> DEFINE m == Len(c)
           o == StackOf(h, c)
           q == [k \in 0 .. m |-> StateAt(c, st, k)]
<1>1. IsSeq(c) /\ Stacked(h, st, c) /\ AllTried(h, X, c, st, e)
    BY DEF Search
<1>2. /\ m \in Nat
      /\ \A k \in 1 .. m : c[k].entry \in DOMAIN h /\ h[c[k].entry].kind = "call"
    BY <1>1, StackIds
<1>3. Len(h) \in Nat /\ DOMAIN h = 1 .. Len(h) /\ \A x \in DOMAIN h : h[x].id \in IdsOf(h)
    BY Entries
<1>4. \A x \in 1 .. m : o[x] = h[c[x].entry].id /\ x - 1 \in 0 .. m /\ x \in 0 .. m /\ x - 1 < m
    BY <1>2 DEF StackOf
<1>5. o \in [1 .. m -> IdsOf(h) \ {}]
    BY <1>2, <1>3 DEF StackOf
<1>6. Members(o, m) = Done(h, c, m)
    BY <1>4 DEF Members, Done
<1>7. ASSUME NEW x \in 1 .. m, NEW y \in 1 .. m, x < y PROVE o[x] # o[y]
    <2>1. x \in 1 .. y - 1
        BY <1>2, <1>7
    <2>2. h[c[y].entry].id \notin Done(h, c, y - 1)
        BY <1>1 DEF Stacked, Left
    <2> HIDE DEF o
    <2> QED
        BY <1>4, <2>1, <2>2 DEF Done
<1>8. \A x, y \in 1 .. m : o[x] = o[y] => x = y
    <2> HIDE DEF o
    <2>1. \A x, y \in 1 .. m : x < y \/ y < x \/ x = y
        BY <1>2
    <2> QED
        BY <1>7, <2>1
<1>9. ASSUME NEW x \in 1 .. m, NEW a \in IdsOf(h), Before(h, a, o[x])
      PROVE  \E y \in 1 .. x - 1 : o[y] = a
    <2>1. PICK u, v \in DOMAIN h : /\ u < v /\ h[u].id = a /\ h[u].kind = "return"
                                   /\ h[v].id = o[x] /\ h[v].kind = "call"
        BY <1>9 DEF Before
    <2>2. v = c[x].entry
        <3>1. \A y, z \in DOMAIN h : h[y].id = h[z].id /\ h[y].kind = h[z].kind => y = z
            BY DEF IsHistory
        <3> HIDE DEF o
        <3> QED
            BY <1>2, <1>4, <2>1, <3>1
    <2>3. Tried(h, X, Done(h, c, x - 1), StateAt(c, st, x - 1), c[x].entry)
        <3>1. (x - 1) + 1 = x
            BY <1>2
        <3>2. PlaceAt(c, e, x - 1) = c[x].entry
            BY <1>4, <3>1 DEF PlaceAt
        <3> QED
            BY <1>1, <1>4, <3>2 DEF AllTried
    <2>4. u \notin Left(h, Done(h, c, x - 1))
        BY <2>1, <2>2, <2>3 DEF Tried
    <2>5. a \in Done(h, c, x - 1)
        BY <2>1, <2>4 DEF Left
    <2>6. \A y \in 1 .. x - 1 : y \in 1 .. m
        BY <1>2
    <2> HIDE DEF o
    <2> QED
        BY <1>4, <2>5, <2>6 DEF Done
<1>10. Partial(h, {}, m, o)
    <2> HIDE DEF o, m
    <2> QED
        BY <1>5, <1>8, <1>9 DEF Partial
<1>11. Accepted(h, InitState, m, o, q)
    <2>1. q[0] = InitState /\ \A k \in 0 .. m : q[k] = StateAt(c, st, k)
        BY <1>1, <1>2 DEF Stacked
    <2>2. ASSUME NEW x \in 1 .. m
          PROVE  StepIn(h, q[x - 1], o[x]).ok /\ q[x] = StepIn(h, q[x - 1], o[x]).state
        <3>1. StateAt(c, st, x - 1) = c[x].state
            <4>1. (x - 1) + 1 = x
                BY <1>2
            <4> QED
                BY <1>4, <4>1 DEF StateAt
        <3>2. /\ StepIn(h, c[x].state, h[c[x].entry].id).ok
              /\ StateAt(c, st, x) = StepIn(h, c[x].state, h[c[x].entry].id).state
            BY <1>1 DEF Stacked
        <3>3. q[x - 1] = c[x].state /\ q[x] = StateAt(c, st, x) /\ o[x] = h[c[x].entry].id
            BY <1>4, <2>1, <3>1
        <3> HIDE DEF q, o
        <3> QED
            BY <3>2, <3>3
    <2> HIDE DEF q, o, m
    <2> QED
        BY <2>1, <2>2 DEF Accepted
<1> HIDE DEF m, o, q
<1> QED
    BY <1>2, <1>6, <1>10, <1>11 DEF Fits, m, o

\* When every operation is on the stack, the stack is a linearization.
LEMMA Found ==
    ASSUME NEW h, IsHistory(h), NEW X, NEW l, NEW e, NEW st, NEW b, NEW c, NEW ca,
           Search(h, X, l, e, st, b, c, ca), Done(h, c, Len(c)) = IdsOf(h)
    PROVE  ~Dead(h, {}, InitState)
<1>1. /\ Len(c) \in Nat /\ Fits(h, Len(c), StackOf(h, c))
      /\ {} \cup Members(StackOf(h, c), Len(c)) = IdsOf(h)
    BY StackFits
<1> QED
    BY <1>1 DEF Fits, Dead

\* checkSingle() begins with the invariant.
LEMMA Started ==
    ASSUME NEW h, IsHistory(h), NEW X
    PROVE  Search(h, X, makeLinkedEntries(Len(h)), 1, InitState, newBitset(Len(h) \div 2), <<>>, {})
<1> DEFINE l == makeLinkedEntries(Len(h))
           c == <<>>
<1>1. Len(h) \in Nat /\ DOMAIN h = 1 .. Len(h) /\ Len(h) \div 2 \in Nat
    BY Entries
<1>2. c \in Seq({}) /\ Len(c) = 0
    OBVIOUS
<1> HIDE DEF c
<1>3. Done(h, c, 0) = {} /\ Left(h, {}) = 1 .. Len(h)
    BY <1>1 DEF Done, Left
<1>4. StateAt(c, InitState, 0) = InitState /\ PlaceAt(c, 1, 0) = 1
    BY <1>2 DEF StateAt, PlaceAt
<1>5. IsSeq(c)
    BY <1>2 DEF IsSeq
<1>6. 1 .. 0 = {} /\ 0 .. 0 = {0}
    OBVIOUS
<1>7. Stacked(h, InitState, c)
    BY <1>2, <1>4, <1>6 DEF Stacked
<1>8. Lists(h, l, c)
    <2> DEFINE L == [k \in {0} |-> l]
    <2>1. L[0] = l
        OBVIOUS
    <2>2. IsList(l, Left(h, Done(h, c, 0)), Len(h))
        BY <1>1, <1>3, MakeList
    <2> HIDE DEF L
    <2> QED
        BY <1>2, <1>6, <2>1, <2>2 DEF Lists
<1>9. Cached(h, X, InitState, c, {})
    BY DEF Cached
<1>10. AllTried(h, X, c, InitState, 1)
    <2>1. \A y \in 1 .. Len(h) : ~(y < 1)
        BY <1>1
    <2>2. Tried(h, X, {}, InitState, 1)
        BY <1>3, <2>1 DEF Tried
    <2> QED
        BY <1>2, <1>3, <1>4, <1>6, <2>2 DEF AllTried
<1>11. newBitset(Len(h) \div 2) = BitsOf(Len(h) \div 2, Done(h, c, Len(c)))
    BY <1>2, <1>3 DEF newBitset, BitsOf
<1>12. 1 \in Left(h, Done(h, c, Len(c))) \cup {Len(h) + 1}
    <2>1. Left(h, Done(h, c, Len(c))) = 1 .. Len(h)
        BY <1>2, <1>3
    <2>2. 1 \in (1 .. Len(h)) \cup {Len(h) + 1}
        BY <1>1
    <2> QED
        BY <2>1, <2>2
<1> HIDE DEF l
<1>13. Search(h, X, l, 1, InitState, newBitset(Len(h) \div 2), c, {})
    BY <1>5, <1>7, <1>8, <1>9, <1>10, <1>11, <1>12 DEF Search
<1> QED
    BY <1>13 DEF l, c

----------------------------------------------------------------------------
(* The inductive invariant. *)

Domains ==
  /\ parts \in Parts /\ computeInfo \in BOOLEAN /\ limited \in BOOLEAN
  /\ DOMAIN list = P /\ DOMAIN entry = P /\ DOMAIN state = P /\ DOMAIN linearized = P
  /\ DOMAIN calls = P /\ DOMAIN cache = P /\ DOMAIN longest = P
  /\ verdict \in [P -> {"running", "true", "false"}]
  /\ sent \in [P -> {"no", "sent", "received"}]
  /\ kill \in BOOLEAN /\ ok \in BOOLEAN /\ timedOut \in BOOLEAN
  /\ phase \in {"collecting", "finishing"}
  /\ result \in {"none", "Ok", "Illegal", "Unknown"}

\* The sets of operations for which longest[i] is long enough: with computeInfo,
\* each of them has in longest[i] a sequence of at least as many operations.
Covered(i) == {S \in SUBSET Ids(i) : computeInfo =>
  \A d \in S : longest[i][d] # Nil /\ Len(longest[i][d]) >= Cardinality(S)}

\* What is in longest[i] was once the stack.
Noted == \A i \in P : \A d \in Ids(i) :
  longest[i][d] = Nil \/ \E m \in Nat : Fits(parts[i], m, longest[i][d])

Searches == \A i \in P :
  Search(parts[i], Covered(i), list[i], entry[i], state[i], linearized[i], calls[i], cache[i])

\* No linearization of partition i exists.
Refuted(i) == Dead(parts[i], {}, InitState)

\* What a goroutine answers, unless it was killed.
Verdicts == \A i \in P :
  /\ verdict[i] = "true" => ~Refuted(i)
  /\ verdict[i] = "false" /\ ~kill => Refuted(i)

\* When a goroutine has answered, unless it was killed, nothing longer exists.
Longest == \A i \in P :
  /\ verdict[i] = "true" => SUBSET Ids(i) \subseteq Covered(i)
  /\ verdict[i] = "false" /\ ~kill => Explored(parts[i], Covered(i), {}, InitState)

\* checkParallel waits for every goroutine when it computes longest.
Waited == result # "none" /\ computeInfo => \A i \in P : verdict[i] # "running"

Counted == count = Cardinality({i \in P : sent[i] = "received"})

\* What checkParallel knows of the answers.
Collected ==
  /\ phase = "collecting" => ~kill /\ ~timedOut
  /\ ~ok => \E i \in P : Refuted(i)
  /\ \A i \in P : sent[i] # "no" => verdict[i] # "running"
  /\ phase = "collecting" /\ ok => \A i \in P : sent[i] = "received" => verdict[i] = "true"
  /\ phase = "finishing" /\ ok /\ ~timedOut => \A i \in P : verdict[i] = "true"
  /\ result = "Ok" => \A i \in P : ~Refuted(i)
  /\ result = "Illegal" => \E i \in P : Refuted(i)

Inv ==
  /\ Domains /\ Searches /\ Verdicts /\ Counted /\ Collected
  /\ Noted /\ Longest /\ Waited

LEMMA Partitions ==
    ASSUME Domains
    PROVE  /\ Len(parts) \in Nat /\ P = 1 .. Len(parts) /\ IsFiniteSet(P) /\ Cardinality(P) = Len(parts)
           /\ \A i \in P : IsHistory(parts[i])
<1>1. parts \in Seq(Range(parts)) /\ \A i \in DOMAIN parts : IsHistory(parts[i])
    BY PartsAssumption DEF Domains
<1>2. Len(parts) \in Nat /\ DOMAIN parts = 1 .. Len(parts)
    BY <1>1
<1>3. IsFiniteSet(1 .. Len(parts)) /\ Cardinality(1 .. Len(parts)) = Len(parts)
    <2>1. ASSUME NEW n \in Nat PROVE IsFiniteSet(1 .. n) /\ Cardinality(1 .. n) = n
        BY FS_Interval
    <2> QED
        BY <1>2, <2>1
<1> QED
    BY <1>1, <1>2, <1>3 DEF P

LEMMA InitInv == Init => Inv
<1> SUFFICES ASSUME Init PROVE Inv
    OBVIOUS
<1>1. Domains
    BY DEF Init, Domains
<1>2. Searches
    <2> SUFFICES ASSUME NEW i \in P
                 PROVE  Search(parts[i], Covered(i), list[i], entry[i], state[i], linearized[i], calls[i], cache[i])
        BY DEF Searches
    <2>1. IsHistory(parts[i])
        BY <1>1, Partitions
    <2>2. /\ list[i] = makeLinkedEntries(Len(parts[i])) /\ entry[i] = 1 /\ state[i] = InitState
          /\ linearized[i] = newBitset(Len(parts[i]) \div 2) /\ calls[i] = <<>> /\ cache[i] = {}
        BY DEF Init
    <2> QED
        BY <2>1, <2>2, Started
<1>3. Verdicts
    BY DEF Init, Verdicts
<1>4. Counted
    <2>1. {i \in P : sent[i] = "received"} = {}
        BY DEF Init
    <2>2. count = 0
        BY DEF Init
    <2> QED
        BY <2>1, <2>2, FS_EmptySet DEF Counted
<1>5. Collected
    BY DEF Init, Collected
<1>6. Noted /\ Longest /\ Waited
    BY DEF Init, Noted, Longest, Waited
<1> QED
    BY <1>1, <1>2, <1>3, <1>4, <1>5, <1>6 DEF Inv

\* checkSingle's values, in the terms of the lemmas.
LEMMA AtCall ==
    ASSUME NEW i, IsHistory(parts[i]), entry[i] \in DOMAIN parts[i], EntryAt(i).kind = "call"
    PROVE  /\ Match(i, entry[i]) = MatchIn(parts[i], entry[i])
           /\ Stepped(i) = StepIn(parts[i], state[i], parts[i][entry[i]].id)
<1>1. CallIn(parts[i], parts[i][entry[i]].id) = entry[i]
    BY Entries DEF EntryAt
<1>2. Match(i, entry[i]) = MatchIn(parts[i], entry[i])
    BY DEF Match, MatchIn
<1> QED
    BY <1>1, <1>2 DEF Stepped, StepIn, EntryAt

\* longest[j] and what it covers stay.
LEMMA CoveredSame ==
    ASSUME UNCHANGED <<parts, computeInfo>>, NEW j, longest'[j] = longest[j]
    PROVE  Covered(j)' = Covered(j)
BY DEF Covered, Ids

LEMMA Unmoved == ASSUME UNCHANGED <<parts, computeInfo, searchVars>>, Domains, Searches, Verdicts
                 PROVE  Searches' /\ (kill' = kill \/ kill' => Verdicts')
<1>1. Searches'
    BY CoveredSame DEF Searches, searchVars, P
<1>2. ASSUME kill' = kill \/ kill' PROVE Verdicts'
    BY <1>2 DEF Verdicts, searchVars, P, Refuted
<1> QED
    BY <1>1, <1>2

LEMMA OneMoves ==
    ASSUME Searches, UNCHANGED <<parts, computeInfo>>, NEW i \in P,
           \A j \in P \ {i} :
             /\ longest'[j] = longest[j]
             /\ list'[j] = list[j] /\ entry'[j] = entry[j] /\ state'[j] = state[j]
             /\ linearized'[j] = linearized[j] /\ calls'[j] = calls[j] /\ cache'[j] = cache[j],
           Search(parts[i], Covered(i)', list'[i], entry'[i], state'[i], linearized'[i], calls'[i], cache'[i])
    PROVE  Searches'
<1> SUFFICES ASSUME NEW j \in P
             PROVE  Search(parts[j], Covered(j)', list'[j], entry'[j], state'[j], linearized'[j], calls'[j], cache'[j])
    BY DEF Searches, P
<1>1. CASE j = i
    BY <1>1
<1>2. CASE j # i
    BY <1>2, CoveredSame DEF Searches
<1> QED
    BY <1>1, <1>2

\* The ids of the calls on the stack, in the terms of the lemmas.
LEMMA CallsFit ==
    ASSUME Domains, Searches, NEW i \in P
    PROVE  /\ Len(calls[i]) \in Nat /\ Len(CallIds(i)) = Len(calls[i])
           /\ Fits(parts[i], Len(calls[i]), CallIds(i)) /\ CallIds(i) # Nil
           /\ Range(CallIds(i)) = Done(parts[i], calls[i], Len(calls[i]))
           /\ Done(parts[i], calls[i], Len(calls[i])) \in SUBSET Ids(i)
           /\ Cardinality(Done(parts[i], calls[i], Len(calls[i]))) = Len(calls[i])
<1> DEFINE h == parts[i]
           c == calls[i]
           D == Done(h, c, Len(c))
           o == CallIds(i)
<1>1. IsHistory(h) /\ Search(h, Covered(i), list[i], entry[i], state[i], linearized[i], c, cache[i])
    BY Partitions DEF Searches
<1>2. /\ Len(c) \in Nat /\ Fits(h, Len(c), StackOf(h, c))
      /\ Members(StackOf(h, c), Len(c)) = D
    <2> HIDE DEF h, c
    <2> QED
        BY <1>1, StackFits DEF D
<1>3. DOMAIN c = 1 .. Len(c)
    BY <1>1 DEF Search, IsSeq
<1>4. o = StackOf(h, c)
    BY <1>3 DEF CallIds, StackOf
<1>5. Ids(i) = IdsOf(h) /\ IdsOf(h) \subseteq Nat
    BY <1>1, Entries DEF Ids, IdsOf
<1> HIDE DEF h, c, o, D
<1>6. /\ o \in [1 .. Len(c) -> IdsOf(h)]
      /\ \A x, y \in 1 .. Len(c) : o[x] = o[y] => x = y
    BY <1>2, <1>4 DEF Fits, Partial
<1>7. o \in Seq(Nat) /\ Len(o) = Len(c)
    <2>1. o \in [1 .. Len(c) -> Nat]
        BY <1>5, <1>6
    <2> QED
        BY <1>2, <2>1
<1>8. o # Nil
    BY <1>7, NilAssumption
<1>9. D = {o[x] : x \in 1 .. Len(c)} /\ DOMAIN o = 1 .. Len(c)
    BY <1>2, <1>4, <1>6 DEF Members
<1>10. Range(o) = D /\ D \in SUBSET IdsOf(h)
    BY <1>6, <1>9 DEF Range
<1>11. Onto(o, Len(c), D) /\ OneToOne(o, Len(c))
    BY <1>6, <1>9 DEF Onto, OneToOne
<1>12. Cardinality(D) = Len(c)
    BY <1>2, <1>11, OrderLength
<1> QED
    BY <1>2, <1>4, <1>5, <1>7, <1>8, <1>10, <1>12 DEF h, c, o, D

\* Backtrack() lets longest[i] cover the operations on the stack, and loses nothing.
LEMMA BacktrackCovers ==
    ASSUME Domains, Searches, Noted, NEW i \in P, Backtrack(i)
    PROVE  /\ Covered(i) \subseteq Covered(i)'
           /\ Done(parts[i], calls[i], Len(calls[i])) \in Covered(i)'
           /\ \A d \in Ids(i) : longest'[i][d] \in {longest[i][d], CallIds(i)}
           /\ \A j \in P \ {i} : longest'[j] = longest[j]
<1> DEFINE o == CallIds(i)
           D == Done(parts[i], calls[i], Len(calls[i]))
           n == Len(calls[i])
<1>1. /\ n \in Nat /\ Len(o) = n /\ o # Nil /\ Range(o) = D /\ D \in SUBSET Ids(i)
      /\ Cardinality(D) = n
    BY CallsFit
<1>2. UNCHANGED <<parts, computeInfo>> /\ longest' = [longest EXCEPT ![i] = LongestAfter(i)]
    BY DEF Backtrack
<1>3. longest'[i] = LongestAfter(i) /\ \A j \in P \ {i} : longest'[j] = longest[j]
    BY <1>2 DEF Domains
<1>4. \A d \in Ids(i) : longest'[i][d] =
        IF computeInfo /\ d \in D /\ (longest[i][d] = Nil \/ n > Len(longest[i][d]))
        THEN o ELSE longest[i][d]
    BY <1>1, <1>3 DEF LongestAfter, IsLonger
<1>5. \A d \in Ids(i) : longest[i][d] = Nil \/ Len(longest[i][d]) \in Nat
    <2> SUFFICES ASSUME NEW d \in Ids(i), longest[i][d] # Nil PROVE Len(longest[i][d]) \in Nat
        OBVIOUS
    <2>1. PICK m \in Nat : Fits(parts[i], m, longest[i][d])
        BY DEF Noted
    <2>2. longest[i][d] \in [1 .. m -> IdsOf(parts[i])]
        BY <2>1 DEF Fits, Partial
    <2> QED
        BY <2>2
<1>6. Ids(i)' = Ids(i)
    BY <1>2 DEF Ids
<1> HIDE DEF o, D, n
<1>7. ASSUME NEW d \in Ids(i), longest[i][d] # Nil
      PROVE  longest'[i][d] # Nil /\ Len(longest'[i][d]) \in Nat /\ Len(longest'[i][d]) >= Len(longest[i][d])
    BY <1>1, <1>4, <1>5, <1>7
<1>8. Covered(i) \subseteq Covered(i)'
    <2> SUFFICES ASSUME NEW S \in Covered(i) PROVE S \in Covered(i)'
        OBVIOUS
    <2>1. S \in SUBSET Ids(i)
        BY DEF Covered
    <2>2. ASSUME computeInfo, NEW d \in S
          PROVE  longest'[i][d] # Nil /\ Len(longest'[i][d]) >= Cardinality(S)
        <3>1. d \in Ids(i) /\ longest[i][d] # Nil /\ Len(longest[i][d]) >= Cardinality(S)
            BY <2>1, <2>2 DEF Covered
        <3>2. Cardinality(S) \in Nat
            <4>1. IsHistory(parts[i]) /\ Ids(i) = IdsOf(parts[i])
                BY Partitions DEF Ids, IdsOf
            <4>2. IsFiniteSet(Ids(i))
                BY <4>1, Entries, FS_Interval
            <4>3. IsFiniteSet(S)
                BY <2>1, <4>2, FS_Subset
            <4> QED
                BY <4>3, FS_CardinalityType
        <3> QED
            BY <1>5, <1>7, <3>1, <3>2
    <2> QED
        BY <1>2, <1>6, <2>1, <2>2 DEF Covered
<1>9. D \in Covered(i)'
    <2>1. ASSUME computeInfo, NEW d \in D
          PROVE  longest'[i][d] # Nil /\ Len(longest'[i][d]) >= n
        <3>1. d \in Ids(i)
            BY <1>1
        <3>2. longest'[i][d] = IF longest[i][d] = Nil \/ n > Len(longest[i][d]) THEN o ELSE longest[i][d]
            BY <1>4, <2>1, <3>1
        <3> QED
            BY <1>1, <1>5, <3>1, <3>2
    <2> QED
        BY <1>1, <1>2, <1>6, <2>1 DEF Covered
<1> QED
    BY <1>3, <1>4, <1>8, <1>9 DEF o, D

\* Complete() sets longest[i] to a sequence of all operations.
LEMMA CompleteCovers ==
    ASSUME Domains, Searches, NEW i \in P, Complete(i)
    PROVE  /\ SUBSET Ids(i) \subseteq Covered(i)'
           /\ \A d \in Ids(i) : longest'[i][d] = CallIds(i)
           /\ \A j \in P \ {i} : longest'[j] = longest[j]
<1> DEFINE o == CallIds(i)
<1>1. /\ Len(calls[i]) \in Nat /\ Len(o) = Len(calls[i]) /\ o # Nil
      /\ Cardinality(Done(parts[i], calls[i], Len(calls[i]))) = Len(calls[i])
    BY CallsFit
<1>2. /\ UNCHANGED <<parts, computeInfo>>
      /\ longest' = [longest EXCEPT ![i] = [d \in Ids(i) |-> o]]
      /\ list[i].next[0] \notin DOMAIN parts[i]
    BY DEF Complete, Empty
<1>3. /\ \A d \in Ids(i) : longest'[i][d] = o
      /\ \A j \in P \ {i} : longest'[j] = longest[j]
    BY <1>2 DEF Domains
<1>4. IsHistory(parts[i]) /\ Ids(i) = IdsOf(parts[i]) /\ Ids(i)' = Ids(i)
    BY <1>2, Partitions DEF Ids, IdsOf
<1>5. Done(parts[i], calls[i], Len(calls[i])) = Ids(i)
    BY <1>2, <1>4, AtEntry DEF Searches
<1> HIDE DEF o
<1>6. IsFiniteSet(Ids(i)) /\ Cardinality(Ids(i)) = Len(o)
    BY <1>1, <1>4, <1>5, Entries, FS_Interval
<1>7. ASSUME NEW S \in SUBSET Ids(i) PROVE S \in Covered(i)'
    <2>1. Cardinality(S) <= Cardinality(Ids(i)) /\ IsFiniteSet(S)
        BY <1>6, FS_Subset
    <2>2. Cardinality(S) \in Nat
        BY <2>1, FS_CardinalityType
    <2>3. ASSUME NEW d \in S PROVE longest'[i][d] # Nil /\ Len(longest'[i][d]) >= Cardinality(S)
        BY <1>1, <1>3, <1>6, <2>1, <2>2
    <2> QED
        BY <1>2, <1>4, <2>3 DEF Covered
<1> QED
    BY <1>3, <1>7 DEF o

\* A goroutine writes to its own element of longest, and only while it searches.
LEMMA LongestKept ==
    ASSUME Domains, NEW i \in P, checkSingle(i)
    PROVE  /\ UNCHANGED <<parts, computeInfo, kill, result>> /\ P' = P /\ \A j : Ids(j)' = Ids(j)
           /\ longest' = longest \/ Backtrack(i) \/ Complete(i)
           /\ verdict' = verdict \/ GiveUp(i) \/ Killed(i) \/ Complete(i)
<1>1. UNCHANGED <<parts, computeInfo, kill, result>>
    BY DEF checkSingle, Linearize, Skip, Backtrack, GiveUp, Killed, Complete, Report, mainVars
<1>2. /\ longest' = longest \/ Backtrack(i) \/ Complete(i)
      /\ verdict' = verdict \/ GiveUp(i) \/ Killed(i) \/ Complete(i)
    BY DEF checkSingle, Linearize, Skip, GiveUp, Killed, Report, Backtrack, searchVars
<1> QED
    BY <1>1, <1>2 DEF P, Ids

\* What longest holds was the stack when it was written.
LEMMA NotedStep ==
    ASSUME Domains, Searches, Noted, NEW i \in P, checkSingle(i)
    PROVE  Noted'
<1>1. parts' = parts /\ P' = P /\ \A j : Ids(j)' = Ids(j)
    BY LongestKept
<1>2. \/ longest' = longest
      \/ /\ \A d \in Ids(i) : longest'[i][d] \in {longest[i][d], CallIds(i)}
         /\ \A j \in P \ {i} : longest'[j] = longest[j]
    BY LongestKept, BacktrackCovers, CompleteCovers
<1>3. \E m \in Nat : Fits(parts[i], m, CallIds(i))
    BY CallsFit
<1>4. ASSUME NEW j \in P, NEW d \in Ids(j)
      PROVE  longest'[j][d] = Nil \/ \E m \in Nat : Fits(parts[j], m, longest'[j][d])
    <2>1. CASE longest'[j][d] = longest[j][d]
        BY <2>1 DEF Noted
    <2>2. CASE j = i /\ longest'[j][d] = CallIds(i)
        BY <1>3, <2>2
    <2> QED
        BY <1>2, <2>1, <2>2
<1> QED
    BY <1>1, <1>4 DEF Noted

\* The search in every partition keeps its invariant.
LEMMA SearchStep ==
    ASSUME Domains, Searches, Noted, NEW i \in P, checkSingle(i)
    PROVE  Searches'
<1> DEFINE h == parts[i]
           l == list[i]
           e == entry[i]
           st == state[i]
           b == linearized[i]
           c == calls[i]
           ca == cache[i]
           X == Covered(i)
           Y == Covered(i)'
<1>1. IsHistory(h) /\ Search(h, X, l, e, st, b, c, ca) /\ IsSeq(c)
    BY Partitions DEF Searches, Search
<1>2. Looping(i) => e \in DOMAIN h
    BY <1>1, AtEntry DEF Looping, Empty
<1>3. DOMAIN list = P /\ DOMAIN entry = P /\ DOMAIN state = P /\ DOMAIN linearized = P
      /\ DOMAIN calls = P /\ DOMAIN cache = P
    BY DEF Domains
<1>4. CASE Linearize(i)
    <2>1. /\ e \in DOMAIN h /\ h[e].kind = "call"
          /\ Match(i, e) = MatchIn(h, e) /\ Stepped(i) = StepIn(h, st, h[e].id)
        BY <1>1, <1>2, <1>4, AtCall DEF Linearize, EntryAt
    <2> DEFINE st2 == StepIn(h, st, h[e].id).state
               l2 == lift(l, e, MatchIn(h, e))
               b2 == set(b, h[e].id)
               c2 == Append(c, [entry |-> e, state |-> st])
    <2>2. /\ StepIn(h, st, h[e].id).ok /\ UNCHANGED <<parts, computeInfo, longest>>
          /\ cache' = [cache EXCEPT ![i] = ca \cup {<<b2, st2>>}]
          /\ calls' = [calls EXCEPT ![i] = c2]
          /\ state' = [state EXCEPT ![i] = st2]
          /\ linearized' = [linearized EXCEPT ![i] = b2]
          /\ list' = [list EXCEPT ![i] = l2]
          /\ entry' = [entry EXCEPT ![i] = list'[i].next[0]]
        BY <1>4, <2>1 DEF Linearize, newLinearized, EntryAt
    <2>3. Pushed(c, e, st, c2)
        BY <1>1, AppendPushes
    <2>8. Y = X
        BY <2>2, CoveredSame
    <2>4. Search(h, Y, l2, l2.next[0], st2, b2, c2, ca \cup {<<b2, st2>>})
        <3> HIDE DEF h, l, e, st, b, c, ca, X, Y, c2
        <3> QED
            BY <1>1, <2>1, <2>2, <2>3, <2>8, Linearized
    <2> HIDE DEF st2, l2, b2, c2
    <2>5. /\ list'[i] = l2 /\ entry'[i] = l2.next[0] /\ state'[i] = st2 /\ linearized'[i] = b2
          /\ calls'[i] = c2 /\ cache'[i] = ca \cup {<<b2, st2>>}
        BY <1>3, <2>2
    <2>6. \A j \in P \ {i} :
            /\ list'[j] = list[j] /\ entry'[j] = entry[j] /\ state'[j] = state[j]
            /\ linearized'[j] = linearized[j] /\ calls'[j] = calls[j] /\ cache'[j] = cache[j]
        BY <1>3, <2>2
    <2>7. Search(parts[i], Covered(i)', list'[i], entry'[i], state'[i], linearized'[i], calls'[i], cache'[i])
        BY <2>4, <2>5
    <2> QED
        BY <2>2, <2>6, <2>7, OneMoves
<1>5. CASE Skip(i)
    <2>1. /\ e \in DOMAIN h /\ h[e].kind = "call"
          /\ Match(i, e) = MatchIn(h, e) /\ Stepped(i) = StepIn(h, st, h[e].id)
        BY <1>1, <1>2, <1>5, AtCall DEF Skip, EntryAt
    <2>2. /\ entry' = [entry EXCEPT ![i] = l.next[e]]
          /\ UNCHANGED <<parts, computeInfo, longest, list, state, linearized, calls, cache>>
        BY <1>5 DEF Skip
    <2>3. StepIn(h, st, h[e].id).ok =>
            \E p \in ca : /\ equals(set(b, h[e].id), p[1])
                          /\ StepIn(h, st, h[e].id).state = p[2]
        BY <1>5, <2>1 DEF Skip, cacheContains, newLinearized, EntryAt
    <2>8. Y = X
        BY <2>2, CoveredSame
    <2>4. Search(h, Y, l, l.next[e], st, b, c, ca)
        <3> HIDE DEF h, l, e, st, b, c, ca, X, Y
        <3> QED
            BY <1>1, <2>1, <2>3, <2>8, Skipped
    <2>5. entry'[i] = l.next[e] /\ \A j \in P \ {i} : entry'[j] = entry[j]
        BY <1>3, <2>2
    <2>6. Search(parts[i], Covered(i)', list'[i], entry'[i], state'[i], linearized'[i], calls'[i], cache'[i])
        BY <2>2, <2>4, <2>5
    <2>7. \A j \in P \ {i} :
            /\ list'[j] = list[j] /\ entry'[j] = entry[j] /\ state'[j] = state[j]
            /\ linearized'[j] = linearized[j] /\ calls'[j] = calls[j] /\ cache'[j] = cache[j]
        BY <2>2, <2>5
    <2> QED
        BY <2>2, <2>6, <2>7, OneMoves
<1>6. CASE Backtrack(i)
    <2> DEFINE c2 == Front(c)
               x == Last(c).entry
               s == Last(c).state
               l2 == unlift(l, x, MatchIn(h, x))
               b2 == clear(b, h[x].id)
    <2>1. e \in DOMAIN h /\ h[e].kind = "return" /\ c # <<>> /\ UNCHANGED <<parts, computeInfo, cache>>
        BY <1>2, <1>6 DEF Backtrack, EntryAt
    <2>2. Match(i, x) = MatchIn(h, x)
        BY DEF Match, MatchIn
    <2>3. /\ state' = [state EXCEPT ![i] = s]
          /\ linearized' = [linearized EXCEPT ![i] = b2]
          /\ list' = [list EXCEPT ![i] = l2]
          /\ entry' = [entry EXCEPT ![i] = list'[i].next[x]]
          /\ calls' = [calls EXCEPT ![i] = c2]
        BY <1>6, <2>2 DEF Backtrack, Unset
    <2>4. Pushed(c2, x, s, c)
        BY <1>1, <2>1, FrontPushes
    <2>8. X \subseteq Y /\ Done(h, c, Len(c)) \in Y /\ \A j \in P \ {i} : longest'[j] = longest[j]
        BY <1>6, BacktrackCovers
    <2>5. Search(h, Y, l2, l2.next[x], s, b2, c2, ca)
        <3> HIDE DEF h, l, e, st, b, c, ca, X, Y, c2, x, s
        <3>1. Search(h, Y, l, e, st, b, c, ca)
            BY <1>1, <2>8, SearchGrows
        <3> QED
            BY <1>1, <2>1, <2>4, <2>8, <3>1, Backtracked
    <2> HIDE DEF s, l2, b2, c2, x
    <2>6. /\ list'[i] = l2 /\ entry'[i] = l2.next[x] /\ state'[i] = s /\ linearized'[i] = b2
          /\ calls'[i] = c2 /\ cache'[i] = ca
        BY <1>3, <2>1, <2>3
    <2>7. \A j \in P \ {i} :
            /\ list'[j] = list[j] /\ entry'[j] = entry[j] /\ state'[j] = state[j]
            /\ linearized'[j] = linearized[j] /\ calls'[j] = calls[j] /\ cache'[j] = cache[j]
        BY <1>3, <2>1, <2>3
    <2> QED
        BY <2>1, <2>5, <2>6, <2>7, <2>8, OneMoves
<1>7. CASE GiveUp(i) \/ Killed(i) \/ Complete(i) \/ Report(i)
    <2>1. UNCHANGED <<parts, computeInfo, list, entry, state, linearized, calls, cache>>
        BY <1>7 DEF GiveUp, Killed, Complete, Report, searchVars
    <2>2. X \subseteq Y /\ \A j \in P \ {i} : longest'[j] = longest[j]
        <3>1. CASE longest' = longest
            BY <2>1, <3>1, CoveredSame
        <3>2. CASE Complete(i)
            BY <3>2, CompleteCovers DEF Covered
        <3> QED
            BY <1>7, <3>1, <3>2 DEF GiveUp, Killed, Report, searchVars
    <2>3. Search(h, Y, l, e, st, b, c, ca)
        <3> HIDE DEF h, l, e, st, b, c, ca, X, Y
        <3> QED
            BY <1>1, <2>2, SearchGrows
    <2> QED
        BY <2>1, <2>2, <2>3, OneMoves
<1> QED
    BY <1>4, <1>5, <1>6, <1>7 DEF checkSingle

LEMMA DomainsStep ==
    ASSUME Domains, Next
    PROVE  Domains'
<1>1. CASE checkParallel
    <2>1. P' = P
        BY <1>1 DEF P, checkParallel, Timeout, Return, Receive, Drain
    <2>2. UNCHANGED <<parts, computeInfo, limited, searchVars>>
        BY <1>1 DEF checkParallel, Timeout, Return, Receive, Drain
    <2>3. /\ sent' \in [P -> {"no", "sent", "received"}]
          /\ kill' \in BOOLEAN /\ ok' \in BOOLEAN /\ timedOut' \in BOOLEAN
          /\ phase' \in {"collecting", "finishing"}
          /\ result' \in {"none", "Ok", "Illegal", "Unknown"}
        BY <1>1 DEF Domains, checkParallel, Timeout, Return, Receive, Drain, Answer, AllOk
    <2> QED
        BY <2>1, <2>2, <2>3 DEF Domains, searchVars
<1>2. ASSUME NEW i \in P, checkSingle(i) PROVE Domains'
    <2>1. UNCHANGED <<parts, computeInfo, limited, kill, ok, timedOut, phase, result>> /\ P' = P
        BY <1>2 DEF checkSingle, Linearize, Skip, Backtrack, GiveUp, Killed, Complete, Report, mainVars, P
    <2>2. /\ DOMAIN list' = P /\ DOMAIN entry' = P /\ DOMAIN state' = P /\ DOMAIN linearized' = P
          /\ DOMAIN calls' = P /\ DOMAIN cache' = P /\ DOMAIN longest' = P
        BY <1>2 DEF Domains, checkSingle, Linearize, Skip, Backtrack, GiveUp, Killed, Complete, Report, searchVars
    <2>3. /\ verdict' \in [P -> {"running", "true", "false"}]
          /\ sent' \in [P -> {"no", "sent", "received"}]
        BY <1>2 DEF Domains, checkSingle, Linearize, Skip, Backtrack, GiveUp, Killed, Complete, Report, searchVars, mainVars
    <2> QED
        BY <2>1, <2>2, <2>3 DEF Domains
<1> QED
    BY <1>1, <1>2 DEF Next

\* When the search gives up, everything was found.
LEMMA GivesUp ==
    ASSUME Domains, Searches, NEW i \in P, GiveUp(i)
    PROVE  Over(parts[i], Covered(i), {}, InitState)
<1>1. IsHistory(parts[i])
      /\ Search(parts[i], Covered(i), list[i], entry[i], state[i], linearized[i], calls[i], cache[i])
    BY Partitions DEF Searches
<1>2. calls[i] = <<>> /\ parts[i][entry[i]].kind = "return" /\ list[i].next[0] \in DOMAIN parts[i]
    BY DEF GiveUp, Looping, EntryAt, Empty
<1>3. entry[i] \in DOMAIN parts[i]
    BY <1>1, <1>2, AtEntry
<1>4. Len(calls[i]) = 0
    BY <1>2
<1>5. Done(parts[i], calls[i], Len(calls[i])) = {}
    BY <1>4 DEF Done
<1>6. state[i] = InitState
    BY <1>1, <1>4 DEF Search, Stacked, StateAt
<1>7. {} \in Covered(i)
    BY DEF Covered
<1>8. Over(parts[i], Covered(i), Done(parts[i], calls[i], Len(calls[i])), state[i])
    BY <1>1, <1>2, <1>3, <1>5, <1>7, Exhausted
<1> QED
    BY <1>5, <1>6, <1>8

\* A search that answers "true" has found a linearization, and one that
\* answers "false", unless it was killed, has tried everything.
LEMMA VerdictStep ==
    ASSUME Domains, Searches, Verdicts, NEW i \in P, checkSingle(i)
    PROVE  Verdicts' /\ (verdict[i] # "running" => verdict' = verdict)
<1>1. IsHistory(parts[i])
      /\ Search(parts[i], Covered(i), list[i], entry[i], state[i], linearized[i], calls[i], cache[i])
    BY Partitions DEF Searches
<1>2. verdict \in [P -> {"running", "true", "false"}]
    BY DEF Domains
<1>3. UNCHANGED <<parts, kill>> /\ P' = P /\ \A j : Refuted(j)' <=> Refuted(j)
    BY DEF checkSingle, Linearize, Skip, Backtrack, GiveUp, Killed, Complete, Report, mainVars, P, Refuted
<1>4. CASE verdict' = verdict
    BY <1>3, <1>4 DEF Verdicts
<1>5. CASE GiveUp(i)
    <2>1. verdict[i] = "running" /\ verdict' = [verdict EXCEPT ![i] = "false"]
        BY <1>5 DEF GiveUp, Looping
    <2>2. Refuted(i)
        BY <1>5, GivesUp DEF Over, Refuted
    <2> QED
        BY <1>2, <1>3, <2>1, <2>2 DEF Verdicts
<1>6. CASE Killed(i)
    <2>1. verdict[i] = "running" /\ verdict' = [verdict EXCEPT ![i] = "false"] /\ kill
        BY <1>6 DEF Killed
    <2> QED
        BY <1>2, <1>3, <2>1 DEF Verdicts
<1>7. CASE Complete(i)
    <2>1. /\ verdict[i] = "running" /\ verdict' = [verdict EXCEPT ![i] = "true"]
          /\ list[i].next[0] \notin DOMAIN parts[i]
        BY <1>7 DEF Complete, Empty
    <2>2. Done(parts[i], calls[i], Len(calls[i])) = IdsOf(parts[i])
        BY <1>1, <2>1, AtEntry
    <2>3. ~Refuted(i)
        BY <1>1, <2>2, Found DEF Refuted
    <2> QED
        BY <1>2, <1>3, <2>1, <2>3 DEF Verdicts
<1>8. CASE Linearize(i) \/ Skip(i) \/ Backtrack(i) \/ Report(i)
    <2>1. verdict' = verdict
        BY <1>8 DEF Linearize, Skip, Backtrack, Report, searchVars
    <2> QED
        BY <1>4, <2>1
<1> QED
    BY <1>5, <1>6, <1>7, <1>8 DEF checkSingle

\* The goroutines do not disturb what checkParallel has counted and collected.
LEMMA CollectedKept ==
    ASSUME Domains, Searches, Verdicts, Counted, Collected, NEW i \in P, checkSingle(i)
    PROVE  Counted' /\ Collected'
<1>1. /\ UNCHANGED <<parts, kill, count, ok, timedOut, phase, result>> /\ P' = P
      /\ \A j : Refuted(j)' <=> Refuted(j)
    BY DEF checkSingle, Linearize, Skip, Backtrack, GiveUp, Killed, Complete, Report, mainVars, P, Refuted
<1>2. \/ sent' = sent
      \/ /\ sent[i] = "no" /\ sent' = [sent EXCEPT ![i] = "sent"] /\ verdict[i] # "running"
         /\ verdict' = verdict
    BY DEF checkSingle, Linearize, Skip, Backtrack, GiveUp, Killed, Complete, Report, mainVars, searchVars
<1>3. \/ verdict' = verdict
      \/ verdict[i] = "running" /\ \E w \in {"true", "false"} : verdict' = [verdict EXCEPT ![i] = w]
    <2>1. CASE Linearize(i) \/ Skip(i) \/ Backtrack(i) \/ Report(i)
        BY <2>1 DEF Linearize, Skip, Backtrack, Report, searchVars
    <2>2. CASE GiveUp(i) \/ Killed(i)
        BY <2>2 DEF GiveUp, Killed, Looping
    <2>3. CASE Complete(i)
        BY <2>3 DEF Complete
    <2> QED
        BY <2>1, <2>2, <2>3 DEF checkSingle
<1>4. /\ verdict \in [P -> {"running", "true", "false"}]
      /\ sent \in [P -> {"no", "sent", "received"}]
    BY DEF Domains
<1>5. \A j \in P : /\ sent'[j] = "received" <=> sent[j] = "received"
                   /\ verdict[j] # "running" => verdict'[j] = verdict[j]
                   /\ sent'[j] # "no" => verdict'[j] # "running"
    <2>1. \A j \in P : sent'[j] = "received" <=> sent[j] = "received"
        BY <1>2, <1>4
    <2>2. \A j \in P : verdict[j] # "running" => verdict'[j] = verdict[j]
        BY <1>3, <1>4
    <2>3. \A j \in P : sent'[j] # "no" => verdict[j] # "running"
        BY <1>2, <1>4 DEF Collected
    <2> QED
        BY <2>1, <2>2, <2>3
<1>6. Counted'
    <2>1. {j \in P : sent'[j] = "received"} = {j \in P : sent[j] = "received"}
        BY <1>5
    <2> QED
        BY <1>1, <2>1 DEF Counted
<1>7. Collected'
    BY <1>1, <1>5 DEF Collected
<1> QED
    BY <1>6, <1>7

\* One more is counted.
LEMMA OneMore ==
    ASSUME Domains, Counted, NEW i \in P, sent[i] # "received", parts' = parts,
           sent' = [sent EXCEPT ![i] = "received"], count' = count + 1
    PROVE  Counted' /\ (count' >= Len(parts) => \A j \in P : sent'[j] = "received")
<1> DEFINE S == {j \in P : sent[j] = "received"}
           S2 == {j \in P : sent'[j] = "received"}
<1>1. sent \in [P -> {"no", "sent", "received"}] /\ P' = P
    BY DEF Domains, P
<1>2. S2 = S \cup {i} /\ i \notin S /\ S \in SUBSET P /\ S2 \in SUBSET P
    BY <1>1
<1>3. Len(parts) \in Nat /\ IsFiniteSet(P) /\ Cardinality(P) = Len(parts)
    BY Partitions
<1> HIDE DEF S, S2
<1>4. IsFiniteSet(S) /\ Cardinality(S) \in Nat
    BY <1>2, <1>3, FS_Subset, FS_CardinalityType
<1>5. Cardinality(S2) = Cardinality(S) + 1
    BY <1>2, <1>4, FS_AddElement
<1>6. count' = Cardinality(S2)
    BY <1>5 DEF Counted, S
<1>7. Counted'
    BY <1>1, <1>6 DEF Counted, S2
<1>8. ASSUME count' >= Len(parts) PROVE S2 = P
    <2>1. Cardinality(S2) <= Cardinality(P) /\ (Cardinality(P) = Cardinality(S2) => P = S2)
        BY <1>2, <1>3, FS_Subset
    <2>2. Cardinality(S2) \in Nat
        BY <1>4, <1>5
    <2>3. Cardinality(S2) = Cardinality(P)
        BY <1>3, <1>6, <1>8, <2>1, <2>2
    <2> QED
        BY <2>1, <2>3
<1> QED
    BY <1>7, <1>8 DEF S2

\* What checkParallel collects.
LEMMA CollectStep ==
    ASSUME Domains, Searches, Verdicts, Counted, Collected, checkParallel
    PROVE  Verdicts' /\ Counted' /\ Collected'
<1>1. UNCHANGED <<parts, searchVars>> /\ verdict' = verdict /\ P' = P
    BY DEF checkParallel, Timeout, Return, Receive, Drain, searchVars, P
<1>2. \A j : Refuted(j)' <=> Refuted(j)
    BY <1>1 DEF Refuted
<1>3. /\ verdict \in [P -> {"running", "true", "false"}]
      /\ sent \in [P -> {"no", "sent", "received"}]
      /\ kill \in BOOLEAN /\ ok \in BOOLEAN /\ timedOut \in BOOLEAN
      /\ phase \in {"collecting", "finishing"} /\ computeInfo \in BOOLEAN
    BY DEF Domains
<1>4. ASSUME NEW i \in P, Receive(i) PROVE Verdicts' /\ Counted' /\ Collected'
    <2>1. /\ phase = "collecting" /\ sent[i] = "sent" /\ ~kill /\ ~timedOut
          /\ sent' = [sent EXCEPT ![i] = "received"] /\ count' = count + 1
          /\ UNCHANGED <<timedOut, result, computeInfo>>
        BY <1>4 DEF Receive, Collected
    <2>2. ok' \in BOOLEAN /\ (ok' <=> ok /\ verdict[i] = "true")
        BY <1>3, <1>4 DEF Receive, AllOk
    <2>3. kill' \in BOOLEAN /\ (kill' <=> ~ok' /\ ~computeInfo)
        BY <1>3, <1>4, <2>1, <2>2 DEF Receive
    <2>4. phase' = IF kill' \/ count' >= Len(parts) THEN "finishing" ELSE phase
        BY <1>4 DEF Receive
    <2>5. Verdicts'
        BY <1>1, <1>2, <2>1 DEF Verdicts
    <2>6. Counted' /\ (count' >= Len(parts) => \A j \in P : sent'[j] = "received")
        BY <1>1, <2>1, OneMore
    <2>7. ASSUME ~ok' PROVE \E j \in P : Refuted(j)
        <3>1. CASE ~ok
            BY <3>1 DEF Collected
        <3>2. CASE verdict[i] # "true"
            <4>1. verdict[i] = "false"
                BY <1>3, <2>1, <3>2 DEF Collected
            <4> QED
                BY <2>1, <4>1 DEF Verdicts
        <3> QED
            BY <2>2, <2>7, <3>1, <3>2
    <2>8. ASSUME ok' PROVE \A j \in P : sent'[j] = "received" => verdict[j] = "true"
        BY <1>3, <2>1, <2>2, <2>8 DEF Collected
    <2>9. phase' = "collecting" => ~kill' /\ ~timedOut'
        BY <2>1, <2>4
    <2>10. phase' = "finishing" /\ ok' => \A j \in P : verdict[j] = "true"
        BY <2>1, <2>3, <2>4, <2>6, <2>8
    <2>11. \A j \in P : sent'[j] # "no" => verdict[j] # "running"
        BY <1>3, <2>1 DEF Collected
    <2>12. Collected'
        BY <1>1, <1>2, <2>1, <2>7, <2>8, <2>9, <2>10, <2>11 DEF Collected
    <2> QED
        BY <2>5, <2>6, <2>12
<1>5. ASSUME NEW i \in P, Drain(i) PROVE Verdicts' /\ Counted' /\ Collected'
    <2>1. /\ phase = "finishing" /\ sent[i] = "sent"
          /\ sent' = [sent EXCEPT ![i] = "received"] /\ count' = count + 1
          /\ UNCHANGED <<kill, ok, timedOut, phase, result>>
        BY <1>5 DEF Drain
    <2>2. Verdicts'
        BY <1>1, <1>2, <2>1 DEF Verdicts
    <2>3. Counted'
        BY <1>1, <2>1, OneMore
    <2>4. \A j \in P : sent'[j] # "no" => verdict[j] # "running"
        BY <1>3, <2>1 DEF Collected
    <2>5. Collected'
        BY <1>1, <1>2, <2>1, <2>4 DEF Collected
    <2> QED
        BY <2>2, <2>3, <2>5
<1>6. CASE Timeout
    <2>1. timedOut' = TRUE /\ kill' = TRUE /\ phase' = "finishing" /\ UNCHANGED <<sent, count, ok, result>>
        BY <1>6 DEF Timeout
    <2>2. Verdicts'
        BY <1>1, <1>2, <2>1 DEF Verdicts
    <2>3. Counted'
        BY <1>1, <2>1 DEF Counted
    <2>4. Collected'
        BY <1>1, <1>2, <2>1 DEF Collected
    <2> QED
        BY <2>2, <2>3, <2>4
<1>7. CASE Return
    <2>1. phase = "finishing" /\ result' = Answer /\ UNCHANGED <<sent, kill, count, ok, timedOut, phase>>
        BY <1>7 DEF Return
    <2>2. Verdicts'
        BY <1>1, <1>2, <2>1 DEF Verdicts
    <2>3. Counted'
        BY <1>1, <2>1 DEF Counted
    <2>4. result' = "Ok" => \A j \in P : ~Refuted(j)
        BY <1>3, <2>1 DEF Answer, Collected, Verdicts
    <2>5. result' = "Illegal" => \E j \in P : Refuted(j)
        BY <1>3, <2>1 DEF Answer, Collected
    <2>6. Collected'
        BY <1>1, <1>2, <2>1, <2>4, <2>5 DEF Collected
    <2> QED
        BY <2>2, <2>3, <2>6
<1> QED
    BY <1>4, <1>5, <1>6, <1>7 DEF checkParallel

\* longest[i] is complete when the goroutine answers, and is not written to later.
LEMMA LongestStep ==
    ASSUME Domains, Searches, Noted, Longest, Waited, Collected, NEW i \in P, checkSingle(i)
    PROVE  Longest' /\ Waited'
<1>1. UNCHANGED <<parts, computeInfo, kill, result>> /\ P' = P /\ \A j : Ids(j)' = Ids(j)
    BY LongestKept
<1>2. verdict \in [P -> {"running", "true", "false"}]
    BY DEF Domains
<1>3. /\ \A j \in P : verdict[j] # "running" => longest'[j] = longest[j]
      /\ \A j \in P : verdict'[j] = verdict[j] \/ (verdict[j] = "running" /\ j = i)
      /\ \A j \in P : verdict[j] # "running" => verdict'[j] = verdict[j]
    <2>1. CASE Backtrack(i)
        BY <1>2, <2>1, BacktrackCovers DEF Backtrack, Looping
    <2>2. CASE Complete(i)
        BY <1>2, <2>2, CompleteCovers DEF Complete
    <2>3. CASE GiveUp(i) \/ Killed(i)
        BY <1>2, <2>3 DEF GiveUp, Killed, Looping
    <2>4. CASE Linearize(i) \/ Skip(i) \/ Report(i)
        BY <2>4 DEF Linearize, Skip, Report, searchVars
    <2> QED
        BY <2>1, <2>2, <2>3, <2>4 DEF checkSingle
<1>4. ASSUME NEW j \in P, verdict[j] # "running"
      PROVE  /\ verdict'[j] = "true" => SUBSET Ids(j) \subseteq Covered(j)'
             /\ verdict'[j] = "false" /\ ~kill => Explored(parts[j], Covered(j)', {}, InitState)
    <2>1. Covered(j)' = Covered(j) /\ verdict'[j] = verdict[j]
        BY <1>1, <1>3, <1>4, CoveredSame
    <2> QED
        BY <1>4, <2>1 DEF Longest
<1>5. ASSUME verdict[i] = "running"
      PROVE  /\ verdict'[i] = "true" => SUBSET Ids(i) \subseteq Covered(i)'
             /\ verdict'[i] = "false" /\ ~kill => Explored(parts[i], Covered(i)', {}, InitState)
    <2>1. CASE Complete(i)
        <3>1. verdict'[i] = "true"
            BY <1>2, <2>1 DEF Complete
        <3> QED
            BY <2>1, <3>1, CompleteCovers
    <2>2. CASE GiveUp(i)
        <3>1. verdict'[i] = "false" /\ longest' = longest
            BY <1>2, <2>2 DEF GiveUp
        <3>2. Covered(i)' = Covered(i)
            BY <1>1, <3>1, CoveredSame
        <3> QED
            BY <2>2, <3>1, <3>2, GivesUp DEF Over
    <2>3. CASE Killed(i)
        <3>1. verdict'[i] = "false" /\ kill
            BY <1>2, <2>3 DEF Killed
        <3> QED
            BY <3>1
    <2>4. CASE verdict' = verdict
        BY <1>5, <2>4
    <2> QED
        BY <2>1, <2>2, <2>3, <2>4, LongestKept
<1>6. ASSUME NEW j \in P
      PROVE  /\ verdict'[j] = "true" => SUBSET Ids(j) \subseteq Covered(j)'
             /\ verdict'[j] = "false" /\ ~kill => Explored(parts[j], Covered(j)', {}, InitState)
    <2>1. CASE verdict[j] # "running"
        BY <1>4, <2>1
    <2>2. CASE verdict[j] = "running" /\ j = i
        BY <1>5, <2>2
    <2>3. CASE verdict[j] = "running" /\ j # i
        BY <1>3, <2>3
    <2> QED
        BY <2>1, <2>2, <2>3
<1>7. Longest'
    BY <1>1, <1>6 DEF Longest
<1>8. Waited'
    BY <1>1, <1>3 DEF Waited
<1> QED
    BY <1>7, <1>8

\* checkParallel returns, when it has to tell longest, after every answer.
LEMMA WaitedStep ==
    ASSUME Domains, Searches, Noted, Longest, Waited, Counted, Collected, checkParallel
    PROVE  Noted' /\ Longest' /\ Waited'
<1>1. UNCHANGED <<parts, computeInfo, searchVars>>
    BY DEF checkParallel, Timeout, Return, Receive, Drain
<1>2. /\ P' = P /\ verdict' = verdict /\ longest' = longest
      /\ \A j : Ids(j)' = Ids(j) /\ Covered(j)' = Covered(j)
    BY <1>1, CoveredSame DEF P, Ids, searchVars
<1>3. kill => kill'
    BY DEF checkParallel, Timeout, Return, Receive, Drain
<1>4. Noted'
    BY <1>1, <1>2 DEF Noted
<1>5. Longest'
    BY <1>1, <1>2, <1>3 DEF Longest
<1>6. ASSUME Return, computeInfo PROVE \A i \in P : verdict[i] # "running"
    <2> DEFINE S == {i \in P : sent[i] = "received"}
    <2>1. count >= Len(parts) /\ count = Cardinality(S)
        BY <1>6 DEF Return, Counted
    <2>2. Len(parts) \in Nat /\ IsFiniteSet(P) /\ Cardinality(P) = Len(parts)
        BY Partitions
    <2>3. S \in SUBSET P
        OBVIOUS
    <2> HIDE DEF S
    <2>4. /\ IsFiniteSet(S) /\ Cardinality(S) <= Cardinality(P)
          /\ Cardinality(P) = Cardinality(S) => P = S
        BY <2>2, <2>3, FS_Subset
    <2>5. Cardinality(S) \in Nat
        BY <2>4, FS_CardinalityType
    <2>6. P = S
        BY <2>1, <2>2, <2>4, <2>5
    <2> QED
        BY <2>6 DEF S, Collected
<1>7. Waited'
    <2>1. CASE Return
        BY <1>1, <1>2, <1>6, <2>1 DEF Waited
    <2>2. CASE ~Return
        <3>1. result' = result
            BY <2>2 DEF checkParallel, Timeout, Receive, Drain
        <3> QED
            BY <1>1, <1>2, <3>1 DEF Waited
    <2> QED
        BY <2>1, <2>2
<1> QED
    BY <1>4, <1>5, <1>7

\* Every behaviour of the checker keeps the invariant.
THEOREM Invariance == Spec => []Inv
<1>1. ASSUME Inv, Next PROVE Inv'
    <2>1. Domains'
        BY <1>1, DomainsStep DEF Inv
    <2>2. CASE checkParallel
        <3>1. UNCHANGED <<parts, computeInfo, searchVars>>
            BY <2>2 DEF checkParallel, Timeout, Return, Receive, Drain
        <3>2. Searches'
            BY <1>1, <3>1, Unmoved DEF Inv
        <3> QED
            BY <1>1, <2>1, <2>2, <3>2, CollectStep, WaitedStep DEF Inv
    <2>3. ASSUME NEW i \in P, checkSingle(i) PROVE Inv'
        BY <1>1, <2>1, <2>3, SearchStep, VerdictStep, CollectedKept, NotedStep, LongestStep DEF Inv
    <2> QED
        BY <1>1, <2>2, <2>3 DEF Next
<1>2. ASSUME Inv, UNCHANGED vars PROVE Inv'
    <2>1. UNCHANGED <<parts, computeInfo, limited, searchVars, mainVars>>
        BY <1>2 DEF vars
    <2>2. \A j : Ids(j)' = Ids(j) /\ Covered(j)' = Covered(j)
        BY <2>1, CoveredSame DEF Ids, searchVars
    <2>3. Domains' /\ Verdicts' /\ Counted' /\ Collected' /\ Waited'
        BY <1>2, <2>1 DEF Inv, Domains, Verdicts, Counted, Collected, Waited, searchVars, mainVars, P, Refuted
    <2>4. Searches' /\ Noted' /\ Longest'
        BY <1>2, <2>1, <2>2 DEF Inv, Searches, Noted, Longest, searchVars, mainVars, P
    <2> QED
        BY <2>3, <2>4 DEF Inv
<1> QED
    BY <1>1, <1>2, InitInv, PTL DEF Spec

----------------------------------------------------------------------------
(* What the invariant says of the properties. *)

\* The operations on the stack of partition i.
LEMMA StackNow ==
    ASSUME Inv, NEW i \in P
    PROVE  /\ Range(CallIds(i)) = Done(parts[i], calls[i], Len(calls[i]))
           /\ Done(parts[i], calls[i], Len(calls[i])) \in SUBSET Ids(i)
           /\ Ids(i) = IdsOf(parts[i]) /\ IsHistory(parts[i])
           /\ Search(parts[i], Covered(i), list[i], entry[i], state[i], linearized[i], calls[i], cache[i])
<1>1. /\ IsHistory(parts[i])
      /\ Search(parts[i], Covered(i), list[i], entry[i], state[i], linearized[i], calls[i], cache[i])
    BY Partitions DEF Inv, Searches
<1>2. IsSeq(calls[i]) /\ Stacked(parts[i], state[i], calls[i])
    BY <1>1 DEF Search
<1>3. DOMAIN calls[i] = 1 .. Len(calls[i])
    BY <1>2 DEF IsSeq
<1>4. Range(CallIds(i)) = Done(parts[i], calls[i], Len(calls[i]))
    BY <1>3 DEF CallIds, Range, Done
<1>5. Ids(i) = IdsOf(parts[i])
    BY DEF Ids, IdsOf
<1>6. Len(calls[i]) \in 0 .. Len(calls[i])
    BY <1>2, LenNat
<1>7. Done(parts[i], calls[i], Len(calls[i])) \in SUBSET IdsOf(parts[i])
    BY <1>1, <1>2, <1>6, StackIds
<1> QED
    BY <1>1, <1>4, <1>5, <1>7

\* checker.go:174-310: the variables keep their types, every id has its word
\* in the bitset, and a search that goes on is at an entry of its list.
THEOREM TypeCorrect == Spec => []TypeOK
<1>1. ASSUME Inv PROVE TypeOK
    <2>1. ASSUME NEW i \in P
          PROVE  /\ Ids(i) = 0 .. Len(parts[i]) \div 2 - 1
                 /\ \A d \in Ids(i) : major(d) \in DOMAIN linearized[i]
                 /\ entry[i] \in 1 .. Len(parts[i]) + 1
                 /\ Looping(i) => entry[i] \in DOMAIN parts[i]
        <3>1. /\ Ids(i) = IdsOf(parts[i]) /\ IsHistory(parts[i])
              /\ Search(parts[i], Covered(i), list[i], entry[i], state[i], linearized[i], calls[i], cache[i])
            BY <1>1, StackNow
        <3>2. Ids(i) = 0 .. Len(parts[i]) \div 2 - 1 /\ Len(parts[i]) \div 2 \in Nat
            BY <3>1, Entries
        <3>3. DOMAIN linearized[i] = 0 .. chunks(Len(parts[i]) \div 2) - 1
            BY <3>1 DEF Search, BitsOf
        <3>4. \A d \in Ids(i) : major(d) \in DOMAIN linearized[i]
            <4>1. PICK n \in Nat : n = Len(parts[i]) \div 2
                BY <3>2
            <4>2. \A d \in 0 .. n - 1 : major(d) \in 0 .. chunks(n) - 1
                BY InChunks
            <4> QED
                BY <3>2, <3>3, <4>1, <4>2
        <3>5. /\ entry[i] \in 1 .. Len(parts[i]) + 1
              /\ Looping(i) => entry[i] \in DOMAIN parts[i]
            BY <3>1, AtEntry DEF Looping, Empty
        <3> QED
            BY <3>2, <3>4, <3>5
    <2>2. Domains /\ count = Cardinality({i \in P : sent[i] = "received"})
        BY <1>1 DEF Inv, Counted
    <2> QED
        BY <2>1, <2>2 DEF TypeOK, Domains
<1> QED
    BY <1>1, Invariance, PTL

\* bitset.go:10-72: set, clear and equals, across words and after
\* backtracking, are those of sets of operations.
THEOREM BitsetExact == Spec => []BitsetIsSet
<1>1. ASSUME Inv PROVE BitsetIsSet
    <2> DEFINE Bits(i, b) == {d \in Ids(i) : get(b, d)}
    <2>1. ASSUME NEW i \in P
          PROVE  /\ Bits(i, linearized[i]) = Range(CallIds(i))
                 /\ \A e, f \in cache[i] :
                      equals(e[1], f[1]) <=> Bits(i, e[1]) = Bits(i, f[1])
        <3> DEFINE D == Done(parts[i], calls[i], Len(calls[i]))
        <3>1. /\ Range(CallIds(i)) = D /\ D \in SUBSET Ids(i)
              /\ Ids(i) = IdsOf(parts[i]) /\ IsHistory(parts[i])
              /\ Search(parts[i], Covered(i), list[i], entry[i], state[i], linearized[i], calls[i], cache[i])
            BY <1>1, StackNow
        <3>2. PICK n \in Nat : n = Len(parts[i]) \div 2 /\ Ids(i) = 0 .. n - 1
            <4>1. /\ IdsOf(parts[i]) = 0 .. Len(parts[i]) \div 2 - 1
                  /\ Len(parts[i]) \div 2 \in Nat
                BY <3>1, Entries
            <4> QED
                BY <3>1, <4>1
        <3>3. ASSUME NEW S \in SUBSET Ids(i) PROVE Bits(i, BitsOf(n, S)) = S
            <4>1. \A d \in 0 .. n - 1 : get(BitsOf(n, S), d) <=> d \in S
                BY <3>2, BitsOfSet
            <4> QED
                BY <3>2, <4>1
        <3> HIDE DEF Bits
        <3>4. Bits(i, linearized[i]) = Range(CallIds(i))
            <4>1. linearized[i] = BitsOf(n, D)
                BY <3>1, <3>2 DEF Search
            <4> QED
                BY <3>1, <3>3, <4>1
        <3>5. ASSUME NEW e \in cache[i]
              PROVE  \E S \in SUBSET Ids(i) : e[1] = BitsOf(n, S)
            <4>1. Cached(parts[i], Covered(i), state[i], calls[i], cache[i])
                BY <3>1 DEF Search
            <4>2. PICK S, s :
                    S \in SUBSET IdsOf(parts[i]) /\ e = <<BitsOf(Len(parts[i]) \div 2, S), s>>
                BY <4>1 DEF Cached
            <4> QED
                BY <3>1, <3>2, <4>2
        <3>6. ASSUME NEW e \in cache[i], NEW f \in cache[i]
              PROVE  equals(e[1], f[1]) <=> Bits(i, e[1]) = Bits(i, f[1])
            <4>1. PICK S \in SUBSET Ids(i) : e[1] = BitsOf(n, S)
                BY <3>5
            <4>2. PICK T \in SUBSET Ids(i) : f[1] = BitsOf(n, T)
                BY <3>5
            <4>3. equals(BitsOf(n, S), BitsOf(n, T)) <=> S = T
                BY <3>2, BitsOfEquals
            <4> QED
                BY <3>3, <4>1, <4>2, <4>3
        <3> QED
            BY <3>4, <3>6
    <2> QED
        BY <2>1 DEF BitsetIsSet
<1> QED
    BY <1>1, Invariance, PTL

\* checker.go:154-172: lift and unlift keep the list that of the operations
\* which are not linearized, in the order of the history and both ways.
THEOREM ListExact == Spec => []ListIsRemaining
<1>1. ASSUME Inv PROVE ListIsRemaining
    <2>1. ASSUME NEW i \in P
          PROVE  /\ \A x \in Remaining(i) \cup {0} :
                      /\ list[i].next[x] \in Remaining(i) \cup {Len(parts[i]) + 1}
                      /\ Adjacent(Remaining(i), x, list[i].next[x])
                 /\ \A x \in Remaining(i) :
                      /\ list[i].prev[x] \in Remaining(i) \cup {0}
                      /\ Adjacent(Remaining(i), list[i].prev[x], x)
        <3>1. /\ Range(CallIds(i)) = Done(parts[i], calls[i], Len(calls[i]))
              /\ Search(parts[i], Covered(i), list[i], entry[i], state[i], linearized[i], calls[i], cache[i])
            BY <1>1, StackNow
        <3>2. Remaining(i) = Left(parts[i], Done(parts[i], calls[i], Len(calls[i])))
            BY <3>1 DEF Remaining, Left
        <3>3. IsSeq(calls[i]) /\ Lists(parts[i], list[i], calls[i])
            BY <3>1 DEF Search
        <3>4. IsList(list[i], Remaining(i), Len(parts[i]))
            BY <3>2, <3>3, ListNow
        <3> QED
            BY <3>4 DEF IsList, Chain
    <2> QED
        BY <2>1 DEF ListIsRemaining, Adjacent
<1> QED
    BY <1>1, Invariance, PTL

\* checker.go:239, 293: whatever the sequential model and the history, an
\* answer Ok means that every partition has a linearization.
THEOREM OkIsSound == Spec => []OkSound
<1>1. ASSUME Inv PROVE OkSound
    <2>1. result = "Ok" => \A i \in P : ~Refuted(i)
        BY <1>1 DEF Inv, Collected
    <2>2. \A i \in P : IsHistory(parts[i])
        BY <1>1, Partitions DEF Inv
    <2> QED
        BY <2>1, <2>2, LinearizableIsAlive DEF OkSound, Refuted
<1> QED
    BY <1>1, Invariance, PTL

\* checker.go:142, 293: an answer Illegal means that some partition has none:
\* the cache and the pruning at return entries lose no linearization.
THEOREM IllegalIsSound == Spec => []IllegalSound
<1>1. ASSUME Inv PROVE IllegalSound
    <2>1. result = "Illegal" => \E i \in P : Refuted(i)
        BY <1>1 DEF Inv, Collected
    <2>2. \A i \in P : IsHistory(parts[i])
        BY <1>1, Partitions DEF Inv
    <2> QED
        BY <2>1, <2>2, LinearizableIsAlive DEF IllegalSound, Refuted
<1> QED
    BY <1>1, Invariance, PTL

\* checker.go:180, 228, 314: with computeInfo, whatever the sequential model and
\* the history, every sequence that checkSingle leaves in longest is a
\* linearization of its operations, and when no search was killed no set of
\* operations that has a linearization is larger than the sequence recorded for
\* each of its operations: the cache cuts off no longer one.
THEOREM LongestIsRight == Spec => []LongestIsLongest
<1>1. ASSUME Inv PROVE LongestIsLongest
    <2> SUFFICES ASSUME result # "none", computeInfo, NEW i \in P
                 PROVE  /\ \A o \in Published(i) : o \in Linearizations(i, Range(o))
                        /\ ~kill => \A d \in Ids(i), S \in SUBSET Ids(i) :
                             d \in S /\ Linearizations(i, S) # {} =>
                               longest[i][d] # Nil /\ Len(longest[i][d]) >= Cardinality(S)
        BY DEF LongestIsLongest
    <2>1. IsHistory(parts[i]) /\ Ids(i) = IdsOf(parts[i])
        BY <1>1, StackNow
    <2>2. ASSUME NEW o \in Published(i) PROVE o \in Linearizations(i, Range(o))
        <3>1. PICK d \in Ids(i) : o = longest[i][d] /\ o # Nil
            BY DEF Published
        <3>2. PICK m \in Nat : Fits(parts[i], m, o)
            BY <1>1, <3>1 DEF Inv, Noted
        <3>3. o \in [1 .. m -> Ids(i)]
            BY <2>1, <3>2 DEF Fits, Partial
        <3>4. Range(o) \in SUBSET Ids(i) /\ Members(o, m) = Range(o)
            BY <3>3 DEF Range, Members
        <3> QED
            BY <2>1, <3>2, <3>4, LinearizationIs
    <2>3. ASSUME ~kill, NEW d \in Ids(i), NEW S \in SUBSET Ids(i), d \in S, Linearizations(i, S) # {}
          PROVE  longest[i][d] # Nil /\ Len(longest[i][d]) >= Cardinality(S)
        <3>1. PICK o : o \in Linearizations(i, S)
            BY <2>3
        <3>2. PICK m \in Nat : Fits(parts[i], m, o) /\ Members(o, m) = S
            BY <2>1, <3>1, LinearizationIs
        <3>3. verdict[i] \in {"true", "false"}
            BY <1>1 DEF Inv, Waited, Domains
        <3>4. S \in Covered(i)
            <4>1. CASE verdict[i] = "true"
                BY <1>1, <4>1 DEF Inv, Longest
            <4>2. CASE verdict[i] = "false"
                <5>1. Explored(parts[i], Covered(i), {}, InitState)
                    BY <1>1, <2>3, <4>2 DEF Inv, Longest
                <5>2. {} \cup Members(o, m) \in Covered(i)
                    BY <3>2, <5>1 DEF Explored, Fits
                <5> QED
                    BY <3>2, <5>2
            <4> QED
                BY <3>3, <4>1, <4>2
        <3> QED
            BY <2>3, <3>4 DEF Covered
    <2> QED
        BY <2>2, <2>3
<1> QED
    BY <1>1, Invariance, PTL
=============================================================================
