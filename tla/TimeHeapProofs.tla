--------------------------- MODULE TimeHeapProofs ---------------------------
(***************************************************************************)
(* The time heap, for any number of timers, any capacity and any delays,   *)
(* wherever percolate_down neither accesses what it must not nor moves an  *)
(* entry from behind the last timer.                                       *)
(***************************************************************************)
EXTENDS TimeHeap, FiniteSetTheorems, FunctionTheorems, WellFoundedInduction, TLAPS

(* The order of the naturals, as a relation.                               *)
Less == {ss \in Nat \X Nat : ss[1] < ss[2]}

LEMMA LessIsWellFounded == IsWellFoundedOn(Less, Nat)
BY NatLessThanWellFounded, Zenon DEF OpToRel, Less

(* A set of naturals has a least element.                                  *)
LEMMA Least ==
    ASSUME NEW S, S \subseteq Nat, S # {}
    PROVE  \E m \in S : \A x \in S : m <= x
<1>1. PICK m \in S : \A x \in S : ~ (<<x, m>> \in Less)
  BY LessIsWellFounded, WFMin
<1>2. \A x \in S : ~ (x < m)
  BY <1>1 DEF Less
<1> QED BY <1>2

(* Induction over the naturals, for a set instead of a predicate.          *)
LEMMA SetInduction ==
    ASSUME NEW D, 0 \in D, \A n \in Nat : n \in D => n + 1 \in D
    PROVE  Nat \subseteq D
<1> SUFFICES ASSUME Nat \ D # {}
             PROVE  FALSE
  OBVIOUS
<1>1. PICK m \in Nat \ D : \A x \in Nat \ D : m <= x
  BY Least
<1>2. m # 0 /\ m - 1 \in Nat /\ ~ (m <= m - 1) /\ (m - 1) + 1 = m
  BY <1>1
<1>3. m - 1 \in D
  BY <1>1, <1>2
<1> QED BY <1>1, <1>2, <1>3

-----------------------------------------------------------------------------
(* An entry and its parent.                                                *)
LEMMA ParentIs ==
    \A i \in Nat \ {0} : /\ Parent(i) \in Nat /\ Parent(i) < i /\ Parent(i) \in 0 .. i - 1
                         /\ i = 2 * Parent(i) + 1 \/ i = 2 * Parent(i) + 2
BY DEF Parent

(* The first n entries hold the timers S, each once; and they are in order *)
(* by the deadlines e.                                                     *)
Holds(a, n, S) ==
    /\ \A i \in 0 .. n - 1 : a[i] \in S
    /\ \A i, j \in 0 .. n - 1 : a[i] = a[j] => i = j
    /\ \A t \in S : \E i \in 0 .. n - 1 : a[i] = t

InOrder(a, n, e) == \A i \in 1 .. n - 1 : e[a[Parent(i)]] <= e[a[i]]

(* Two entries change places.                                              *)
LEMMA SwapHolds ==
    ASSUME NEW a, NEW n \in Nat, NEW S, Holds(a, n, S),
           NEW i \in 0 .. n - 1, NEW j \in 0 .. n - 1, NEW b,
           b[i] = a[j], b[j] = a[i],
           \A k \in 0 .. n - 1 : k # i /\ k # j => b[k] = a[k]
    PROVE  Holds(b, n, S)
<1> DEFINE place(k) == IF k = i THEN j ELSE IF k = j THEN i ELSE k
<1>1. \A k \in 0 .. n - 1 : place(k) \in 0 .. n - 1 /\ b[k] = a[place(k)] /\ place(place(k)) = k
  OBVIOUS
<1> HIDE DEF place
<1>2. \A k \in 0 .. n - 1 : b[k] \in S
  BY <1>1 DEF Holds
<1>3. \A k, m \in 0 .. n - 1 : b[k] = b[m] => k = m
  BY <1>1 DEF Holds
<1>4. ASSUME NEW t \in S
      PROVE  \E k \in 0 .. n - 1 : b[k] = t
  <2>1. PICK k \in 0 .. n - 1 : a[k] = t
    BY DEF Holds
  <2> QED BY <1>1, <2>1
<1> QED BY <1>2, <1>3, <1>4 DEF Holds

(* A heap holds as many timers as it has entries in use.                   *)
LEMMA HoldsCounts ==
    ASSUME NEW a, NEW n \in Nat, NEW S, Holds(a, n, S)
    PROVE  IsFiniteSet(S) /\ Cardinality(S) = n /\ {a[i] : i \in 0 .. n - 1} = S
<1> DEFINE f == [i \in 0 .. n - 1 |-> a[i]]
<1>1. f \in Bijection(0 .. n - 1, S)
  BY DEF Holds, Bijection, Injection, Surjection, IsInjective
<1>2. IsFiniteSet(0 .. n - 1) /\ Cardinality(0 .. n - 1) = n
  BY FS_Interval
<1>3. IsFiniteSet(S) /\ Cardinality(S) = n
  <2>1. ExistsBijection(0 .. n - 1, S)
    BY <1>1, Zenon DEF ExistsBijection
  <2> QED BY <1>2, <2>1, FS_Bijection
<1> QED BY <1>3 DEF Holds

LEMMA CapacityIs ==
    ASSUME NEW a, NEW n \in Nat, DOMAIN a = 0 .. n - 1
    PROVE  Cardinality(DOMAIN a) = n
BY FS_Interval

-----------------------------------------------------------------------------
(* The loop of add_timer: what it makes of the array a from each hole on.  *)
RiseFrom(a, t, e, f, hole) ==
    IF hole = 0 \/ StaysBelow(e, a[Parent(hole)], t) THEN [a EXCEPT ![hole] = t]
    ELSE [f[Parent(hole)] EXCEPT ![hole] = a[Parent(hole)]]

Rises(a, start, t, e, f) == f = [hole \in 0 .. start |-> RiseFrom(a, t, e, f, hole)]

(* The loop ends: there is such a function, and PercolateUp takes it.      *)
LEMMA RiseExists ==
    ASSUME NEW a, NEW start \in Nat, NEW t, NEW e
    PROVE  \E f : Rises(a, start, t, e, f)
<1> DEFINE Upto(f, k) == \A hole \in 0 .. start : hole <= k => f[hole] = RiseFrom(a, t, e, f, hole)
           D == {k \in Nat : \E f : Upto(f, k)}
<1>1. 0 \in D
  <2> DEFINE f == [hole \in 0 .. start |-> [a EXCEPT ![hole] = t]]
  <2>1. Upto(f, 0)
    BY DEF RiseFrom
  <2> QED BY <2>1
<1>2. ASSUME NEW k \in Nat, k \in D
      PROVE  k + 1 \in D
  <2>1. PICK f : Upto(f, k)
    BY <1>2
  <2> DEFINE g == [hole \in 0 .. start |-> IF hole = k + 1 THEN RiseFrom(a, t, e, f, hole) ELSE f[hole]]
  <2>2. ASSUME NEW hole \in 0 .. start, hole <= k + 1
        PROVE  g[hole] = RiseFrom(a, t, e, g, hole)
    <3>1. g[hole] = RiseFrom(a, t, e, f, hole)
      <4>1. CASE hole = k + 1
        BY <4>1
      <4>2. CASE hole # k + 1
        <5>1. hole <= k
          BY <2>2, <4>2
        <5> QED BY <2>1, <4>2, <5>1
      <4> QED BY <4>1, <4>2
    <3>2. hole # 0 => g[Parent(hole)] = f[Parent(hole)]
      <4>1. hole # 0 => Parent(hole) \in 0 .. start /\ Parent(hole) # k + 1
        BY <2>2, ParentIs
      <4> QED BY <4>1
    <3> HIDE DEF g
    <3> QED BY <3>1, <3>2 DEF RiseFrom
  <2>3. Upto(g, k + 1)
    BY <2>2
  <2> HIDE DEF g, Upto
  <2> QED BY <2>3
<1>3. start \in D
  <2> HIDE DEF D
  <2> QED BY <1>1, <1>2, SetInduction
<1>4. PICK f : Upto(f, start)
  BY <1>3
<1> DEFINE g == [hole \in 0 .. start |-> f[hole]]
<1>5. ASSUME NEW hole \in 0 .. start
      PROVE  g[hole] = RiseFrom(a, t, e, g, hole)
  <2>1. f[hole] = RiseFrom(a, t, e, f, hole)
    BY <1>4
  <2>2. hole # 0 => g[Parent(hole)] = f[Parent(hole)]
    <3>1. hole # 0 => Parent(hole) \in 0 .. start
      BY ParentIs
    <3> QED BY <3>1
  <2>3. g[hole] = f[hole]
    OBVIOUS
  <2> HIDE DEF g
  <2> QED BY <2>1, <2>2, <2>3 DEF RiseFrom
<1>6. g = [hole \in 0 .. start |-> RiseFrom(a, t, e, g, hole)]
  BY <1>5
<1> QED BY <1>6, Zenon DEF Rises

LEMMA PercolateUpRises ==
    ASSUME NEW a, NEW start \in Nat, NEW t, NEW e
    PROVE  \E f : Rises(a, start, t, e, f) /\ PercolateUp(a, start, t, e) = f[start]
<1> DEFINE rise == CHOOSE f : f = [hole \in 0 .. start |->
               IF hole = 0 \/ StaysBelow(e, a[Parent(hole)], t) THEN [a EXCEPT ![hole] = t]
               ELSE [f[Parent(hole)] EXCEPT ![hole] = a[Parent(hole)]]]
<1>1. Rises(a, start, t, e, rise)
  <2>1. PICK f : Rises(a, start, t, e, f)
    BY RiseExists
  <2>2. f = [hole \in 0 .. start |->
               IF hole = 0 \/ StaysBelow(e, a[Parent(hole)], t) THEN [a EXCEPT ![hole] = t]
               ELSE [f[Parent(hole)] EXCEPT ![hole] = a[Parent(hole)]]]
    BY <2>1, Zenon DEF Rises, RiseFrom
  <2> QED BY <2>2, Zenon DEF Rises, RiseFrom
<1>2. PercolateUp(a, start, t, e) = rise[start]
  BY Zenon DEF PercolateUp
<1> HIDE DEF rise
<1> QED BY <1>1, <1>2

(* With t put at the hole h of b, the entries up to n hold S; and only the *)
(* hole and its parent may be in the wrong order.                          *)
Put(b, h, t) == [b EXCEPT ![h] = t]

OrderedBut(b, h, t, n, e) ==
    /\ \A i \in 1 .. n : i # h => e[Put(b, h, t)[Parent(i)]] <= e[Put(b, h, t)[i]]
    /\ h # 0 => \A i \in 1 .. n : Parent(i) = h => e[b[Parent(h)]] <= e[b[i]]

Fits(b, N, n, h) == b \in [0 .. N - 1 -> Ptr] /\ \A i \in 0 .. n : i # h => b[i] \in Timers

(* One turn of the loop moves the parent down.                             *)
LEMMA RiseMoves ==
    ASSUME NEW N \in Nat, NEW n \in 0 .. N - 1, NEW e \in [Timers -> Nat], NEW t \in Timers,
           NEW b, NEW h \in 1 .. n, Fits(b, N, n, h), e[t] < e[b[Parent(h)]],
           NEW S
    PROVE  /\ Fits(Put(b, h, b[Parent(h)]), N, n, Parent(h))
           /\ Holds(Put(b, h, t), n + 1, S) => Holds(Put(Put(b, h, b[Parent(h)]), Parent(h), t), n + 1, S)
           /\ OrderedBut(b, h, t, n, e) => OrderedBut(Put(b, h, b[Parent(h)]), Parent(h), t, n, e)
<1> DEFINE q == Parent(h)
           c == Put(b, h, b[q])
           u == Put(b, h, t)
           v == Put(c, q, t)
<1>1. q \in 0 .. n /\ q \in Nat /\ q < h /\ q # h /\ h \in 0 .. n /\ h \in 0 .. N - 1 /\ q \in 0 .. N - 1
  BY ParentIs
<1>2. b[q] \in Timers /\ b \in [0 .. N - 1 -> Ptr]
  BY <1>1 DEF Fits
<1>3. \A i \in 0 .. N - 1 : /\ c[i] = IF i = h THEN b[q] ELSE b[i]
                            /\ u[i] = IF i = h THEN t ELSE b[i]
                            /\ v[i] = IF i = q THEN t ELSE IF i = h THEN b[q] ELSE b[i]
  BY <1>1, <1>2 DEF Put
<1>4. Fits(c, N, n, q)
  <2>1. c \in [0 .. N - 1 -> Ptr]
    BY <1>2 DEF Put, Ptr
  <2>2. \A i \in 0 .. n : i # q => c[i] \in Timers
    BY <1>1, <1>2, <1>3 DEF Fits
  <2> HIDE DEF c
  <2> QED BY <2>1, <2>2 DEF Fits
<1> HIDE DEF c, u, v, q
<1>5. ASSUME Holds(u, n + 1, S)
      PROVE  Holds(v, n + 1, S)
  <2>1. v[h] = u[q] /\ v[q] = u[h] /\ \A k \in 0 .. (n + 1) - 1 : k # h /\ k # q => v[k] = u[k]
    BY <1>1, <1>3
  <2> QED BY <1>1, <1>5, <2>1, SwapHolds
<1>6. ASSUME OrderedBut(b, h, t, n, e)
      PROVE  OrderedBut(c, q, t, n, e)
  <2>1. \A i \in 1 .. n : i # h => e[u[Parent(i)]] <= e[u[i]]
    BY <1>6 DEF OrderedBut, u
  <2>2. \A i \in 1 .. n : Parent(i) = h => e[b[q]] <= e[b[i]]
    BY <1>6 DEF OrderedBut, q
  <2>3. \A i \in 1 .. n : Parent(i) \in 0 .. n /\ Parent(i) # i /\ i \in 0 .. n /\ i \in 0 .. N - 1 /\ Parent(i) \in 0 .. N - 1
    BY ParentIs
  <2>4. e[t] \in Nat /\ e[b[q]] \in Nat /\ e[t] < e[b[q]]
    BY <1>2 DEF q
  <2>5. \A i \in 0 .. n : i # h => b[i] \in Timers /\ e[b[i]] \in Nat
    BY DEF Fits
  <2>6. ASSUME NEW i \in 1 .. n, i # q
        PROVE  e[v[Parent(i)]] <= e[v[i]]
    <3>1. CASE i = h
      <4>1. v[i] = b[q] /\ v[Parent(i)] = t
        BY <1>1, <1>3, <3>1 DEF q
      <4> QED BY <2>4, <4>1
    <3>2. CASE i # h /\ Parent(i) = q
      <4>1. u[i] = b[i] /\ u[q] = b[q] /\ v[i] = b[i] /\ v[q] = t
        BY <1>1, <1>3, <2>3, <2>6, <3>2
      <4>2. e[b[q]] <= e[b[i]]
        BY <2>1, <3>2, <4>1
      <4> QED BY <2>3, <2>4, <2>5, <3>2, <4>1, <4>2
    <3>3. CASE i # h /\ Parent(i) = h
      <4>1. v[i] = b[i] /\ v[h] = b[q]
        BY <1>1, <1>3, <2>3, <2>6, <3>3
      <4> QED BY <2>2, <3>3, <4>1
    <3>4. CASE i # h /\ Parent(i) # q /\ Parent(i) # h
      <4>1. v[i] = u[i] /\ v[Parent(i)] = u[Parent(i)]
        BY <1>1, <1>3, <2>3, <2>6, <3>4
      <4> QED BY <2>1, <3>4, <4>1
    <3> QED BY <3>1, <3>2, <3>3, <3>4
  <2>7. ASSUME q # 0, NEW i \in 1 .. n, Parent(i) = q
        PROVE  e[c[Parent(q)]] <= e[c[i]]
    <3>1. q \in 1 .. n /\ Parent(q) \in 0 .. q - 1 /\ Parent(q) # h /\ Parent(q) # q
      BY <1>1, <2>7, ParentIs
    <3>2. c[Parent(q)] = b[Parent(q)] /\ u[Parent(q)] = b[Parent(q)] /\ u[q] = b[q]
      BY <1>1, <1>3, <3>1, <2>3
    <3>3. e[b[Parent(q)]] <= e[b[q]]
      BY <1>1, <2>1, <3>1, <3>2
    <3>4. CASE i = h
      BY <1>1, <1>3, <3>2, <3>3, <3>4
    <3>5. CASE i # h
      <4>1. c[i] = b[i] /\ u[i] = b[i]
        BY <1>3, <2>3, <3>5
      <4>2. e[b[q]] <= e[b[i]]
        BY <2>1, <2>7, <3>2, <3>5, <4>1
      <4>3. e[b[Parent(q)]] \in Nat /\ e[b[i]] \in Nat
        BY <2>3, <2>5, <3>1, <3>5
      <4> QED BY <2>4, <3>2, <3>3, <4>1, <4>2, <4>3
    <3> QED BY <3>4, <3>5
  <2> QED BY <2>6, <2>7 DEF OrderedBut, v
<1> QED BY <1>4, <1>5, <1>6 DEF c, u, v, q

(* The entries down to h as the loop leaves them, the others as in b.      *)
Joined(b, r, h) == [i \in DOMAIN b |-> IF i > h THEN b[i] ELSE r[i]]

RiseKept(a, N, n, t, e, S, r, h) ==
    /\ r \in [0 .. N - 1 -> Ptr]
    /\ \A i \in 0 .. N - 1 : i > h => r[i] = a[i]
    /\ h > 0 /\ e[a[0]] <= e[t] => r[0] = a[0]
    /\ \A b : Fits(b, N, n, h) /\ (\A i \in 0 .. h - 1 : b[i] = a[i]) =>
          /\ Holds(Put(b, h, t), n + 1, S) => Holds(Joined(b, r, h), n + 1, S)
          /\ OrderedBut(b, h, t, n, e) => InOrder(Joined(b, r, h), n + 1, e)

(* Where the loop ends.                                                    *)
LEMMA RiseStops ==
    ASSUME NEW N \in Nat, NEW n \in 0 .. N - 1, NEW a \in [0 .. N - 1 -> Ptr],
           NEW e \in [Timers -> Nat], NEW t \in Timers, NEW S,
           NEW h \in 0 .. n, h = 0 \/ e[a[Parent(h)]] <= e[t]
    PROVE  RiseKept(a, N, n, t, e, S, Put(a, h, t), h)
<1> DEFINE r == Put(a, h, t)
<1>1. h \in 0 .. N - 1 /\ h \in Nat /\ n \in Nat /\ 0 \in 0 .. N - 1
  OBVIOUS
<1>2. r \in [0 .. N - 1 -> Ptr] /\ \A i \in 0 .. N - 1 : r[i] = IF i = h THEN t ELSE a[i]
  BY <1>1 DEF Put, Ptr
<1> HIDE DEF r
<1>3. ASSUME NEW b, Fits(b, N, n, h), \A i \in 0 .. h - 1 : b[i] = a[i]
      PROVE  Joined(b, r, h) = Put(b, h, t)
  <2>1. b \in [0 .. N - 1 -> Ptr] /\ DOMAIN b = 0 .. N - 1
    BY <1>3 DEF Fits
  <2>2. ASSUME NEW i \in 0 .. N - 1
        PROVE  (IF i > h THEN b[i] ELSE r[i]) = IF i = h THEN t ELSE b[i]
    BY <1>1, <1>2, <1>3
  <2>3. Joined(b, r, h) = [i \in 0 .. N - 1 |-> IF i > h THEN b[i] ELSE r[i]]
    BY <2>1 DEF Joined
  <2>4. Put(b, h, t) = [i \in 0 .. N - 1 |-> IF i = h THEN t ELSE b[i]]
    BY <1>1, <2>1 DEF Put
  <2> QED BY <2>2, <2>3, <2>4
<1>4. ASSUME NEW b, Fits(b, N, n, h), \A i \in 0 .. h - 1 : b[i] = a[i],
             OrderedBut(b, h, t, n, e)
      PROVE  InOrder(Put(b, h, t), n + 1, e)
  <2>1. \A i \in 1 .. n : i # h => e[Put(b, h, t)[Parent(i)]] <= e[Put(b, h, t)[i]]
    BY <1>4 DEF OrderedBut
  <2>2. h # 0 => e[Put(b, h, t)[Parent(h)]] <= e[Put(b, h, t)[h]]
    <3>1. h # 0 => Parent(h) \in 0 .. h - 1 /\ Parent(h) # h /\ Parent(h) \in 0 .. N - 1
      BY ParentIs
    <3>2. Put(b, h, t)[h] = t /\ (h # 0 => Put(b, h, t)[Parent(h)] = b[Parent(h)])
      BY <1>1, <1>4, <3>1 DEF Put, Fits
    <3> QED BY <1>4, <3>1, <3>2
  <2>3. \A i \in 1 .. (n + 1) - 1 : i \in 1 .. n
    BY <1>1
  <2> HIDE DEF Put
  <2> QED BY <2>1, <2>2, <2>3 DEF InOrder
<1>5. h > 0 /\ e[a[0]] <= e[t] => r[0] = a[0]
  BY <1>1, <1>2
<1>6. \A i \in 0 .. N - 1 : i > h => r[i] = a[i]
  BY <1>1, <1>2
<1> QED BY <1>2, <1>3, <1>4, <1>5, <1>6, Zenon DEF RiseKept, r

(* Where it goes on to the parent of h.                                    *)
LEMMA RiseGoesOn ==
    ASSUME NEW N \in Nat, NEW n \in 0 .. N - 1, NEW a \in [0 .. N - 1 -> Ptr],
           \A i \in 0 .. n - 1 : a[i] \in Timers,
           NEW e \in [Timers -> Nat], NEW t \in Timers, NEW S,
           NEW h \in 1 .. n, e[t] < e[a[Parent(h)]],
           NEW r, RiseKept(a, N, n, t, e, S, r, Parent(h))
    PROVE  RiseKept(a, N, n, t, e, S, Put(r, h, a[Parent(h)]), h)
<1> DEFINE q == Parent(h)
           s == Put(r, h, a[q])
<1>1. /\ q \in 0 .. n /\ q \in Nat /\ q < h /\ q \in 0 .. h - 1 /\ h \in 0 .. N - 1 /\ q \in 0 .. N - 1
      /\ h \in Nat /\ n \in Nat /\ 0 \in 0 .. N - 1 /\ q \in 0 .. n - 1
  BY ParentIs
<1>2. r \in [0 .. N - 1 -> Ptr] /\ \A i \in 0 .. N - 1 : i > q => r[i] = a[i]
  BY DEF RiseKept
<1>3. s \in [0 .. N - 1 -> Ptr] /\ \A i \in 0 .. N - 1 : s[i] = IF i = h THEN a[q] ELSE r[i]
  BY <1>1, <1>2 DEF Put
<1> HIDE DEF s
<1>4. \A i \in 0 .. N - 1 : i > h => s[i] = a[i]
  BY <1>1, <1>2, <1>3
<1>5. h > 0 /\ e[a[0]] <= e[t] => s[0] = a[0]
  <2>1. CASE q = 0
    <3>1. a[0] \in Timers /\ e[a[0]] \in Nat /\ e[t] \in Nat
      BY <1>1
    <3> QED BY <2>1, <3>1
  <2>2. CASE q # 0
    <3>1. q > 0 /\ 0 # h
      BY <1>1, <2>2
    <3>2. e[a[0]] <= e[t] => r[0] = a[0]
      BY <3>1, Zenon DEF RiseKept
    <3> QED BY <1>1, <1>3, <3>1, <3>2
  <2> QED BY <2>1, <2>2
<1>6. ASSUME NEW b, Fits(b, N, n, h), \A i \in 0 .. h - 1 : b[i] = a[i]
      PROVE  /\ Holds(Put(b, h, t), n + 1, S) => Holds(Joined(b, s, h), n + 1, S)
             /\ OrderedBut(b, h, t, n, e) => InOrder(Joined(b, s, h), n + 1, e)
  <2> DEFINE c == Put(b, h, b[q])
  <2>1. b[q] = a[q] /\ b \in [0 .. N - 1 -> Ptr]
    BY <1>1, <1>6 DEF Fits
  <2>2. /\ Fits(c, N, n, q)
        /\ Holds(Put(b, h, t), n + 1, S) => Holds(Put(c, q, t), n + 1, S)
        /\ OrderedBut(b, h, t, n, e) => OrderedBut(c, q, t, n, e)
    BY <1>6, <2>1, RiseMoves
  <2>3. c \in [0 .. N - 1 -> Ptr] /\ \A i \in 0 .. N - 1 : c[i] = IF i = h THEN a[q] ELSE b[i]
    BY <1>1, <2>1 DEF Put, Ptr
  <2> HIDE DEF c
  <2>4. ASSUME NEW i \in 0 .. q - 1
        PROVE  c[i] = a[i]
    <3> HIDE DEF q
    <3>1. i \in 0 .. h - 1 /\ i \in 0 .. N - 1 /\ i # h
      BY <1>1
    <3> QED BY <1>6, <2>3, <3>1
  <2>5. /\ Holds(Put(c, q, t), n + 1, S) => Holds(Joined(c, r, q), n + 1, S)
        /\ OrderedBut(c, q, t, n, e) => InOrder(Joined(c, r, q), n + 1, e)
    BY <2>2, <2>4, Zenon DEF RiseKept
  <2>6. Joined(c, r, q) = Joined(b, s, h)
    <3>1. ASSUME NEW i \in 0 .. N - 1
          PROVE  (IF i > q THEN c[i] ELSE r[i]) = IF i > h THEN b[i] ELSE s[i]
      <4>1. CASE i > h
        BY <1>1, <2>3, <4>1
      <4>2. CASE i = h
        BY <1>1, <1>3, <2>3, <4>2
      <4>3. CASE q < i /\ i < h
        <5>1. i \in 0 .. h - 1 /\ c[i] = b[i] /\ s[i] = r[i]
          BY <1>1, <1>3, <2>3, <4>3
        <5> QED BY <1>2, <1>6, <4>3, <5>1
      <4>4. CASE i <= q
        <5>1. i # h /\ ~ (i > h) /\ ~ (i > q)
          BY <1>1, <4>4
        <5> QED BY <1>3, <5>1
      <4> QED BY <1>1, <4>1, <4>2, <4>3, <4>4
    <3>2. /\ Joined(c, r, q) = [i \in 0 .. N - 1 |-> IF i > q THEN c[i] ELSE r[i]]
          /\ Joined(b, s, h) = [i \in 0 .. N - 1 |-> IF i > h THEN b[i] ELSE s[i]]
      BY <2>1, <2>3 DEF Joined
    <3> QED BY <3>1, <3>2
  <2> QED BY <2>2, <2>5, <2>6
<1> QED BY <1>3, <1>4, <1>5, <1>6, Zenon DEF RiseKept, s

(* add_timer, as far as the array goes.                                    *)
KeepsRoot(a, u, n, t, e) == n > 0 /\ e[a[0]] <= e[t] => u[0] = a[0]

LEMMA PercolateUpKeeps ==
    ASSUME NEW N \in Nat, NEW n \in 0 .. N - 1, NEW a \in [0 .. N - 1 -> Ptr],
           NEW e \in [Timers -> Nat], NEW S, S \subseteq Timers, Holds(a, n, S),
           NEW t \in Timers, t \notin S,
           NEW u, u = PercolateUp(a, n, t, e)
    PROVE  /\ u \in [0 .. N - 1 -> Ptr]
           /\ Holds(u, n + 1, S \cup {t})
           /\ InOrder(a, n, e) => InOrder(u, n + 1, e)
           /\ KeepsRoot(a, u, n, t, e)
<1> DEFINE T == S \cup {t}
<1>1. PICK f : Rises(a, n, t, e, f) /\ PercolateUp(a, n, t, e) = f[n]
  BY PercolateUpRises
<1>2. \A hole \in 0 .. n : f[hole] = RiseFrom(a, t, e, f, hole)
  BY <1>1 DEF Rises
<1>3. \A i \in 0 .. n - 1 : a[i] \in Timers
  BY DEF Holds
<1> DEFINE Kept(h) == RiseKept(a, N, n, t, e, T, f[h], h)
<1>4. ASSUME NEW h \in 0 .. n, h # 0 => Kept(Parent(h))
      PROVE  Kept(h)
  <2>1. CASE h = 0 \/ e[a[Parent(h)]] <= e[t]
    <3>1. f[h] = Put(a, h, t)
      BY <1>2, <2>1 DEF RiseFrom, StaysBelow, Put
    <3> HIDE DEF T
    <3> QED BY <2>1, <3>1, RiseStops
  <2>2. CASE h # 0 /\ ~ (e[a[Parent(h)]] <= e[t])
    <3>1. f[h] = Put(f[Parent(h)], h, a[Parent(h)])
      BY <1>2, <2>2 DEF RiseFrom, StaysBelow, Put
    <3>2. h \in 1 .. n /\ Parent(h) \in 0 .. n - 1
      BY <2>2, ParentIs
    <3>3. e[t] < e[a[Parent(h)]]
      <4>1. a[Parent(h)] \in Timers
        BY <1>3, <3>2
      <4>2. e[t] \in Nat /\ e[a[Parent(h)]] \in Nat
        BY <4>1
      <4> QED BY <2>2, <4>2
    <3>4. RiseKept(a, N, n, t, e, T, f[Parent(h)], Parent(h))
      BY <1>4, <2>2
    <3>5. t \in Timers /\ h \in 1 .. n
      BY <2>2
    <3> HIDE DEF T
    <3> DEFINE r == f[Parent(h)]
    <3> HIDE DEF r
    <3>6. RiseKept(a, N, n, t, e, T, r, Parent(h))
      BY <3>4 DEF r
    <3>7. RiseKept(a, N, n, t, e, T, Put(r, h, a[Parent(h)]), h)
      BY <1>3, <3>3, <3>5, <3>6, RiseGoesOn
    <3> QED BY <3>1, <3>7 DEF r
  <2> QED BY <2>1, <2>2
<1>5. Kept(n)
  <2> SUFFICES ASSUME ~ Kept(n)
               PROVE  FALSE
    OBVIOUS
  <2> DEFINE Bad == {h \in 0 .. n : ~ Kept(h)}
  <2> HIDE DEF Kept
  <2>1. Bad \subseteq Nat /\ Bad # {} /\ n \in Bad
    OBVIOUS
  <2>2. PICK h \in Bad : \A x \in Bad : h <= x
    BY <2>1, Least
  <2>3. h # 0 => Parent(h) \in 0 .. n /\ Parent(h) < h /\ h \in Nat /\ Parent(h) \in Nat
    BY <2>2, ParentIs
  <2>4. h # 0 => Kept(Parent(h))
    BY <2>2, <2>3
  <2> QED BY <1>4, <2>2, <2>4
<1> DEFINE r == f[n]
<1>6. r \in [0 .. N - 1 -> Ptr] /\ \A i \in 0 .. N - 1 : i > n => r[i] = a[i]
  BY <1>5 DEF RiseKept
<1>7. n > 0 /\ e[a[0]] <= e[t] => r[0] = a[0]
  BY <1>5, Zenon DEF RiseKept
<1>8. Fits(a, N, n, n) /\ \A i \in 0 .. n - 1 : a[i] = a[i]
  <2>1. \A i \in 0 .. n : i # n => i \in 0 .. n - 1
    OBVIOUS
  <2> QED BY <1>3, <2>1 DEF Fits
<1>9. /\ Holds(Put(a, n, t), n + 1, T) => Holds(Joined(a, r, n), n + 1, T)
      /\ OrderedBut(a, n, t, n, e) => InOrder(Joined(a, r, n), n + 1, e)
  BY <1>5, <1>8, Zenon DEF RiseKept
<1> HIDE DEF r
<1>10. Joined(a, r, n) = r
  <2>1. Joined(a, r, n) = [i \in 0 .. N - 1 |-> r[i]]
    BY <1>6 DEF Joined
  <2> QED BY <1>6, <2>1
<1>11. \A i \in 0 .. n : Put(a, n, t)[i] = IF i = n THEN t ELSE a[i]
  BY DEF Put
<1>12. Holds(Put(a, n, t), n + 1, T)
  <2> DEFINE v == Put(a, n, t)
  <2>1. v[n] = t /\ n \in 0 .. (n + 1) - 1 /\ \A i \in 0 .. (n + 1) - 1 : i # n => v[i] = a[i] /\ i \in 0 .. n - 1
    BY <1>11
  <2> HIDE DEF v
  <2>2. \A i \in 0 .. (n + 1) - 1 : v[i] \in T /\ (v[i] = t => i = n)
    BY <2>1 DEF Holds
  <2>3. \A i, j \in 0 .. (n + 1) - 1 : v[i] = v[j] => i = j
    BY <2>1, <2>2 DEF Holds
  <2>4. ASSUME NEW x \in T
        PROVE  \E i \in 0 .. (n + 1) - 1 : v[i] = x
    <3>1. CASE x = t
      BY <2>1, <3>1
    <3>2. CASE x # t
      <4>1. PICK i \in 0 .. n - 1 : a[i] = x
        BY <3>2 DEF Holds
      <4>2. i \in 0 .. (n + 1) - 1 /\ i # n
        OBVIOUS
      <4> QED BY <2>1, <4>1, <4>2
    <3> QED BY <3>1, <3>2
  <2> QED BY <2>2, <2>3, <2>4, Zenon DEF Holds, v
<1>13. InOrder(a, n, e) => OrderedBut(a, n, t, n, e)
  <2> SUFFICES ASSUME InOrder(a, n, e)
               PROVE  OrderedBut(a, n, t, n, e)
    OBVIOUS
  <2>1. ASSUME NEW i \in 1 .. n, i # n
        PROVE  e[Put(a, n, t)[Parent(i)]] <= e[Put(a, n, t)[i]]
    <3>1. i \in 1 .. n - 1 /\ i \in 0 .. n /\ Parent(i) \in 0 .. n /\ Parent(i) # n
      BY <2>1, ParentIs
    <3>2. Put(a, n, t)[Parent(i)] = a[Parent(i)] /\ Put(a, n, t)[i] = a[i]
      BY <1>11, <2>1, <3>1
    <3> QED BY <3>1, <3>2 DEF InOrder
  <2>2. \A i \in 1 .. n : Parent(i) # n
    BY ParentIs
  <2> HIDE DEF Put
  <2> QED BY <2>1, <2>2 DEF OrderedBut
<1> QED BY <1>1, <1>6, <1>7, <1>9, <1>10, <1>12, <1>13 DEF r, KeepsRoot
-----------------------------------------------------------------------------
(* The loop of percolate_down: what it makes of the array a from each hole *)
(* on.                                                                     *)
Safe(a, size, live, hole) == \A i \in Read(hole, size) : i \in DOMAIN a /\ a[i] \in live

SiftFrom(a, size, start, live, e, f, hole) ==
    IF Continues(hole, size) /\ ~ Safe(a, size, live, hole) THEN Wreck
    ELSE IF Continues(hole, size) /\ e[a[hole]] > e[a[Child(a, hole, size, e)]]
         THEN IF f[Child(a, hole, size, e)] = Wreck THEN Wreck
              ELSE Put(f[Child(a, hole, size, e)], hole, a[Child(a, hole, size, e)])
         ELSE Put(a, hole, a[start])

Sifts(a, size, start, live, e, f) ==
    f = [hole \in Nat |-> SiftFrom(a, size, start, live, e, f, hole)]

LEMMA ChildIs ==
    ASSUME NEW a, NEW size, NEW e, NEW hole \in Nat
    PROVE  /\ Child(a, hole, size, e) \in Nat /\ hole < Child(a, hole, size, e)
           /\ Child(a, hole, size, e) \in Read(hole, size)
BY DEF Child, Read

(* The loop ends, at the latest behind the array: there is such a          *)
(* function, and PercolateDown takes it.                                   *)
LEMMA SiftExists ==
    ASSUME NEW N \in Nat \ {0}, NEW a, DOMAIN a = 0 .. N - 1,
           NEW size, NEW start, NEW live, NEW e
    PROVE  \E f : Sifts(a, size, start, live, e, f)
<1> DEFINE From(f, hole) == SiftFrom(a, size, start, live, e, f, hole)
           Downto(f, k) == \A hole \in Nat : hole >= N - k => f[hole] = From(f, hole)
           D == {k \in Nat : \E f : Downto(f, k)}
           child(hole) == Child(a, hole, size, e)
<1>1. 0 \in D
  <2> DEFINE f == [hole \in Nat |-> Wreck]
  <2>1. ASSUME NEW hole \in Nat, hole >= N
        PROVE  From(f, hole) = Wreck
    <3>1. hole > 0 /\ hole \notin 0 .. N - 1 /\ hole \in Read(hole, size)
      BY <2>1 DEF Read
    <3> QED BY <3>1 DEF SiftFrom, Continues, Safe
  <2> HIDE DEF From
  <2>2. Downto(f, 0)
    BY <2>1
  <2> QED BY <2>2
<1>2. ASSUME NEW k \in Nat, k \in D
      PROVE  k + 1 \in D
  <2>1. PICK f : Downto(f, k)
    BY <1>2
  <2> DEFINE g == [hole \in Nat |-> IF hole = N - (k + 1) THEN From(f, hole) ELSE f[hole]]
  <2>2. ASSUME NEW hole \in Nat, hole >= N - (k + 1)
        PROVE  g[hole] = From(g, hole)
    <3>1. g[hole] = From(f, hole)
      <4>1. CASE hole = N - (k + 1)
        BY <4>1
      <4>2. CASE hole # N - (k + 1)
        <5>1. hole >= N - k
          BY <2>2, <4>2
        <5>2. g[hole] = f[hole]
          BY <4>2
        <5> HIDE DEF From, g
        <5> QED BY <2>1, <5>1, <5>2
      <4> QED BY <4>1, <4>2
    <3>2. g[child(hole)] = f[child(hole)]
      <4>1. child(hole) \in Nat /\ hole < child(hole)
        BY ChildIs
      <4> HIDE DEF child
      <4>2. child(hole) # N - (k + 1)
        BY <2>2, <4>1
      <4> QED BY <4>1, <4>2
    <3> HIDE DEF g
    <3> QED BY <3>1, <3>2 DEF SiftFrom
  <2>3. Downto(g, k + 1)
    BY <2>2
  <2> HIDE DEF g, Downto
  <2> QED BY <2>3
<1>3. N \in D
  <2> HIDE DEF D
  <2> QED BY <1>1, <1>2, SetInduction
<1>4. PICK f : Downto(f, N)
  BY <1>3
<1> DEFINE g == [hole \in Nat |-> f[hole]]
<1>5. ASSUME NEW hole \in Nat
      PROVE  g[hole] = From(g, hole)
  <2>1. f[hole] = From(f, hole)
    <3>1. hole >= N - N
      OBVIOUS
    <3> HIDE DEF From
    <3> QED BY <1>4, <3>1
  <2>2. g[child(hole)] = f[child(hole)]
    BY ChildIs
  <2>3. g[hole] = f[hole]
    OBVIOUS
  <2> HIDE DEF g
  <2> QED BY <2>1, <2>2, <2>3 DEF SiftFrom
<1>6. g = [hole \in Nat |-> From(g, hole)]
  <2> HIDE DEF From
  <2> QED BY <1>5
<1> QED BY <1>6, Zenon DEF Sifts

LEMMA PercolateDownSifts ==
    ASSUME NEW N \in Nat \ {0}, NEW a, DOMAIN a = 0 .. N - 1,
           NEW size, NEW start, NEW live, NEW e
    PROVE  \E f : /\ Sifts(a, size, start, live, e, f)
                  /\ PercolateDown(a, size, start, live, e) = f[start]
<1> DEFINE sift == CHOOSE f : f = [hole \in Nat |->
               IF Continues(hole, size) /\ ~ (\A i \in Read(hole, size) : i \in DOMAIN a /\ a[i] \in live)
               THEN Wreck
               ELSE IF Continues(hole, size) /\ e[a[hole]] > e[a[Child(a, hole, size, e)]]
                    THEN IF f[Child(a, hole, size, e)] = Wreck THEN Wreck
                         ELSE [f[Child(a, hole, size, e)] EXCEPT ![hole] = a[Child(a, hole, size, e)]]
                    ELSE [a EXCEPT ![hole] = a[start]]]
<1>1. Sifts(a, size, start, live, e, sift)
  <2>1. PICK f : Sifts(a, size, start, live, e, f)
    BY SiftExists
  <2>2. f = [hole \in Nat |->
               IF Continues(hole, size) /\ ~ (\A i \in Read(hole, size) : i \in DOMAIN a /\ a[i] \in live)
               THEN Wreck
               ELSE IF Continues(hole, size) /\ e[a[hole]] > e[a[Child(a, hole, size, e)]]
                    THEN IF f[Child(a, hole, size, e)] = Wreck THEN Wreck
                         ELSE [f[Child(a, hole, size, e)] EXCEPT ![hole] = a[Child(a, hole, size, e)]]
                    ELSE [a EXCEPT ![hole] = a[start]]]
    BY <2>1, Zenon DEF Sifts, SiftFrom, Safe, Put
  <2> QED BY <2>2, Zenon DEF Sifts, SiftFrom, Safe, Put
<1>2. PercolateDown(a, size, start, live, e) = sift[start]
  BY Zenon DEF PercolateDown
<1> HIDE DEF sift
<1> QED BY <1>1, <1>2

(* The entries above h as in b, the others as the loop leaves them.        *)
Above(b, r, h) == [i \in DOMAIN b |-> IF i < h THEN b[i] ELSE r[i]]

(* What the loop makes of the timers S on a heap of size entries, with the *)
(* timer x that sinks: a step to an entry behind the last shows.           *)
SiftKept(a, N, size, x, e, S, r, h) ==
    /\ r \in [0 .. N - 1 -> Ptr]
    /\ \A i \in 0 .. N - 1 : i < h => r[i] = a[i]
    /\ e[a[h]] < e[x] => r[h] # a[h]
    /\ h < size /\ e[a[h]] <= e[x] /\ (\A i \in 0 .. N - 1 : i >= size => r[i] = a[i]) =>
          \A b \in [0 .. N - 1 -> Ptr] :
              (\A i \in 0 .. N - 1 : i > h => b[i] = a[i]) /\ Holds(Put(b, h, x), size, S)
                 => Holds(Above(b, r, h), size, S)

(* Where the loop ends.                                                    *)
LEMMA SiftStops ==
    ASSUME NEW N \in Nat, NEW size, NEW a \in [0 .. N - 1 -> Ptr],
           NEW e \in [Timers -> Nat], NEW x \in Timers, NEW S, NEW h \in 0 .. N - 1
    PROVE  SiftKept(a, N, size, x, e, S, Put(a, h, x), h)
<1> DEFINE r == Put(a, h, x)
<1>1. r \in [0 .. N - 1 -> Ptr] /\ \A i \in 0 .. N - 1 : r[i] = IF i = h THEN x ELSE a[i]
  BY DEF Put, Ptr
<1> HIDE DEF r
<1>2. \A i \in 0 .. N - 1 : i < h => r[i] = a[i]
  BY <1>1
<1>3. e[a[h]] < e[x] => r[h] # a[h]
  <2>1. r[h] = x /\ e[x] \in Nat
    BY <1>1
  <2> QED BY <2>1
<1>4. ASSUME NEW b \in [0 .. N - 1 -> Ptr], \A i \in 0 .. N - 1 : i > h => b[i] = a[i]
      PROVE  Above(b, r, h) = Put(b, h, x)
  <2>1. \A i \in 0 .. N - 1 : (IF i < h THEN b[i] ELSE r[i]) = IF i = h THEN x ELSE b[i]
    BY <1>1, <1>4
  <2>2. Above(b, r, h) = [i \in 0 .. N - 1 |-> IF i < h THEN b[i] ELSE r[i]]
    BY DEF Above
  <2>3. Put(b, h, x) = [i \in 0 .. N - 1 |-> IF i = h THEN x ELSE b[i]]
    BY DEF Put
  <2> QED BY <2>1, <2>2, <2>3
<1> QED BY <1>1, <1>2, <1>3, <1>4, Zenon DEF SiftKept, r

(* Where it goes on to the child c of h.                                   *)
LEMMA SiftGoesOn ==
    ASSUME NEW N \in Nat, NEW size \in 0 .. N, NEW a \in [0 .. N - 1 -> Ptr],
           NEW e \in [Timers -> Nat], NEW x \in Timers, NEW S,
           NEW h \in 0 .. N - 1, NEW c \in 0 .. N - 1, h < c,
           a[h] \in Timers, a[c] \in Timers, e[a[h]] > e[a[c]],
           NEW r, SiftKept(a, N, size, x, e, S, r, c)
    PROVE  SiftKept(a, N, size, x, e, S, Put(r, h, a[c]), h)
<1> DEFINE s == Put(r, h, a[c])
<1>1. r \in [0 .. N - 1 -> Ptr] /\ \A i \in 0 .. N - 1 : i < c => r[i] = a[i]
  BY DEF SiftKept
<1>2. s \in [0 .. N - 1 -> Ptr] /\ \A i \in 0 .. N - 1 : s[i] = IF i = h THEN a[c] ELSE r[i]
  BY <1>1 DEF Put, Ptr
<1> HIDE DEF s
<1>3. \A i \in 0 .. N - 1 : i < h => s[i] = a[i]
  BY <1>1, <1>2
<1>4. e[a[h]] \in Nat /\ e[a[c]] \in Nat /\ e[x] \in Nat /\ e[a[c]] < e[a[h]]
  OBVIOUS
<1>5. s[h] # a[h]
  <2>1. s[h] = a[c]
    BY <1>2
  <2> QED BY <1>4, <2>1
<1>6. ASSUME h < size, e[a[h]] <= e[x], \A i \in 0 .. N - 1 : i >= size => s[i] = a[i],
             NEW b \in [0 .. N - 1 -> Ptr], \A i \in 0 .. N - 1 : i > h => b[i] = a[i],
             Holds(Put(b, h, x), size, S)
      PROVE  Holds(Above(b, s, h), size, S)
  <2> DEFINE d == Put(b, h, a[c])
  <2>1. e[a[c]] <= e[x] /\ e[a[c]] < e[x]
    BY <1>4, <1>6
  <2>2. r[c] # a[c]
    BY <2>1, Zenon DEF SiftKept
  <2>3. c < size
    BY <1>2, <1>6, <2>2
  <2>4. \A i \in 0 .. N - 1 : i >= size => r[i] = a[i]
    BY <1>2, <1>6
  <2>5. d \in [0 .. N - 1 -> Ptr] /\ \A i \in 0 .. N - 1 : d[i] = IF i = h THEN a[c] ELSE b[i]
    BY DEF Put
  <2>6. \A i \in 0 .. N - 1 : /\ Put(b, h, x)[i] = IF i = h THEN x ELSE b[i]
                              /\ Put(d, c, x)[i] = IF i = c THEN x ELSE IF i = h THEN a[c] ELSE b[i]
    BY <2>5 DEF Put
  <2> HIDE DEF d
  <2>7. \A i \in 0 .. N - 1 : i > c => d[i] = a[i]
    BY <1>6, <2>5
  <2>8. Holds(Put(d, c, x), size, S)
    <3> DEFINE u == Put(b, h, x)
               v == Put(d, c, x)
    <3>1. /\ h \in 0 .. size - 1 /\ c \in 0 .. size - 1 /\ size \in Nat /\ h # c
          /\ b[c] = a[c] /\ \A k \in 0 .. size - 1 : k \in 0 .. N - 1
      BY <1>6, <2>3
    <3>2. \A i \in 0 .. N - 1 : /\ u[i] = IF i = h THEN x ELSE b[i]
                                /\ v[i] = IF i = c THEN x ELSE IF i = h THEN a[c] ELSE b[i]
      BY <2>6
    <3> HIDE DEF u, v
    <3>3. v[h] = u[c] /\ v[c] = u[h]
      BY <3>1, <3>2
    <3>4. \A k \in 0 .. size - 1 : k # h /\ k # c => v[k] = u[k]
      BY <3>1, <3>2
    <3>5. Holds(u, size, S)
      BY <1>6 DEF u
    <3>6. Holds(v, size, S)
      BY <3>1, <3>3, <3>4, <3>5, SwapHolds
    <3> QED BY <3>6 DEF v
  <2>9. Holds(Above(d, r, c), size, S)
    BY <2>1, <2>3, <2>4, <2>5, <2>7, <2>8, Zenon DEF SiftKept
  <2>10. Above(d, r, c) = Above(b, s, h)
    <3>1. ASSUME NEW i \in 0 .. N - 1
          PROVE  (IF i < c THEN d[i] ELSE r[i]) = IF i < h THEN b[i] ELSE s[i]
      <4>1. CASE i < h
        BY <2>5, <4>1
      <4>2. CASE i = h
        BY <1>2, <2>5, <4>2
      <4>3. CASE h < i /\ i < c
        <5>1. d[i] = b[i] /\ b[i] = a[i] /\ s[i] = r[i] /\ r[i] = a[i] /\ ~ (i < h)
          BY <1>1, <1>2, <1>6, <2>5, <4>3
        <5> QED BY <4>3, <5>1
      <4>4. CASE i >= c
        <5>1. s[i] = r[i] /\ ~ (i < h) /\ ~ (i < c)
          BY <1>2, <4>4
        <5> QED BY <5>1
      <4> QED BY <4>1, <4>2, <4>3, <4>4
    <3>2. /\ Above(d, r, c) = [i \in 0 .. N - 1 |-> IF i < c THEN d[i] ELSE r[i]]
          /\ Above(b, s, h) = [i \in 0 .. N - 1 |-> IF i < h THEN b[i] ELSE s[i]]
      BY <2>5 DEF Above
    <3> QED BY <3>1, <3>2
  <2> QED BY <2>9, <2>10
<1> QED BY <1>2, <1>3, <1>5, <1>6, Zenon DEF SiftKept, s

(* percolate_down, as far as the array goes: where it comes to an end and  *)
(* moves nothing from behind the last timer, it keeps the timers.          *)
LEMMA PercolateDownKeeps ==
    ASSUME NEW N \in Nat \ {0}, NEW size \in 1 .. N, NEW a \in [0 .. N - 1 -> Ptr],
           NEW e \in [Timers -> Nat], NEW S, S \subseteq Timers, Holds(a, size, S),
           NEW r, r = PercolateDown(a, size, 0, S, e), r # Wreck
    PROVE  /\ r \in [0 .. N - 1 -> Ptr]
           /\ ~ GoesAstray(a, r, size) => Holds(r, size, S)
<1> DEFINE x == a[0]
<1>1. 0 \in 0 .. N - 1 /\ 0 \in 0 .. size - 1 /\ x \in S /\ x \in Timers /\ e[x] \in Nat
  BY DEF Holds
<1>2. PICK f : Sifts(a, size, 0, S, e, f) /\ PercolateDown(a, size, 0, S, e) = f[0]
  BY PercolateDownSifts
<1>3. \A hole \in Nat : f[hole] = SiftFrom(a, size, 0, S, e, f, hole)
  BY <1>2 DEF Sifts
<1> HIDE DEF x
<1> DEFINE Kept(h) == f[h] = Wreck \/ SiftKept(a, N, size, x, e, S, f[h], h)
<1>4. ASSUME NEW h \in Nat, Kept(Child(a, h, size, e))
      PROVE  Kept(h)
  <2> DEFINE c == Child(a, h, size, e)
  <2> SUFFICES ASSUME f[h] # Wreck
               PROVE  SiftKept(a, N, size, x, e, S, f[h], h)
    OBVIOUS
  <2>1. c \in Nat /\ h < c /\ c \in Read(h, size) /\ h \in Read(h, size) /\ Continues(h, size)
    BY ChildIs DEF Read, Continues
  <2>2. Safe(a, size, S, h)
    BY <1>3, <2>1 DEF SiftFrom
  <2>3. h \in 0 .. N - 1 /\ c \in 0 .. N - 1 /\ a[h] \in Timers /\ a[c] \in Timers
    BY <2>1, <2>2 DEF Safe
  <2> HIDE DEF c
  <2>4. CASE e[a[h]] > e[a[c]]
    <3>1. f[c] # Wreck /\ f[h] = Put(f[c], h, a[c])
      BY <1>3, <2>1, <2>2, <2>4 DEF SiftFrom, c
    <3>2. SiftKept(a, N, size, x, e, S, f[c], c)
      BY <1>4, <3>1 DEF c
    <3> DEFINE r1 == f[c]
    <3> HIDE DEF r1
    <3>3. SiftKept(a, N, size, x, e, S, r1, c)
      BY <3>2 DEF r1
    <3>4. N \in Nat /\ size \in 0 .. N /\ h < c /\ x \in Timers
      BY <1>1, <2>1
    <3>5. SiftKept(a, N, size, x, e, S, Put(r1, h, a[c]), h)
      BY <2>3, <2>4, <3>3, <3>4, SiftGoesOn
    <3> QED BY <3>1, <3>5 DEF r1
  <2>5. CASE ~ (e[a[h]] > e[a[c]])
    <3>1. f[h] = Put(a, h, x)
      BY <1>3, <2>1, <2>2, <2>5 DEF SiftFrom, c, x
    <3> QED BY <1>1, <2>3, <3>1, SiftStops
  <2> QED BY <2>4, <2>5
<1>5. ASSUME NEW h \in Nat, h >= N
      PROVE  Kept(h)
  <2>1. h \in Read(h, size) /\ h \notin 0 .. N - 1 /\ Continues(h, size)
    BY <1>5 DEF Read, Continues
  <2> QED BY <1>3, <2>1 DEF SiftFrom, Safe
<1>6. Kept(0)
  <2> DEFINE D == {k \in Nat : \A h \in Nat : h >= N - k => Kept(h)}
  <2> HIDE DEF Kept
  <2>1. 0 \in D
    BY <1>5
  <2>2. ASSUME NEW k \in Nat, k \in D
        PROVE  k + 1 \in D
    <3>1. ASSUME NEW h \in Nat, h >= N - (k + 1)
          PROVE  Kept(h)
      <4> DEFINE c == Child(a, h, size, e)
      <4>1. c \in Nat /\ h < c
        BY ChildIs
      <4> HIDE DEF c
      <4>2. c >= N - k
        BY <3>1, <4>1
      <4>3. Kept(c)
        BY <2>2, <4>1, <4>2
      <4> QED BY <1>4, <4>3 DEF c
    <3> QED BY <3>1
  <2>3. N \in D
    <3> HIDE DEF D
    <3> QED BY <2>1, <2>2, SetInduction
  <2>4. 0 \in Nat /\ 0 >= N - N
    OBVIOUS
  <2> QED BY <2>3, <2>4
<1>7. SiftKept(a, N, size, x, e, S, r, 0)
  BY <1>2, <1>6
<1>8. r \in [0 .. N - 1 -> Ptr]
  BY <1>7 DEF SiftKept
<1>9. ASSUME ~ GoesAstray(a, r, size)
      PROVE  Holds(r, size, S)
  <2>1. \A i \in 0 .. N - 1 : i >= size => r[i] = a[i]
    BY <1>9 DEF GoesAstray
  <2>2. Put(a, 0, x) = a
    BY DEF Put, x
  <2>3. 0 < size /\ e[a[0]] <= e[x]
    BY <1>1 DEF x
  <2>4. Holds(Above(a, r, 0), size, S)
    <3>1. Holds(Put(a, 0, x), size, S)
      BY <2>2
    <3> QED BY <1>7, <2>1, <2>3, <3>1, Zenon DEF SiftKept
  <2>5. Above(a, r, 0) = r
    <3>1. Above(a, r, 0) = [i \in 0 .. N - 1 |-> r[i]]
      BY DEF Above
    <3> QED BY <1>8, <3>1
  <2> QED BY <2>4, <2>5
<1> QED BY <1>8, <1>9

-----------------------------------------------------------------------------
(* No deadline of a heap in order is before that of the root, and none but *)
(* the root's is before those of both its children.                        *)
LEMMA RootIsEarliest ==
    ASSUME NEW n \in Nat, NEW a, NEW e \in [Timers -> Nat],
           \A i \in 0 .. n - 1 : a[i] \in Timers, InOrder(a, n, e)
    PROVE  \A i \in 0 .. n - 1 : e[a[0]] <= e[a[i]]
<1> DEFINE Bad == {i \in 0 .. n - 1 : ~ (e[a[0]] <= e[a[i]])}
<1> SUFFICES ASSUME Bad # {}
             PROVE  FALSE
  OBVIOUS
<1>1. PICK i \in Bad : \A j \in Bad : i <= j
  <2>1. Bad \subseteq Nat
    OBVIOUS
  <2> HIDE DEF Bad
  <2> QED BY <2>1, Least
<1>2. i \in 0 .. n - 1 /\ e[a[0]] \in Nat /\ e[a[i]] \in Nat /\ i # 0
  BY <1>1
<1>3. Parent(i) \in 0 .. n - 1 /\ Parent(i) < i /\ i \in 1 .. n - 1
  BY <1>2, ParentIs
<1>4. e[a[0]] <= e[a[Parent(i)]] /\ e[a[Parent(i)]] \in Nat
  BY <1>1, <1>3
<1>5. e[a[Parent(i)]] <= e[a[i]]
  BY <1>3 DEF InOrder
<1> QED BY <1>1, <1>2, <1>4, <1>5

LEMMA ChildrenComeNext ==
    ASSUME NEW n \in Nat, NEW a, NEW e \in [Timers -> Nat],
           \A i \in 0 .. n - 1 : a[i] \in Timers, InOrder(a, n, e)
    PROVE  \A i \in 1 .. n - 1 : e[a[1]] <= e[a[i]] \/ (2 <= n - 1 /\ e[a[2]] <= e[a[i]])
<1> DEFINE Good(i) == e[a[1]] <= e[a[i]] \/ (2 <= n - 1 /\ e[a[2]] <= e[a[i]])
           Bad == {i \in 1 .. n - 1 : ~ Good(i)}
<1> SUFFICES ASSUME Bad # {}
             PROVE  FALSE
  OBVIOUS
<1>1. PICK i \in Bad : \A j \in Bad : i <= j
  <2>1. Bad \subseteq Nat
    OBVIOUS
  <2> HIDE DEF Bad
  <2> QED BY <2>1, Least
<1>2. i \in 1 .. n - 1 /\ e[a[i]] \in Nat
  BY <1>1
<1>3. i # 1 /\ i # 2
  BY <1>1, <1>2
<1>4. Parent(i) \in 1 .. n - 1 /\ Parent(i) < i
  BY <1>2, <1>3 DEF Parent
<1>5. Good(Parent(i))
  BY <1>1, <1>4
<1>6. e[a[Parent(i)]] <= e[a[i]]
  BY <1>2 DEF InOrder
<1>7. e[a[Parent(i)]] \in Nat /\ e[a[1]] \in Nat /\ (2 <= n - 1 => e[a[2]] \in Nat)
  BY <1>4
<1> QED BY <1>1, <1>2, <1>5, <1>6, <1>7

(* pop() before it sifts: the last timer takes the place of the root.      *)
LEMMA RootLeaves ==
    ASSUME NEW N \in Nat \ {0}, NEW n \in 1 .. N, NEW b \in [0 .. N - 1 -> Ptr],
           NEW S, S \subseteq Timers, Holds(b, n, S)
    PROVE  /\ Put(b, 0, b[n - 1]) \in [0 .. N - 1 -> Ptr]
           /\ b[0] \in S
           /\ Holds(Put(b, 0, b[n - 1]), n - 1, S \ {b[0]})
<1> DEFINE a == Put(b, 0, b[n - 1])
           T == S \ {b[0]}
<1>1. 0 \in 0 .. N - 1 /\ 0 \in 0 .. n - 1 /\ n - 1 \in 0 .. N - 1 /\ n - 1 \in 0 .. n - 1
      /\ \A i \in 0 .. n - 1 : i \in 0 .. N - 1
  OBVIOUS
<1>2. /\ a \in [0 .. N - 1 -> Ptr]
      /\ \A i \in 0 .. n - 1 : a[i] = IF i = 0 THEN b[n - 1] ELSE b[i]
  BY <1>1 DEF Put
<1>3. b[0] \in S
  BY <1>1 DEF Holds
<1> HIDE DEF a
<1>4. \A i \in 0 .. (n - 1) - 1 : /\ i \in 0 .. n - 1 /\ i # n - 1 /\ 0 # n - 1
                                  /\ a[i] = IF i = 0 THEN b[n - 1] ELSE b[i]
  BY <1>2
<1>5. \A i \in 0 .. (n - 1) - 1 : a[i] \in T
  BY <1>1, <1>4 DEF Holds
<1>6. \A i, j \in 0 .. (n - 1) - 1 : a[i] = a[j] => i = j
  BY <1>1, <1>4 DEF Holds
<1>7. ASSUME NEW t \in T
      PROVE  \E i \in 0 .. (n - 1) - 1 : a[i] = t
  <2>1. PICK k \in 0 .. n - 1 : b[k] = t
    BY DEF Holds
  <2>2. k # 0
    BY <2>1
  <2>3. CASE k = n - 1
    <3>1. 0 \in 0 .. (n - 1) - 1
      BY <2>2, <2>3
    <3>2. a[0] = t
      BY <1>4, <2>1, <2>3, <3>1
    <3> QED BY <3>1, <3>2
  <2>4. CASE k # n - 1
    <3>1. k \in 0 .. (n - 1) - 1
      BY <2>4
    <3> QED BY <1>4, <2>1, <2>2, <3>1
  <2> QED BY <2>3, <2>4
<1>8. Holds(a, n - 1, T)
  BY <1>5, <1>6, <1>7, Zenon DEF Holds
<1> QED BY <1>2, <1>3, <1>8 DEF a

(* pop() of a heap in order: the last timer sinks by one entry at most,    *)
(* since no timer there is comes before the one that took the root.        *)
LEMMA PopOfOrdered ==
    ASSUME NEW N \in Nat \ {0}, NEW n \in 1 .. N, NEW b \in [0 .. N - 1 -> Ptr],
           NEW S, S \subseteq Timers, Holds(b, n, S),
           NEW e \in [Timers -> Nat], InOrder(b, n, e),
           NEW a, a = Put(b, 0, b[n - 1]),
           NEW T, T = S \ {b[0]},
           NEW d, d = Put(e, b[0], 0),
           NEW r, r = PercolateDown(a, n - 1, 0, T, d), r # Wreck
    PROVE  /\ ~ GoesAstray(a, r, n - 1)
           /\ \A t \in T : d[r[0]] <= d[t]
<1> DEFINE size == n - 1
           x == a[0]
           c == Child(a, 0, size, d)
<1>1. a \in [0 .. N - 1 -> Ptr] /\ b[0] \in S /\ Holds(a, size, T) /\ T \subseteq Timers
  BY RootLeaves
<1>2. PICK f : Sifts(a, size, 0, T, d, f) /\ PercolateDown(a, size, 0, T, d) = f[0]
  BY <1>1, PercolateDownSifts
<1>3. \A hole \in Nat : f[hole] = SiftFrom(a, size, 0, T, d, f, hole)
  BY <1>2 DEF Sifts
<1>4. r = f[0] /\ f[0] # Wreck
  BY <1>2
<1>5. size \in Nat /\ size \in 0 .. N - 1 /\ 0 \in 0 .. N - 1 /\ n \in Nat
  OBVIOUS
<1>6. Put(a, 0, x) = a
  BY <1>1 DEF Put
<1>7. ~ GoesAstray(a, a, size)
  BY DEF GoesAstray
<1>8. CASE size = 0
  <2>1. f[0] = Put(a, 0, x)
    BY <1>3, <1>8 DEF SiftFrom, Continues
  <2>2. \A t \in T : FALSE
    BY <1>1, <1>8 DEF Holds
  <2> QED BY <1>4, <1>6, <1>7, <2>1, <2>2
<1>9. CASE size # 0
  <2>1. \A i \in 0 .. N - 1 : a[i] = IF i = 0 THEN b[size] ELSE b[i]
    BY DEF Put
  <2>2. \A i \in 0 .. n - 1 : b[i] \in Timers
    BY DEF Holds
  <2>3. \A t \in T : d[t] = e[t] /\ d[t] \in Nat
    BY <1>1 DEF Put
  <2>4. x \in T /\ a[size] = x
    <3>1. 0 \in 0 .. size - 1
      BY <1>5, <1>9
    <3> QED BY <1>1, <1>5, <1>9, <2>1, <3>1 DEF Holds
  <2>5. Continues(0, size) /\ Safe(a, size, T, 0)
    <3>1. Continues(0, size)
      BY <1>5, <1>9 DEF Continues
    <3> QED BY <1>3, <1>4, <3>1 DEF SiftFrom
  <2>6. 0 \in Nat /\ c \in Nat /\ 0 < c /\ c \in Read(0, size)
    BY ChildIs
  <2>7. c \in 0 .. N - 1 /\ a[c] \in T
    BY <1>1, <2>5, <2>6 DEF Safe
  <2> HIDE DEF x, c, size
  <2>8. /\ 1 <= size - 1 => c \in {1, 2} /\ a[1] \in T /\ a[2] \in T /\ d[a[c]] <= d[a[1]] /\ d[a[c]] <= d[a[2]]
        /\ size = 1 => c = 1
        /\ c <= size
    <3>1. Read(0, size) = {0, 1} \cup IF 1 <= size - 1 THEN {2} ELSE {}
      BY DEF Read
    <3>2. 1 \in Read(0, size) /\ (1 <= size - 1 => 2 \in Read(0, size))
      BY <3>1
    <3>3. a[1] \in T /\ (1 <= size - 1 => a[2] \in T)
      BY <2>5, <3>2 DEF Safe
    <3>4. c = IF 1 <= size - 1 /\ d[a[2]] < d[a[1]] THEN 2 ELSE 1
      BY DEF Child, c
    <3>5. d[a[1]] \in Nat /\ (1 <= size - 1 => d[a[2]] \in Nat)
      BY <2>3, <3>3
    <3> QED BY <1>5, <1>9, <3>3, <3>4, <3>5
  <2>9. \A t \in T : d[a[c]] <= d[t]
    <3> SUFFICES ASSUME NEW t \in T
                 PROVE  d[a[c]] <= d[t]
      OBVIOUS
    <3>1. PICK i \in 0 .. n - 1 : b[i] = t
      BY DEF Holds
    <3>2. i \in 1 .. n - 1 /\ i \in 0 .. N - 1
      BY <3>1
    <3>3. e[b[1]] <= e[b[i]] \/ (2 <= n - 1 /\ e[b[2]] <= e[b[i]])
      BY <1>5, <2>2, <3>2, ChildrenComeNext
    <3>4. CASE size = 1
      <4>1. a[c] = t
        BY <2>1, <2>4, <2>8, <3>1, <3>2, <3>4 DEF size
      <4> QED BY <2>3, <4>1
    <3>5. CASE size # 1
      <4>1. 1 <= size - 1 /\ 1 \in 0 .. N - 1 /\ 2 \in 0 .. N - 1
        BY <1>5, <1>9, <3>5
      <4>2. a[1] = b[1] /\ a[2] = b[2]
        BY <2>1, <4>1
      <4>3. /\ a[1] \in T /\ a[2] \in T /\ a[c] \in T
            /\ d[a[c]] <= d[a[1]] /\ d[a[c]] <= d[a[2]]
        BY <2>7, <2>8, <4>1
      <4>4. d[a[1]] <= d[t] \/ d[a[2]] <= d[t]
        <5>1. d[a[1]] = e[a[1]] /\ d[a[2]] = e[a[2]] /\ d[t] = e[t]
          BY <2>3, <4>3, Zenon
        <5>2. d[a[1]] = e[b[1]] /\ d[a[2]] = e[b[2]] /\ d[t] = e[b[i]]
          BY <3>1, <4>2, <5>1, Zenon
        <5> HIDE DEF size
        <5> QED BY <3>3, <5>2, Zenon
      <4>5. d[a[1]] \in Nat /\ d[a[2]] \in Nat /\ d[a[c]] \in Nat /\ d[t] \in Nat
        BY <2>3, <4>3
      <4>6. \A x1, x2, x3 \in Nat : x1 <= x2 /\ x2 <= x3 => x1 <= x3
        OBVIOUS
      <4> QED BY <4>3, <4>4, <4>5, <4>6, Zenon
    <3> QED BY <3>4, <3>5
  <2>10. CASE d[a[0]] > d[a[c]]
    <3>1. f[c] # Wreck /\ r = Put(f[c], 0, a[c])
      BY <1>3, <1>4, <2>5, <2>10 DEF SiftFrom, c
    <3>2. c < size
      <4>1. a[c] # x
        BY <2>3, <2>4, <2>7, <2>10 DEF x
      <4>2. c # size
        BY <2>4, <4>1
      <4> QED BY <1>5, <2>6, <2>8, <4>2
    <3>3. f[c] = Put(a, c, x)
      <4> DEFINE g == Child(a, c, size, d)
      <4>1. Continues(c, size) /\ g \in Read(c, size)
        BY <2>6, ChildIs DEF Continues
      <4>2. Safe(a, size, T, c)
        BY <1>3, <2>6, <3>1, <4>1 DEF SiftFrom
      <4>3. a[g] \in T
        BY <4>1, <4>2 DEF Safe
      <4>4. ~ (d[a[c]] > d[a[g]])
        BY <2>3, <2>7, <2>9, <4>3
      <4>5. f[c] = SiftFrom(a, size, 0, T, d, f, c)
        BY <1>3, <2>6
      <4> HIDE DEF Continues, Safe
      <4> QED BY <4>1, <4>2, <4>4, <4>5 DEF SiftFrom, x
    <3>4. \A i \in 0 .. N - 1 : r[i] = IF i = 0 THEN a[c] ELSE IF i = c THEN x ELSE a[i]
      BY <1>1, <2>7, <3>1, <3>3 DEF Put
    <3>5. ~ GoesAstray(a, r, size)
      <4>1. ASSUME NEW i \in 0 .. N - 1, i >= size
            PROVE  r[i] = a[i]
        <5>1. i # 0 /\ i # c
          BY <1>5, <2>6, <3>2, <4>1
        <5> QED BY <3>4, <5>1
      <4>2. DOMAIN a = 0 .. N - 1
        BY <1>1
      <4> QED BY <4>1, <4>2 DEF GoesAstray
    <3>6. r[0] = a[c]
      BY <1>5, <3>4
    <3> QED BY <2>9, <3>5, <3>6 DEF size
  <2>11. CASE ~ (d[a[0]] > d[a[c]])
    <3>1. r = Put(a, 0, x)
      BY <1>3, <1>4, <2>5, <2>11 DEF SiftFrom, c, x
    <3>2. r = a /\ r[0] = x
      BY <1>6, <3>1 DEF x
    <3>3. d[x] <= d[a[c]] /\ d[x] \in Nat /\ d[a[c]] \in Nat
      BY <2>3, <2>4, <2>7, <2>11 DEF x
    <3>4. \A t \in T : d[x] <= d[t]
      BY <2>3, <2>9, <3>3
    <3> QED BY <1>7, <3>2, <3>4 DEF size
  <2> QED BY <2>10, <2>11
<1> QED BY <1>8, <1>9

-----------------------------------------------------------------------------
(* The constructor from an array has come to an end of percolate_down only *)
(* where it never called it: its first call starts at the parent of the    *)
(* last timer, and reads behind that timer, where the array ends.          *)
LEMMA FirstSiftOverruns ==
    ASSUME NEW size \in Nat, size >= 3, NEW a, DOMAIN a = 0 .. size - 1, NEW live, NEW e
    PROVE  PercolateDown(a, size, (size - 1) \div 2, live, e) = Wreck
<1> DEFINE half == (size - 1) \div 2
<1>1. half \in Nat /\ half > 0 /\ (size = 2 * half + 1 \/ size = 2 * half + 2)
  OBVIOUS
<1>2. PICK f : /\ Sifts(a, size, half, live, e, f)
               /\ PercolateDown(a, size, half, live, e) = f[half]
  <2>1. size \in Nat \ {0}
    OBVIOUS
  <2> HIDE DEF half
  <2> QED BY <2>1, PercolateDownSifts
<1> HIDE DEF half
<1>3. Continues(half, size)
  BY <1>1 DEF Continues
<1>4. size \in Read(half, size) /\ size \notin 0 .. size - 1
  <2>1. CASE size = 2 * half + 1
    BY <2>1 DEF Read
  <2>2. CASE size = 2 * half + 2
    <3>1. 2 * half + 1 <= size - 1
      BY <1>1, <2>2
    <3> QED BY <2>2, <3>1 DEF Read
  <2> QED BY <1>1, <2>1, <2>2
<1>5. ~ Safe(a, size, live, half)
  BY <1>4 DEF Safe
<1>6. f[half] = SiftFrom(a, size, half, live, e, f, half)
  BY <1>1, <1>2 DEF Sifts
<1> QED BY <1>2, <1>3, <1>5, <1>6 DEF SiftFrom, half

LEMMA BuildIs ==
    ASSUME NEW size \in Nat \ {0}, NEW cap \in Nat, size >= cap,
           NEW a, DOMAIN a = 0 .. size - 1, NEW given, NEW e
    PROVE  Build(a, size, cap, given, e) = IF size > cap \/ size >= 3 THEN Wreck ELSE a
<1> DEFINE half == (size - 1) \div 2
           Next1(g, k) == IF k = 0 THEN a
                          ELSE IF g[k - 1] = Wreck THEN Wreck
                          ELSE PercolateDown(g[k - 1], size, half - k + 1, given, e)
           Builds(g) == g = [k \in 0 .. half |-> Next1(g, k)]
           built == CHOOSE g : Builds(g)
<1>1. half \in Nat /\ (size >= 3 => half > 0) /\ (size < 3 => half = 0)
  OBVIOUS
<1>2. size >= 3 => PercolateDown(a, size, half, given, e) = Wreck
  <2>1. size \in Nat
    OBVIOUS
  <2> HIDE DEF half
  <2> QED BY <2>1, FirstSiftOverruns DEF half
<1>3. Build(a, size, cap, given, e) = IF size > cap THEN Wreck ELSE built[half]
  BY Zenon DEF Build
<1> HIDE DEF half
<1>4. Builds(built)
  <2> DEFINE g == [k \in 0 .. half |-> IF k = 0 THEN a ELSE Wreck]
  <2>1. ASSUME NEW k \in 0 .. half
        PROVE  g[k] = Next1(g, k)
    <3>1. CASE k = 0
      BY <3>1
    <3>2. CASE k = 1
      <4>1. g[k - 1] = a /\ g[k] = Wreck /\ half - k + 1 = half /\ size >= 3
        BY <1>1, <3>2
      <4> HIDE DEF g
      <4> QED BY <1>2, <3>2, <4>1
    <3>3. CASE k # 0 /\ k # 1
      <4>1. k - 1 \in 0 .. half /\ k - 1 # 0
        BY <1>1, <3>3
      <4>2. g[k - 1] = Wreck /\ g[k] = Wreck
        BY <3>3, <4>1
      <4> HIDE DEF g
      <4> QED BY <3>3, <4>2
    <3> QED BY <3>1, <3>2, <3>3
  <2>2. g = [k \in 0 .. half |-> Next1(g, k)]
    <3>1. g = [k \in 0 .. half |-> g[k]]
      OBVIOUS
    <3> HIDE DEF g, Next1
    <3> QED BY <2>1, <3>1
  <2>3. Builds(g)
    BY <2>2, Zenon
  <2> HIDE DEF g, Builds
  <2> QED BY <2>3
<1> HIDE DEF built
<1>5. \A k \in 0 .. half : built[k] = Next1(built, k)
  <2> HIDE DEF Next1
  <2> QED BY <1>4
<1>6. built[0] = a
  BY <1>1, <1>5
<1>7. half > 0 => built[half] = Wreck
  <2> SUFFICES ASSUME half > 0
               PROVE  built[half] = Wreck
    OBVIOUS
  <2> DEFINE D == {k \in Nat : k + 1 \in 0 .. half => built[k + 1] = Wreck}
  <2>1. 0 \in D
    <3>1. 1 \in 0 .. half /\ half - 1 + 1 = half /\ 1 - 1 = 0 /\ 0 + 1 = 1 /\ size >= 3
      BY <1>1
    <3>2. built[1] = Wreck
      BY <1>2, <1>5, <1>6, <3>1
    <3> QED BY <3>1, <3>2
  <2>2. ASSUME NEW k \in Nat, k \in D
        PROVE  k + 1 \in D
    <3> SUFFICES ASSUME (k + 1) + 1 \in 0 .. half
                 PROVE  built[(k + 1) + 1] = Wreck
      OBVIOUS
    <3>1. k + 1 \in 0 .. half /\ ((k + 1) + 1) - 1 = k + 1 /\ (k + 1) + 1 # 0
      BY <1>1
    <3>2. built[k + 1] = Wreck
      BY <2>2, <3>1
    <3>3. built[(k + 1) + 1] = Next1(built, (k + 1) + 1)
      BY <1>5
    <3> QED BY <3>1, <3>2, <3>3
  <2>3. half - 1 \in D
    <3>1. half - 1 \in Nat
      BY <1>1
    <3> HIDE DEF D
    <3> QED BY <2>1, <2>2, <3>1, SetInduction
  <2> QED BY <1>1, <2>3
<1> QED BY <1>1, <1>3, <1>6, <1>7

(* resize(): the array is twice as large and holds the same timers.        *)
LEMMA ResizedKeeps ==
    ASSUME NEW N \in Nat \ {0}, NEW a \in [0 .. N - 1 -> Ptr], NEW n \in 0 .. N
    PROVE  /\ Resized(a, n) \in [0 .. 2 * N - 1 -> Ptr]
           /\ \A i \in 0 .. n - 1 : Resized(a, n)[i] = a[i]
<1>1. Cardinality(DOMAIN a) = N
  BY CapacityIs
<1>2. Resized(a, n) = [i \in 0 .. 2 * N - 1 |-> IF i < n THEN a[i] ELSE NULL]
  BY <1>1 DEF Resized, Copied
<1>3. \A i \in 0 .. 2 * N - 1 : i < n => i \in 0 .. N - 1
  OBVIOUS
<1>4. \A i \in 0 .. n - 1 : i \in 0 .. 2 * N - 1 /\ i < n
  OBVIOUS
<1> QED BY <1>2, <1>3, <1>4 DEF Ptr

-----------------------------------------------------------------------------
(* What holds between the calls and inside tick().                         *)
Running == pc \in {"idle", "ticking", "firing"}

(* A heap not made has no timers; one in use holds those that are alive; a *)
(* tick has tmp at the root until it is popped, and calls back what is due. *)
IndInv ==
    /\ TypeOK
    /\ pc \in {"none", "thrown"} => cur_size = 0 /\ alive = {} /\ deleted = {}
    /\ Running => capacity \in Nat \ {0} /\ Holds(array, cur_size, alive)
    /\ pc = "gone" => alive = {}
    /\ pc \in {"ticking", "firing"} => cur <= now /\ (~empty => tmp = array[0])
    /\ pc = "firing" => ~empty /\ expire[tmp] <= cur

LEMMA RunningIs ==
    ASSUME IndInv, Running
    PROVE  /\ array \in [0 .. capacity - 1 -> Ptr]
           /\ capacity \in Nat \ {0}
           /\ cur_size \in Nat /\ cur_size \in 0 .. capacity
           /\ Holds(array, cur_size, alive) /\ alive \subseteq Timers
           /\ deleted \subseteq alive
           /\ expire \in [Timers -> 0 .. MaxTime]
           /\ expire \in [Timers -> Nat]
           /\ now \in 0 .. MaxTime
<1>1. /\ array \in [0 .. capacity - 1 -> Ptr] /\ cur_size <= capacity
      /\ alive \subseteq Timers /\ deleted \subseteq alive
      /\ expire \in [Timers -> 0 .. MaxTime] /\ now \in 0 .. MaxTime
      /\ cur_size \in 0 .. Cardinality(Timers)
  BY DEF IndInv, TypeOK, Running
<1>2. capacity \in Nat \ {0} /\ Holds(array, cur_size, alive)
  BY DEF IndInv
<1>3. expire \in [Timers -> Nat]
  <2>1. \A i \in 0 .. MaxTime : i \in Nat
    BY HeapAssumption
  <2> QED BY <1>1, <2>1
<1>4. Cardinality(Timers) \in Nat
  BY HeapAssumption, FS_CardinalityType
<1>5. cur_size \in Nat /\ cur_size \in 0 .. capacity
  BY <1>1, <1>2, <1>4
<1> HIDE DEF capacity
<1> QED BY <1>1, <1>2, <1>3, <1>5

(* No heap has more entries in use than there are timers.                  *)
LEMMA FewEnough ==
    ASSUME NEW a, NEW n \in Nat, NEW S, S \subseteq Timers, Holds(a, n, S)
    PROVE  n \in 0 .. Cardinality(Timers)
<1>1. Cardinality(S) = n
  BY HoldsCounts
<1>2. Cardinality(S) <= Cardinality(Timers) /\ Cardinality(Timers) \in Nat
  BY HeapAssumption, FS_Subset, FS_CardinalityType
<1> QED BY <1>1, <1>2

(* pop() keeps what is left of the timers, unless it goes wrong.           *)
LEMMA PopKeeps ==
    ASSUME IndInv, Running, ~empty, NEW next, next \notin {"undefined", "astray"}, PopRoot(next)
    PROVE  /\ cur_size' \in Nat /\ cur_size' \in 0 .. Cardinality(Timers) /\ cur_size' <= capacity
           /\ alive' \subseteq Timers /\ deleted' \subseteq alive'
           /\ expire' \in [Timers -> 0 .. MaxTime]
           /\ pc' \in {"undefined", "astray", next}
           /\ pc' = "undefined" <=> array' = Wreck
           /\ pc' # "undefined" => array' \in [0 .. capacity - 1 -> Ptr]
           /\ pc' = next => Holds(array', cur_size', alive')
<1> DEFINE N == capacity
           n == cur_size
           root == array[0]
           a == Put(array, 0, array[n - 1])
           T == alive \ {root}
           d == Put(expire, root, 0)
<1>1. /\ array \in [0 .. N - 1 -> Ptr] /\ N \in Nat \ {0}
      /\ Holds(array, n, alive) /\ alive \subseteq Timers /\ deleted \subseteq alive
      /\ expire \in [Timers -> 0 .. MaxTime] /\ expire \in [Timers -> Nat]
      /\ n \in Nat /\ n \in 0 .. N
  BY RunningIs
<1>2. n \in 1 .. N /\ n - 1 \in Nat /\ n - 1 <= N
  <2>1. n # 0
    BY DEF empty
  <2> HIDE DEF N
  <2> QED BY <1>1, <2>1
<1>3. /\ cur_size' = n - 1 /\ alive' = T /\ deleted' = deleted \ {root} /\ expire' = d
      /\ array' = PercolateDown(a, n - 1, 0, T, d)
      /\ pc' = IF array' = Wreck THEN "undefined"
               ELSE IF GoesAstray(a, array', n - 1) THEN "astray" ELSE next
  BY Zenon DEF PopRoot, Put
<1> DEFINE r == PercolateDown(a, n - 1, 0, T, d)
<1>4. a \in [0 .. N - 1 -> Ptr] /\ root \in alive /\ Holds(a, n - 1, T)
  <2> HIDE DEF N
  <2> QED BY <1>1, <1>2, RootLeaves
<1>5. T \subseteq Timers /\ deleted \ {root} \subseteq T
  BY <1>1
<1>6. d \in [Timers -> 0 .. MaxTime] /\ d \in [Timers -> Nat]
  <2>1. 0 \in 0 .. MaxTime /\ \A i \in 0 .. MaxTime : i \in Nat
    BY HeapAssumption
  <2> QED BY <1>1, <2>1 DEF Put
<1>7. n - 1 \in 0 .. Cardinality(Timers)
  BY <1>2, <1>4, <1>5, FewEnough
<1> HIDE DEF a, T, d, N, n, root
<1>8. r # Wreck => r \in [0 .. N - 1 -> Ptr] /\ (~ GoesAstray(a, r, n - 1) => Holds(r, n - 1, T))
  <2>1. CASE n - 1 = 0
    <3>1. DOMAIN a = 0 .. N - 1
      BY <1>4
    <3>2. PICK f : Sifts(a, n - 1, 0, T, d, f) /\ PercolateDown(a, n - 1, 0, T, d) = f[0]
      BY <1>1, <3>1, PercolateDownSifts
    <3>3. f[0] = Put(a, 0, a[0])
      BY <2>1, <3>2 DEF Sifts, SiftFrom, Continues
    <3>4. Put(a, 0, a[0]) = a
      BY <1>4 DEF Put
    <3> QED BY <1>4, <3>2, <3>3, <3>4
  <2>2. CASE n - 1 # 0
    <3>1. n - 1 \in 1 .. N
      BY <1>1, <1>2, <2>2
    <3> HIDE DEF r
    <3> SUFFICES ASSUME r # Wreck
                 PROVE  r \in [0 .. N - 1 -> Ptr] /\ (~ GoesAstray(a, r, n - 1) => Holds(r, n - 1, T))
      OBVIOUS
    <3>2. r = PercolateDown(a, n - 1, 0, T, d)
      BY DEF r
    <3> QED BY <1>1, <1>4, <1>5, <1>6, <3>1, <3>2, PercolateDownKeeps
  <2> QED BY <2>1, <2>2
<1> HIDE DEF r
<1>9. array' = r
  BY <1>3 DEF r
<1>10. /\ pc' \in {"undefined", "astray", next}
       /\ pc' = "undefined" <=> array' = Wreck
       /\ pc' = next => ~ GoesAstray(a, r, n - 1)
  BY <1>3, <1>9
<1>11. Holds(array', cur_size', alive') <=> Holds(r, n - 1, T)
  BY <1>3, <1>9
<1>12. pc' # "undefined" => array' \in [0 .. N - 1 -> Ptr]
  BY <1>8, <1>9, <1>10
<1>13. pc' = next => Holds(array', cur_size', alive')
  BY <1>8, <1>9, <1>10, <1>11
<1> QED BY <1>2, <1>3, <1>5, <1>6, <1>7, <1>10, <1>12, <1>13 DEF N

(* What holds again after a call that leaves the heap in use.              *)
LEMMA RunningAgain ==
    ASSUME pc' \in {"idle", "ticking", "firing"},
           NEW N \in Nat \ {0}, array' \in [0 .. N - 1 -> Ptr],
           cur_size' \in Nat, cur_size' <= N,
           alive' \subseteq Timers, deleted' \subseteq alive',
           expire' \in [Timers -> 0 .. MaxTime],
           now' \in 0 .. MaxTime, cur' \in 0 .. MaxTime, tmp' \in Ptr,
           Holds(array', cur_size', alive'),
           pc' # "idle" => cur' <= now' /\ (cur_size' # 0 => tmp' = array'[0]),
           pc' = "firing" => cur_size' # 0 /\ expire'[tmp'] <= cur'
    PROVE  IndInv'
<1>1. capacity' = N
  BY CapacityIs DEF capacity
<1>2. cur_size' \in 0 .. Cardinality(Timers)
  BY FewEnough
<1> HIDE DEF capacity
<1>3. TypeOK'
  BY <1>1, <1>2 DEF TypeOK
<1> QED BY <1>1, <1>3 DEF IndInv, Running, empty

LEMMA InitOK == Init => IndInv
<1> SUFFICES ASSUME Init
             PROVE  IndInv
  OBVIOUS
<1>1. 0 \in 0 .. MaxTime /\ 0 \in 0 .. Cardinality(Timers)
  BY HeapAssumption, FS_CardinalityType
<1> QED BY <1>1 DEF Init, IndInv, TypeOK, Running, Ptr

LEMMA TimePassesOK == ASSUME IndInv, TimePasses PROVE IndInv'
<1>1. Running /\ now' = now + 1 /\ now < MaxTime
      /\ UNCHANGED <<array, cur_size, expire, alive, deleted, pc, cur, tmp>>
  BY Zenon DEF TimePasses, Running, timerVars, tickVars
<1>2. now \in 0 .. MaxTime /\ MaxTime \in Nat /\ cur \in 0 .. MaxTime
  BY HeapAssumption DEF IndInv, TypeOK
<1>3. now' \in 0 .. MaxTime /\ (cur <= now => cur <= now')
  BY <1>1, <1>2
<1>4. capacity' = capacity /\ empty' = empty /\ Running'
  BY <1>1 DEF capacity, empty, Running
<1>5. TypeOK'
  BY <1>1, <1>3, <1>4 DEF IndInv, TypeOK
<1> QED BY <1>1, <1>3, <1>4, <1>5 DEF IndInv

LEMMA NewHeapOK == ASSUME IndInv, NEW cap \in Capacities, NewHeap(cap) PROVE IndInv'
<1>1. pc = "none" /\ array' = Empty(cap) /\ pc' = "idle"
      /\ UNCHANGED <<cur_size, expire, alive, deleted, now, cur, tmp>>
  BY Zenon DEF NewHeap, timerVars, tickVars
<1>2. cap \in Nat \ {0}
  BY HeapAssumption
<1>3. cur_size = 0 /\ alive = {} /\ deleted = {}
  BY <1>1 DEF IndInv
<1>4. array' \in [0 .. cap - 1 -> Ptr]
  BY <1>1 DEF Empty, Ptr
<1>5. /\ expire' \in [Timers -> 0 .. MaxTime] /\ now' \in 0 .. MaxTime
      /\ cur' \in 0 .. MaxTime /\ tmp' \in Ptr
  BY <1>1 DEF IndInv, TypeOK
<1>6. Holds(array', cur_size', alive')
  BY <1>1, <1>3 DEF Holds
<1>7. cur_size' \in Nat /\ cur_size' <= cap /\ alive' \subseteq Timers /\ deleted' \subseteq alive'
  BY <1>1, <1>2, <1>3
<1>8. pc' \in {"idle", "ticking", "firing"} /\ pc' = "idle"
  BY <1>1
<1> QED BY <1>2, <1>4, <1>5, <1>6, <1>7, <1>8, RunningAgain

LEMMA NewHeapThrowsOK ==
    ASSUME IndInv, NEW size, NEW cap, NewHeapThrows(size, cap)
    PROVE  IndInv'
<1>1. pc = "none" /\ pc' = "thrown"
      /\ UNCHANGED <<array, cur_size, expire, alive, deleted, now, cur, tmp>>
  BY Zenon DEF NewHeapThrows, timerVars, tickVars
<1>2. TypeOK'
  BY <1>1 DEF IndInv, TypeOK
<1> QED BY <1>1, <1>2 DEF IndInv, Running

(* The arrays given to the constructor.                                    *)
LEMMA ArraysAre ==
    ASSUME NEW a \in Arrays
    PROVE  \E n \in Nat \ {0} : /\ n = Cardinality(DOMAIN a)
                                /\ a \in [0 .. n - 1 -> Timers]
                                /\ n \in 0 .. Cardinality(Timers)
                                /\ Holds(a, n, {a[i] : i \in DOMAIN a})
<1>1. PICK n \in 1 .. Cardinality(Timers) : a \in [0 .. n - 1 -> Timers]
  BY Zenon DEF Arrays
<1>2. \A i, j \in DOMAIN a : a[i] = a[j] => i = j
  BY Zenon DEF Arrays
<1>3. Cardinality(Timers) \in Nat
  BY HeapAssumption, FS_CardinalityType
<1>4. n \in Nat \ {0} /\ DOMAIN a = 0 .. n - 1 /\ n \in 0 .. Cardinality(Timers)
  BY <1>1, <1>3
<1>5. n = Cardinality(DOMAIN a)
  BY <1>4, CapacityIs
<1>6. Holds(a, n, {a[i] : i \in DOMAIN a})
  BY <1>2, <1>4 DEF Holds
<1> QED BY <1>1, <1>4, <1>5, <1>6

LEMMA NewHeapFromOK ==
    ASSUME IndInv, NEW a \in Arrays, NEW cap \in Capacities,
           NewHeapFrom(a, Cardinality(DOMAIN a), cap)
    PROVE  IndInv' /\ (cur_size' >= 3 => pc' = "undefined")
<1> DEFINE given == {a[i] : i \in DOMAIN a}
<1>1. PICK n \in Nat \ {0} : /\ n = Cardinality(DOMAIN a)
                             /\ a \in [0 .. n - 1 -> Timers]
                             /\ n \in 0 .. Cardinality(Timers)
                             /\ Holds(a, n, given)
  BY ArraysAre
<1>2. given \subseteq Timers
  BY <1>1
<1> HIDE DEF given
<1>3. /\ pc = "none" /\ n >= cap
      /\ array' = Build(a, n, cap, given, expire')
      /\ pc' = IF array' = Wreck THEN "undefined" ELSE "idle"
      /\ cur_size' = n /\ alive' = given
      /\ UNCHANGED <<deleted, now, cur, tmp>>
  BY <1>1, Zenon DEF NewHeapFrom, given, tickVars
<1>4. PICK delay \in [Timers -> Delays \cap 0 .. MaxTime] :
          expire' = [t \in Timers |-> IF t \in given THEN delay[t] ELSE 0]
  BY <1>1, Zenon DEF NewHeapFrom, given
<1>5. expire' \in [Timers -> 0 .. MaxTime]
  BY <1>4, HeapAssumption
<1>6. array' = IF n > cap \/ n >= 3 THEN Wreck ELSE a
  <2>1. cap \in Nat /\ DOMAIN a = 0 .. n - 1
    BY <1>1, HeapAssumption
  <2> QED BY <1>1, <1>3, <2>1, BuildIs
<1>7. deleted' = {} /\ now' \in 0 .. MaxTime /\ cur' \in 0 .. MaxTime /\ tmp' \in Ptr
  BY <1>3 DEF IndInv, TypeOK
<1>8. CASE array' = Wreck
  <2>1. pc' = "undefined"
    BY <1>3, <1>8
  <2>2. TypeOK'
    BY <1>1, <1>2, <1>3, <1>5, <1>7, <2>1 DEF TypeOK
  <2> QED BY <2>1, <2>2 DEF IndInv, Running
<1>9. CASE array' # Wreck
  <2>1. array' = a /\ pc' = "idle" /\ ~ (n >= 3)
    BY <1>3, <1>6, <1>9
  <2>2. array' \in [0 .. n - 1 -> Ptr]
    BY <1>1, <2>1 DEF Ptr
  <2>3. cur_size' \in Nat /\ cur_size' <= n /\ alive' \subseteq Timers /\ deleted' \subseteq alive'
    BY <1>2, <1>3, <1>7
  <2>4. Holds(array', cur_size', alive')
    BY <1>1, <1>3, <2>1
  <2>5. IndInv'
    BY <1>1, <1>5, <1>7, <2>1, <2>2, <2>3, <2>4, RunningAgain
  <2> QED BY <1>3, <2>1, <2>5
<1> QED BY <1>8, <1>9

(* add_timer() keeps the invariant, the root while no earlier timer comes, *)
(* and the order.                                                          *)
LEMMA AddTimerOK ==
    ASSUME IndInv, NEW t \in Timers, NEW delay \in Delays, AddTimer(t, delay)
    PROVE  IndInv' /\ (Ordered => Ordered')
<1> DEFINE n == cur_size
           a == IF Full THEN Resized(array, n) ELSE array
           N == IF Full THEN 2 * capacity ELSE capacity
           d == Put(expire, t, now + delay)
           r == PercolateUp(a, n, t, d)
<1>1. /\ pc \in {"idle", "firing"} /\ t \in Timers \ alive /\ now + delay <= MaxTime
      /\ alive' = alive \cup {t} /\ expire' = d /\ array' = r /\ cur_size' = n + 1
      /\ UNCHANGED <<deleted, now, pc, cur, tmp>>
  BY Zenon DEF AddTimer, tickVars, Put
<1>2. /\ array \in [0 .. capacity - 1 -> Ptr] /\ capacity \in Nat \ {0}
      /\ n \in Nat /\ n \in 0 .. capacity
      /\ Holds(array, n, alive) /\ alive \subseteq Timers /\ deleted \subseteq alive
      /\ expire \in [Timers -> 0 .. MaxTime] /\ expire \in [Timers -> Nat] /\ now \in 0 .. MaxTime
  BY <1>1, RunningIs DEF Running
<1>3. N \in Nat \ {0} /\ n \in 0 .. N - 1
  <2> HIDE DEF capacity
  <2> QED BY <1>2 DEF Full
<1>4. a \in [0 .. N - 1 -> Ptr] /\ \A i \in 0 .. n - 1 : a[i] = array[i]
  <2> HIDE DEF capacity
  <2>1. CASE Full
    <3>1. /\ Resized(array, n) \in [0 .. 2 * capacity - 1 -> Ptr]
          /\ \A i \in 0 .. n - 1 : Resized(array, n)[i] = array[i]
      BY <1>2, ResizedKeeps
    <3> QED BY <2>1, <3>1
  <2>2. CASE ~ Full
    BY <1>2, <2>2
  <2> QED BY <2>1, <2>2
<1>5. d \in [Timers -> 0 .. MaxTime] /\ d \in [Timers -> Nat] /\ d[t] = now + delay
      /\ \A x \in alive : d[x] = expire[x]
  <2>1. now + delay \in 0 .. MaxTime /\ now + delay \in Nat
    BY <1>1, <1>2, HeapAssumption
  <2> QED BY <1>1, <1>2, <2>1 DEF Put
<1> HIDE DEF a, N, d
<1>6. Holds(a, n, alive)
  <2>1. \A i \in 0 .. n - 1 : a[i] = array[i]
    BY <1>4
  <2> QED BY <1>2, <2>1 DEF Holds
<1>7. /\ r \in [0 .. N - 1 -> Ptr]
      /\ Holds(r, n + 1, alive \cup {t})
      /\ InOrder(a, n, d) => InOrder(r, n + 1, d)
      /\ KeepsRoot(a, r, n, t, d)
  <2> HIDE DEF r
  <2>1. r = PercolateUp(a, n, t, d)
    BY DEF r
  <2>2. N \in Nat /\ n \in 0 .. N - 1 /\ a \in [0 .. N - 1 -> Ptr] /\ d \in [Timers -> Nat]
        /\ alive \subseteq Timers /\ Holds(a, n, alive) /\ t \in Timers /\ t \notin alive
    BY <1>1, <1>2, <1>3, <1>4, <1>5, <1>6
  <2> HIDE DEF n
  <2> QED BY <2>1, <2>2, PercolateUpKeeps
<1> HIDE DEF r
<1>8. Ordered => Ordered'
  <2> SUFFICES ASSUME Ordered
               PROVE  Ordered'
    OBVIOUS
  <2>1. ASSUME NEW i \in 1 .. n - 1
        PROVE  d[a[Parent(i)]] <= d[a[i]]
    <3>1. i \in 0 .. n - 1 /\ Parent(i) \in 0 .. n - 1
      <4>1. i \in Nat \ {0} /\ i \in 0 .. n - 1 /\ n \in Nat
        BY <1>2
      <4> HIDE DEF n
      <4> QED BY <4>1, ParentIs
    <3>2. array[i] \in alive /\ array[Parent(i)] \in alive
      BY <1>2, <3>1 DEF Holds
    <3>3. d[a[i]] = expire[array[i]] /\ d[a[Parent(i)]] = expire[array[Parent(i)]]
      BY <1>4, <1>5, <3>1, <3>2
    <3> QED BY <3>3 DEF Ordered
  <2>2. InOrder(r, n + 1, d)
    BY <1>7, <2>1 DEF InOrder
  <2> QED BY <1>1, <2>2 DEF Ordered, InOrder
<1>9. cur_size' \in Nat /\ cur_size' <= N /\ alive' \subseteq Timers /\ deleted' \subseteq alive'
  BY <1>1, <1>2, <1>3
<1>10. Holds(array', cur_size', alive')
  BY <1>1, <1>7
<1>11. now' \in 0 .. MaxTime /\ cur' \in 0 .. MaxTime /\ tmp' \in Ptr
  BY <1>1 DEF IndInv, TypeOK
<1>12. ASSUME pc = "firing"
       PROVE  /\ cur' <= now' /\ cur_size' # 0 /\ tmp' = array'[0] /\ expire'[tmp'] <= cur'
  <2>1. cur <= now /\ n # 0 /\ tmp = array[0] /\ expire[tmp] <= cur
    BY <1>12 DEF IndInv, empty
  <2>2. 0 \in 0 .. n - 1 /\ n > 0
    BY <1>2, <2>1
  <2>3. tmp \in alive /\ a[0] = tmp
    BY <1>2, <1>4, <2>1, <2>2 DEF Holds
  <2>4. d[tmp] = expire[tmp]
    BY <1>5, <2>3
  <2>5. cur \in Nat /\ now \in Nat /\ delay \in Nat /\ expire[tmp] \in Nat
    <3>1. cur \in 0 .. MaxTime /\ now \in 0 .. MaxTime /\ expire[tmp] \in 0 .. MaxTime
      BY <1>2, <2>3 DEF IndInv, TypeOK
    <3> QED BY <3>1, HeapAssumption
  <2>6. d[a[0]] <= d[t]
    BY <1>5, <2>1, <2>3, <2>4, <2>5
  <2>7. r[0] = tmp
    BY <1>7, <2>2, <2>3, <2>6 DEF KeepsRoot
  <2>8. n + 1 # 0
    BY <1>2
  <2>9. cur' = cur /\ now' = now /\ tmp' = tmp /\ array'[0] = r[0] /\ expire'[tmp'] = d[tmp]
    BY <1>1
  <2> QED BY <1>1, <2>1, <2>4, <2>7, <2>8, <2>9
<1>13. pc' \in {"idle", "ticking", "firing"}
       /\ (pc' # "idle" => cur' <= now' /\ (cur_size' # 0 => tmp' = array'[0]))
       /\ (pc' = "firing" => cur_size' # 0 /\ expire'[tmp'] <= cur')
  BY <1>1, <1>12
<1>14. array' \in [0 .. N - 1 -> Ptr] /\ expire' \in [Timers -> 0 .. MaxTime]
  BY <1>1, <1>5, <1>7
<1>15. IndInv'
  BY <1>3, <1>9, <1>10, <1>11, <1>13, <1>14, RunningAgain
<1> QED BY <1>8, <1>15

LEMMA DeleteTimerOK == ASSUME IndInv, NEW t \in Timers, DeleteTimer(t) PROVE IndInv'
<1>1. /\ pc \in {"idle", "firing"} /\ t \in alive /\ deleted' = deleted \cup {t}
      /\ UNCHANGED <<array, cur_size, expire, alive, now, pc, cur, tmp>>
  BY Zenon DEF DeleteTimer, tickVars
<1>2. capacity' = capacity /\ empty' = empty /\ (Running <=> Running')
  BY <1>1 DEF capacity, empty, Running
<1>3. TypeOK'
  BY <1>1, <1>2 DEF IndInv, TypeOK
<1> QED BY <1>1, <1>2, <1>3 DEF IndInv

(* What pop() leaves, where control goes on at next.                       *)
LEMMA PopOK ==
    ASSUME IndInv, Running, ~empty, NEW next \in {"idle", "ticking"}, PopRoot(next),
           now' = now, cur' \in 0 .. MaxTime, tmp' \in Ptr,
           next = "ticking" => cur' <= now /\ (pc' = "ticking" => tmp' = array'[0])
    PROVE  IndInv'
<1> DEFINE N == capacity
<1>1. N \in Nat \ {0} /\ now' \in 0 .. MaxTime
  BY RunningIs
<1>2. /\ cur_size' \in Nat /\ cur_size' \in 0 .. Cardinality(Timers) /\ cur_size' <= N
      /\ alive' \subseteq Timers /\ deleted' \subseteq alive'
      /\ expire' \in [Timers -> 0 .. MaxTime]
      /\ pc' \in {"undefined", "astray", next}
      /\ pc' # "undefined" => array' \in [0 .. N - 1 -> Ptr]
      /\ pc' = next => Holds(array', cur_size', alive')
  <2>1. next \notin {"undefined", "astray"}
    OBVIOUS
  <2> QED BY <2>1, PopKeeps
<1> HIDE DEF N
<1>3. CASE pc' = next
  <2>1. pc' \in {"idle", "ticking", "firing"} /\ pc' # "undefined"
    BY <1>3
  <2> QED BY <1>1, <1>2, <1>3, <2>1, RunningAgain
<1>4. CASE pc' = "undefined"
  <2>1. TypeOK'
    BY <1>1, <1>2, <1>4 DEF TypeOK
  <2> QED BY <1>4, <2>1 DEF IndInv, Running
<1>5. CASE pc' = "astray"
  <2>1. array' \in [0 .. N - 1 -> Ptr]
    BY <1>2, <1>5
  <2>2. capacity' = N
    BY <1>1, <2>1, CapacityIs DEF capacity
  <2> HIDE DEF capacity
  <2>3. TypeOK'
    BY <1>1, <1>2, <1>5, <2>1, <2>2 DEF TypeOK
  <2> QED BY <1>5, <2>3 DEF IndInv, Running
<1> QED BY <1>2, <1>3, <1>4, <1>5

LEMMA PopActionOK == ASSUME IndInv, Pop PROVE IndInv'
<1>1. pc = "idle" /\ ~empty /\ PopRoot("idle") /\ now' = now /\ cur' = cur /\ tmp' = tmp
  BY Zenon DEF Pop, tickVars
<1>2. Running /\ cur' \in 0 .. MaxTime /\ tmp' \in Ptr
  BY <1>1 DEF IndInv, TypeOK, Running
<1> QED BY <1>1, <1>2, PopOK

LEMMA TickBeginOK == ASSUME IndInv, TickBegin PROVE IndInv'
<1>1. /\ pc = "idle" /\ pc' = "ticking" /\ tmp' = array[0] /\ cur' = now
      /\ UNCHANGED <<array, cur_size, expire, alive, deleted, now>>
  BY Zenon DEF TickBegin, timerVars
<1> DEFINE N == capacity
<1>2. /\ array \in [0 .. N - 1 -> Ptr] /\ N \in Nat \ {0}
      /\ cur_size \in Nat /\ cur_size \in 0 .. N
      /\ Holds(array, cur_size, alive) /\ alive \subseteq Timers /\ deleted \subseteq alive
      /\ expire \in [Timers -> 0 .. MaxTime] /\ now \in 0 .. MaxTime
  BY <1>1, RunningIs DEF Running
<1> HIDE DEF N
<1>3. array[0] \in Ptr /\ cur_size <= N /\ now <= now
  BY <1>2
<1>4. /\ array' \in [0 .. N - 1 -> Ptr] /\ cur_size' \in Nat /\ cur_size' <= N
      /\ alive' \subseteq Timers /\ deleted' \subseteq alive'
      /\ expire' \in [Timers -> 0 .. MaxTime]
      /\ now' \in 0 .. MaxTime /\ cur' \in 0 .. MaxTime /\ tmp' \in Ptr
      /\ Holds(array', cur_size', alive')
      /\ cur' <= now' /\ tmp' = array'[0] /\ pc' = "ticking"
  BY <1>1, <1>2, <1>3
<1>5. pc' \in {"idle", "ticking", "firing"} /\ pc' # "firing"
  BY <1>4
<1> QED BY <1>2, <1>4, <1>5, RunningAgain

LEMMA TickFireOK == ASSUME IndInv, TickFire PROVE IndInv'
<1>1. /\ pc = "ticking" /\ pc' = "firing" /\ ~empty /\ expire[tmp] <= cur
      /\ UNCHANGED <<array, cur_size, expire, alive, deleted, now, cur, tmp>>
  BY Zenon DEF TickFire, Due, timerVars, tickVars
<1>2. capacity' = capacity /\ empty' = empty /\ Running
  BY <1>1 DEF capacity, empty, Running
<1>3. TypeOK'
  BY <1>1, <1>2 DEF IndInv, TypeOK
<1> QED BY <1>1, <1>2, <1>3 DEF IndInv

LEMMA TickPopOK == ASSUME IndInv, TickPop PROVE IndInv'
<1>1. /\ pc = "firing" \/ (pc = "ticking" /\ Due)
      /\ PopRoot("ticking") /\ now' = now /\ cur' = cur
      /\ tmp' = IF array' = Wreck THEN NULL ELSE array'[0]
  BY Zenon DEF TickPop
<1>2. Running /\ ~empty
  BY <1>1 DEF Running, Due, IndInv
<1>3. cur' \in 0 .. MaxTime /\ cur' <= now
  BY <1>1 DEF IndInv, TypeOK
<1>4. /\ pc' = "undefined" <=> array' = Wreck
      /\ pc' # "undefined" => array' \in [0 .. capacity - 1 -> Ptr]
  <2>1. "ticking" \notin {"undefined", "astray"}
    OBVIOUS
  <2> QED BY <1>1, <1>2, <2>1, PopKeeps
<1>5. tmp' \in Ptr
  <2>1. CASE array' = Wreck
    BY <1>1, <2>1 DEF Ptr
  <2>2. CASE array' # Wreck
    <3>1. capacity \in Nat \ {0}
      BY <1>2, RunningIs
    <3> DEFINE N == capacity
    <3> HIDE DEF N
    <3>2. array' \in [0 .. N - 1 -> Ptr] /\ N \in Nat \ {0}
      BY <1>4, <2>2, <3>1 DEF N
    <3>3. array'[0] \in Ptr
      BY <3>2
    <3> QED BY <1>1, <2>2, <3>3
  <2> QED BY <2>1, <2>2
<1>6. pc' = "ticking" => tmp' = array'[0]
  BY <1>1, <1>4
<1> QED BY <1>1, <1>2, <1>3, <1>5, <1>6, PopOK

LEMMA TickEndOK == ASSUME IndInv, TickEnd PROVE IndInv'
<1>1. /\ pc = "ticking" /\ pc' = "idle" /\ tmp' = NULL /\ cur' = 0
      /\ UNCHANGED <<array, cur_size, expire, alive, deleted, now>>
  BY Zenon DEF TickEnd, timerVars
<1>2. capacity' = capacity /\ empty' = empty /\ Running /\ tmp' \in Ptr /\ cur' \in 0 .. MaxTime
  BY <1>1, HeapAssumption DEF capacity, empty, Running, Ptr
<1>3. TypeOK'
  BY <1>1, <1>2 DEF IndInv, TypeOK
<1> QED BY <1>1, <1>2, <1>3 DEF IndInv

LEMMA DestroyOK == ASSUME IndInv, Destroy PROVE IndInv'
<1>1. /\ pc = "idle" /\ pc' = "gone" /\ alive' = alive \ OnHeap
      /\ UNCHANGED <<array, cur_size, expire, deleted, now, cur, tmp>>
  BY Zenon DEF Destroy, tickVars
<1>2. Holds(array, cur_size, alive) /\ cur_size \in Nat
  BY <1>1, RunningIs DEF Running
<1>3. alive' = {}
  BY <1>1, <1>2, HoldsCounts DEF OnHeap
<1>4. capacity' = capacity
  BY <1>1 DEF capacity
<1>5. TypeOK'
  BY <1>1, <1>3, <1>4 DEF IndInv, TypeOK
<1> QED BY <1>1, <1>3, <1>5 DEF IndInv, Running

LEMMA StutterOK == ASSUME IndInv, UNCHANGED vars PROVE IndInv'
<1>1. UNCHANGED <<array, cur_size, expire, alive, deleted, now, pc, cur, tmp>>
  BY Zenon DEF vars, timerVars, tickVars
<1> QED BY <1>1 DEF IndInv, TypeOK, Running, capacity, empty

(* The steps, taken apart.                                                 *)
LEMMA StepIs ==
    ASSUME [Next]_vars
    PROVE  \/ \E cap \in Capacities : NewHeap(cap)
           \/ \E cap \in Capacities : \E a \in Arrays : NewHeapThrows(Cardinality(DOMAIN a), cap)
           \/ \E cap \in Capacities : \E a \in Arrays : NewHeapFrom(a, Cardinality(DOMAIN a), cap)
           \/ \E t \in Timers : \E delay \in Delays : AddTimer(t, delay)
           \/ \E t \in Timers : DeleteTimer(t)
           \/ TimePasses \/ Pop \/ TickBegin \/ TickFire \/ TickPop \/ TickEnd \/ Destroy
           \/ UNCHANGED vars
BY Zenon DEF Next

LEMMA IndInvStep == IndInv /\ [Next]_vars => IndInv'
<1> SUFFICES ASSUME IndInv, [Next]_vars
             PROVE  IndInv'
  OBVIOUS
<1>1. ASSUME NEW cap \in Capacities, NewHeap(cap) PROVE IndInv'
  BY <1>1, NewHeapOK
<1>2. ASSUME NEW cap \in Capacities, NEW a \in Arrays, NewHeapThrows(Cardinality(DOMAIN a), cap)
      PROVE  IndInv'
  BY <1>2, NewHeapThrowsOK
<1>3. ASSUME NEW cap \in Capacities, NEW a \in Arrays, NewHeapFrom(a, Cardinality(DOMAIN a), cap)
      PROVE  IndInv'
  BY <1>3, NewHeapFromOK
<1>4. ASSUME NEW t \in Timers, NEW delay \in Delays, AddTimer(t, delay) PROVE IndInv'
  BY <1>4, AddTimerOK
<1>5. ASSUME NEW t \in Timers, DeleteTimer(t) PROVE IndInv'
  BY <1>5, DeleteTimerOK
<1>6. CASE TimePasses
  BY <1>6, TimePassesOK
<1>7. CASE Pop
  BY <1>7, PopActionOK
<1>8. CASE TickBegin
  BY <1>8, TickBeginOK
<1>9. CASE TickFire
  BY <1>9, TickFireOK
<1>10. CASE TickPop
  BY <1>10, TickPopOK
<1>11. CASE TickEnd
  BY <1>11, TickEndOK
<1>12. CASE Destroy
  BY <1>12, DestroyOK
<1>13. CASE UNCHANGED vars
  BY <1>13, StutterOK
<1> QED BY <1>1, <1>2, <1>3, <1>4, <1>5, <1>6, <1>7, <1>8, <1>9, <1>10, <1>11, <1>12, <1>13,
           StepIs, Zenon

LEMMA IndInvAlways == Spec => []IndInv
<1>1. Init => IndInv
  BY InitOK
<1>2. IndInv /\ [Next]_vars => IndInv'
  BY IndInvStep
<1> QED BY <1>1, <1>2, PTL DEF Spec

-----------------------------------------------------------------------------
(* The fields keep their types, and the array has room for the timers      *)
(* add_timer() counts: resize() comes in time (lines 60 and 145 to 163).   *)
THEOREM TypeCorrect == Spec => []TypeOK
<1>1. IndInv => TypeOK
  BY DEF IndInv
<1> QED BY <1>1, IndInvAlways, PTL

(* The first cur_size entries hold every timer that was added and not      *)
(* popped, each once, whatever percolate_down (line 128) reads behind them *)
(* and does not move from there: pop() and the destructor free each timer  *)
(* once.                                                                   *)
THEOREM NoneLostNoneTwice == Spec => []HoldsEachOnce
<1>1. IndInv => HoldsEachOnce
  <2> SUFFICES ASSUME IndInv
               PROVE  HoldsEachOnce
    OBVIOUS
  <2>1. CASE Running
    <3>1. Holds(array, cur_size, alive) /\ cur_size \in Nat
      BY <2>1, RunningIs
    <3>2. OnHeap = alive /\ Cardinality(alive) = cur_size
      BY <3>1, HoldsCounts DEF OnHeap
    <3> QED BY <2>1, <3>2 DEF HoldsEachOnce, Running
  <2>2. CASE pc \in {"none", "thrown"}
    <3>1. cur_size = 0 /\ alive = {}
      BY <2>2 DEF IndInv
    <3>2. OnHeap = {} /\ Cardinality({}) = 0
      BY <3>1, FS_EmptySet DEF OnHeap
    <3> QED BY <2>2, <3>1, <3>2 DEF HoldsEachOnce
  <2>3. CASE pc = "gone"
    BY <2>3 DEF IndInv, HoldsEachOnce
  <2>4. CASE pc \in {"undefined", "astray"}
    BY <2>4 DEF HoldsEachOnce, Intact
  <2> QED BY <2>1, <2>2, <2>3, <2>4 DEF IndInv, TypeOK, Running
<1> QED BY <1>1, IndInvAlways, PTL

(* While tick() calls back and pops, the timer it compared is at the root  *)
(* (lines 110 to 119), whatever timers its callbacks add.                  *)
THEOREM TickPopsWhatItCompared == Spec => []RootStays
<1>1. IndInv => RootStays
  BY DEF IndInv, RootStays, top
<1> QED BY <1>1, IndInvAlways, PTL

(* The steps that change the number of timers.                             *)
LEMMA SizeChanges ==
    ASSUME [Next]_vars, cur_size' # cur_size
    PROVE  \/ \E cap \in Capacities : \E a \in Arrays : NewHeapFrom(a, Cardinality(DOMAIN a), cap)
           \/ \E t \in Timers : \E delay \in Delays : AddTimer(t, delay)
           \/ Pop \/ TickPop
<1>1. ASSUME NEW cap, NewHeap(cap) PROVE FALSE
  BY <1>1 DEF NewHeap
<1>2. ASSUME NEW cap, NEW size, NewHeapThrows(size, cap) PROVE FALSE
  BY <1>2 DEF NewHeapThrows
<1>3. ASSUME NEW t, DeleteTimer(t) PROVE FALSE
  BY <1>3 DEF DeleteTimer
<1>4. ~ TimePasses /\ ~ TickBegin /\ ~ TickFire /\ ~ TickEnd /\ ~ Destroy
  BY DEF TimePasses, TickBegin, TickFire, TickEnd, Destroy
<1>5. ~ UNCHANGED vars
  BY DEF vars
<1> QED BY <1>1, <1>2, <1>3, <1>4, <1>5, StepIs, Zenon

LEMMA SizeIsNat == ASSUME IndInv PROVE cur_size \in Nat
BY HeapAssumption, FS_CardinalityType DEF IndInv, TypeOK

(* add_timer() keeps a heap in order, also where the array grows: the timer *)
(* rises past all that are due later, and stays below the others           *)
(* (lines 64 to 75).                                                       *)
THEOREM AddingKeepsOrder == Spec => AddKeepsOrder
<1>1. ASSUME IndInv, [Next]_vars, pc # "none", cur_size' > cur_size, Ordered
      PROVE  Ordered'
  <2>1. cur_size \in Nat /\ cur_size' # cur_size /\ cur_size' # cur_size - 1
    BY <1>1, SizeIsNat
  <2>2. ASSUME NEW cap \in Capacities, NEW a \in Arrays, NewHeapFrom(a, Cardinality(DOMAIN a), cap)
        PROVE  FALSE
    BY <1>1, <2>2, Zenon DEF NewHeapFrom
  <2>3. ASSUME NEW t \in Timers, NEW delay \in Delays, AddTimer(t, delay)
        PROVE  Ordered'
    BY <1>1, <2>3, AddTimerOK
  <2>4. ~ Pop /\ ~ TickPop
    <3>1. ASSUME NEW next, PopRoot(next) PROVE cur_size' = cur_size - 1
      BY <3>1, Zenon DEF PopRoot
    <3> QED BY <2>1, <3>1, Zenon DEF Pop, TickPop
  <2> QED BY <1>1, <2>1, <2>2, <2>3, <2>4, SizeChanges
<1>2. IndInv /\ [Next]_vars => [pc # "none" /\ cur_size' > cur_size /\ Ordered => Ordered']_vars
  BY <1>1
<1> QED BY <1>2, IndInvAlways, PTL DEF Spec, AddKeepsOrder

LEMMA PopRootFindsEarliest ==
    ASSUME IndInv, Running, ~empty, NEW next \in {"idle", "ticking"}, PopRoot(next),
           pc' # "undefined", Ordered
    PROVE  Intact' /\ \A t \in alive' : expire'[array'[0]] <= expire'[t]
<1> DEFINE N == capacity
           n == cur_size
           a == Put(array, 0, array[n - 1])
           T == alive \ {array[0]}
           d == Put(expire, array[0], 0)
           r == array'
<1>1. /\ alive' = T /\ expire' = d /\ r = PercolateDown(a, n - 1, 0, T, d)
      /\ pc' = IF r = Wreck THEN "undefined"
               ELSE IF GoesAstray(a, r, n - 1) THEN "astray" ELSE next
  BY Zenon DEF PopRoot, Put
<1>2. /\ array \in [0 .. N - 1 -> Ptr] /\ N \in Nat \ {0}
      /\ Holds(array, n, alive) /\ alive \subseteq Timers
      /\ expire \in [Timers -> Nat]
      /\ n \in Nat /\ n \in 0 .. N
  BY RunningIs
<1> HIDE DEF N
<1>3. n \in 1 .. N
  BY <1>2 DEF empty
<1>4. InOrder(array, n, expire)
  BY DEF Ordered, InOrder
<1> HIDE DEF n, a, T, d, r
<1>5. r # Wreck
  BY <1>1
<1>6. /\ ~ GoesAstray(a, r, n - 1)
      /\ \A t \in T : d[r[0]] <= d[t]
  <2>1. a = Put(array, 0, array[n - 1]) /\ T = alive \ {array[0]} /\ d = Put(expire, array[0], 0)
    BY DEF a, T, d
  <2> QED BY <1>1, <1>2, <1>3, <1>4, <1>5, <2>1, PopOfOrdered
<1>7. Intact'
  BY <1>1, <1>5, <1>6 DEF Intact
<1>8. \A t \in alive' : expire'[array'[0]] <= expire'[t]
  BY <1>1, <1>6 DEF r
<1> QED BY <1>7, <1>8

(* pop() of a heap in order, if it survives what percolate_down reads      *)
(* (lines 128 to 143), moves no entry from behind the last timer and has   *)
(* the earliest of the other timers at the root.                           *)
THEOREM PopBringsEarliest == Spec => PopFindsEarliest
<1> DEFINE Goal == Intact' /\ \A t \in alive' : expire'[array'[0]] <= expire'[t]
<1>1. ASSUME IndInv, [Next]_vars, cur_size' < cur_size, pc' # "undefined", Ordered
      PROVE  Goal
  <2>1. cur_size \in Nat /\ cur_size' # cur_size
    BY <1>1, SizeIsNat
  <2>2. ASSUME NEW cap \in Capacities, NEW a \in Arrays, NewHeapFrom(a, Cardinality(DOMAIN a), cap)
        PROVE  FALSE
    <3>1. pc = "none" /\ cur_size' = Cardinality(DOMAIN a)
      BY <2>2, Zenon DEF NewHeapFrom
    <3>2. cur_size = 0 /\ Cardinality(DOMAIN a) \in Nat
      BY <1>1, <3>1, ArraysAre DEF IndInv
    <3> QED BY <1>1, <3>1, <3>2
  <2>3. ASSUME NEW t \in Timers, NEW delay \in Delays, AddTimer(t, delay)
        PROVE  FALSE
    <3>1. cur_size' = cur_size + 1
      BY <2>3, Zenon DEF AddTimer
    <3> QED BY <1>1, <2>1, <3>1
  <2>4. CASE Pop
    <3>1. pc = "idle" /\ ~empty /\ PopRoot("idle")
      BY <2>4, Zenon DEF Pop
    <3>2. Running /\ "idle" \in {"idle", "ticking"}
      BY <3>1 DEF Running
    <3> QED BY <1>1, <3>1, <3>2, PopRootFindsEarliest
  <2>5. CASE TickPop
    <3>1. (pc = "firing" \/ (pc = "ticking" /\ Due)) /\ PopRoot("ticking")
      BY <2>5, Zenon DEF TickPop
    <3>2. Running /\ ~empty /\ "ticking" \in {"idle", "ticking"}
      BY <1>1, <3>1 DEF Running, Due, IndInv
    <3> QED BY <1>1, <3>1, <3>2, PopRootFindsEarliest
  <2> HIDE DEF Goal
  <2> QED BY <1>1, <2>1, <2>2, <2>3, <2>4, <2>5, SizeChanges
<1>2. IndInv /\ [Next]_vars =>
        [cur_size' < cur_size /\ pc' # "undefined" /\ Ordered => Goal]_vars
  BY <1>1
<1> QED BY <1>2, IndInvAlways, PTL DEF Spec, PopFindsEarliest

(* A tick() that ends on a heap in order leaves no timer that was due when *)
(* it read the clock, with a callback or without (lines 106 to 121).       *)
THEOREM TickServesAllDue == Spec => TickServesDue
<1>1. ASSUME IndInv, [Next]_vars, pc = "ticking", pc' = "idle", Ordered
      PROVE  \A t \in alive : expire[t] > cur
  <2>1. TickEnd
    <3>1. ASSUME NEW cap \in Capacities, NewHeap(cap) PROVE FALSE
      BY <1>1, <3>1, Zenon DEF NewHeap
    <3>2. ASSUME NEW cap, NEW size, NewHeapThrows(size, cap) PROVE FALSE
      BY <1>1, <3>2, Zenon DEF NewHeapThrows
    <3>3. ASSUME NEW a, NEW size, NEW cap, NewHeapFrom(a, size, cap) PROVE FALSE
      BY <1>1, <3>3, Zenon DEF NewHeapFrom
    <3>4. ASSUME NEW t, NEW delay, AddTimer(t, delay) PROVE FALSE
      BY <1>1, <3>4, Zenon DEF AddTimer
    <3>5. ASSUME NEW t, DeleteTimer(t) PROVE FALSE
      BY <1>1, <3>5, Zenon DEF DeleteTimer
    <3>6. ~ TimePasses /\ ~ Pop /\ ~ TickBegin /\ ~ TickFire /\ ~ Destroy
      BY <1>1 DEF TimePasses, Pop, TickBegin, TickFire, Destroy
    <3>7. ~ TickPop
      BY <1>1 DEF TickPop, PopRoot
    <3>8. ~ UNCHANGED vars
      BY <1>1 DEF vars
    <3> QED BY <1>1, <3>1, <3>2, <3>3, <3>4, <3>5, <3>6, <3>7, <3>8, StepIs, Zenon
  <2>2. Holds(array, cur_size, alive) /\ cur_size \in Nat /\ alive \subseteq Timers
        /\ expire \in [Timers -> Nat]
    BY <1>1, RunningIs DEF Running
  <2>3. \A i \in 0 .. cur_size - 1 : array[i] \in Timers
    BY <2>2 DEF Holds
  <2>4. InOrder(array, cur_size, expire)
    BY <1>1 DEF Ordered, InOrder
  <2>5. ASSUME NEW t \in alive
        PROVE  expire[t] > cur
    <3>1. PICK i \in 0 .. cur_size - 1 : array[i] = t
      BY <2>2 DEF Holds
    <3>2. 0 \in 0 .. cur_size - 1 /\ ~empty
      BY <2>2, <3>1 DEF empty
    <3>3. tmp = array[0] /\ array[0] \in Timers
      BY <1>1, <2>3, <3>2 DEF IndInv
    <3>4. ~ (expire[tmp] <= cur)
      <4>1. tmp # NULL
        BY <3>3, HeapAssumption
      <4> QED BY <2>1, <3>2, <4>1 DEF TickEnd, Leaves, Due
    <3>5. expire[array[0]] <= expire[array[i]]
      BY <2>2, <2>3, <2>4, RootIsEarliest
    <3>6. cur \in Nat /\ expire[array[0]] \in Nat /\ expire[t] \in Nat
      <4>1. cur \in 0 .. MaxTime
        BY <1>1 DEF IndInv, TypeOK
      <4> QED BY <2>2, <3>3, <4>1, HeapAssumption
    <3> QED BY <3>1, <3>3, <3>4, <3>5, <3>6
  <2> QED BY <2>5
<1>2. IndInv /\ [Next]_vars =>
        [pc = "ticking" /\ pc' = "idle" /\ Ordered => \A t \in alive : expire[t] > cur]_vars
  BY <1>1
<1> QED BY <1>2, IndInvAlways, PTL DEF Spec, TickServesDue

(* The constructor from an array (lines 22 to 46) never makes a heap of    *)
(* three timers or more: it writes or reads behind the new array.          *)
THEOREM ConstructorOverruns ==
    Spec => [][pc = "none" /\ cur_size' >= 3 => pc' = "undefined"]_vars
<1>1. ASSUME IndInv, [Next]_vars, pc = "none", cur_size' >= 3
      PROVE  pc' = "undefined"
  <2>1. cur_size = 0 /\ cur_size' # cur_size
    BY <1>1 DEF IndInv
  <2>2. ASSUME NEW cap \in Capacities, NEW a \in Arrays, NewHeapFrom(a, Cardinality(DOMAIN a), cap)
        PROVE  pc' = "undefined"
    BY <1>1, <2>2, NewHeapFromOK
  <2>3. ASSUME NEW t, NEW delay, AddTimer(t, delay) PROVE FALSE
    BY <1>1, <2>3, Zenon DEF AddTimer
  <2>4. ~ Pop /\ ~ TickPop
    BY <1>1 DEF Pop, TickPop
  <2> QED BY <1>1, <2>1, <2>2, <2>3, <2>4, SizeChanges
<1>2. IndInv /\ [Next]_vars => [pc = "none" /\ cur_size' >= 3 => pc' = "undefined"]_vars
  BY <1>1
<1> QED BY <1>2, IndInvAlways, PTL DEF Spec


=============================================================================
