------------------------- MODULE SortTimerListProofs -------------------------
(***************************************************************************)
(* The sorted timer list, for any number of timers, any clock and any      *)
(* delays, and whatever the callbacks do inside tick().                    *)
(***************************************************************************)
EXTENDS SortTimerList, FiniteSetTheorems, FunctionTheorems, WellFoundedInduction, TLAPS

(* The order of the naturals, as a relation.                               *)
Less == {ss \in Nat \X Nat : ss[1] < ss[2]}

LEMMA LessIsWellFounded == IsWellFoundedOn(Less, Nat)
BY NatLessThanWellFounded, Zenon DEF OpToRel, Less

(* A set of naturals has a least element.                                  *)
LEMMA Least ==
    ASSUME NEW S, S \subseteq Nat, S # {}
    PROVE  \E m \in S : \A x \in S : m <= x
<1>1. PICK m \in S : \A x \in S : ~ (<<x, m>> \in Less)
  BY LessIsWellFounded, WFMin
<1>2. \A x \in S : ~ (x < m)
  BY <1>1 DEF Less
<1> QED BY <1>2

(* Induction over the naturals, for a set instead of a predicate.          *)
LEMMA SetInduction ==
    ASSUME NEW D, 0 \in D, \A n \in Nat : n \in D => n + 1 \in D
    PROVE  Nat \subseteq D
<1> SUFFICES ASSUME Nat \ D # {}
             PROVE  FALSE
  OBVIOUS
<1>1. PICK m \in Nat \ D : \A x \in Nat \ D : m <= x
  BY Least
<1>2. m # 0 /\ m - 1 \in Nat /\ ~ (m <= m - 1) /\ (m - 1) + 1 = m
  BY <1>1
<1>3. m - 1 \in D
  BY <1>1, <1>2
<1> QED BY <1>1, <1>2, <1>3

-----------------------------------------------------------------------------
(* The equation by which Chain walks the list.                             *)
Walks(l, p, f) ==
    f = [i \in Nat |-> IF i <= 1 THEN p
                       ELSE IF f[i - 1] = NULL THEN NULL ELSE l.next[f[i - 1]]]

(* A function that satisfies it is the walk: there is no other.            *)
LEMMA WalkIs ==
    ASSUME NEW l, NEW p, NEW g, Walks(l, p, g),
           NEW S, S = {i \in 1 .. Cardinality(Timers) + 1 : g[i] # NULL},
           NEW h, h = [i \in S |-> g[i]]
    PROVE  Chain(l, p) = h
<1> DEFINE at == CHOOSE f : f = [i \in Nat |-> IF i <= 1 THEN p
                                   ELSE IF f[i - 1] = NULL THEN NULL ELSE l.next[f[i - 1]]]
<1>1. Walks(l, p, at)
  <2>1. g = [i \in Nat |-> IF i <= 1 THEN p
                           ELSE IF g[i - 1] = NULL THEN NULL ELSE l.next[g[i - 1]]]
    BY DEF Walks
  <2> QED BY <2>1, Zenon DEF Walks
<1>2. Chain(l, p) = [i \in {i \in 1 .. Cardinality(Timers) + 1 : at[i] # NULL} |-> at[i]]
  BY Zenon DEF Chain
<1> HIDE DEF at
<1>3. at = g
  <2> DEFINE D == {i \in Nat : at[i] = g[i]}
  <2>1. 0 \in D
    BY <1>1 DEF Walks
  <2>2. ASSUME NEW i \in Nat, i \in D
        PROVE  i + 1 \in D
    <3>1. (i + 1) - 1 = i /\ i + 1 \in Nat
      OBVIOUS
    <3>2. at[i + 1] = IF i + 1 <= 1 THEN p ELSE IF at[i] = NULL THEN NULL ELSE l.next[at[i]]
      BY <1>1, <3>1 DEF Walks
    <3>3. g[i + 1] = IF i + 1 <= 1 THEN p ELSE IF g[i] = NULL THEN NULL ELSE l.next[g[i]]
      BY <3>1 DEF Walks
    <3> QED BY <2>2, <3>2, <3>3
  <2>3. Nat \subseteq D
    <3> HIDE DEF D
    <3> QED BY <2>1, <2>2, SetInduction
  <2> QED BY <1>1, <2>3 DEF Walks
<1> QED BY <1>2, <1>3

(* The links say what w says: w[1] to w[n] from head to tail, each timer   *)
(* once.                                                                   *)
Linked(l, w, n) ==
    /\ n \in Nat /\ w \in [1 .. n -> Timers]
    /\ \A i, j \in 1 .. n : w[i] = w[j] => i = j
    /\ l.head = IF n = 0 THEN NULL ELSE w[1]
    /\ \A i \in 1 .. n : l.next[w[i]] = IF i = n THEN NULL ELSE w[i + 1]
    /\ \A i \in 1 .. n : l.prev[w[i]] = IF i = 1 THEN NULL ELSE w[i - 1]
    /\ n > 0 => l.tail = w[n]

LEMMA LinkedTypes ==
    ASSUME NEW l, NEW w, NEW n, Linked(l, w, n)
    PROVE  n \in Nat /\ w \in [1 .. n -> Timers] /\ \A i \in 1 .. n : w[i] \in Timers /\ w[i] # NULL
BY ListAssumption DEF Linked

(* There are no more timers on the list than there are.                    *)
LEMMA LinkedFits ==
    ASSUME NEW l, NEW w, NEW n, Linked(l, w, n)
    PROVE  n <= Cardinality(Timers) /\ Cardinality(Timers) \in Nat
<1>1. IsFiniteSet(1 .. n) /\ Cardinality(1 .. n) = n
  BY FS_Interval DEF Linked
<1>2. w \in Injection(1 .. n, Timers)
  BY DEF Linked, Injection, IsInjective
<1>3. Cardinality(1 .. n) <= Cardinality(Timers)
  BY <1>2, FS_Injection, ListAssumption
<1> QED BY <1>1, <1>3, FS_CardinalityType, ListAssumption

(* What the walk from the k-th timer finds: it and the ones after it.      *)
LEMMA ChainIs ==
    ASSUME NEW l, NEW w, NEW n, Linked(l, w, n), NEW k \in 1 .. n
    PROVE  Chain(l, w[k]) = [i \in 1 .. n - k + 1 |-> w[i + k - 1]]
<1> DEFINE g == [i \in Nat |-> IF i <= 1 THEN w[k] ELSE IF i + k - 1 <= n THEN w[i + k - 1] ELSE NULL]
<1>1. n \in Nat /\ k \in Nat /\ \A i \in 1 .. n : w[i] \in Timers /\ w[i] # NULL
  BY ListAssumption DEF Linked
<1>2. ASSUME NEW i \in Nat
      PROVE  g[i] = IF i <= 1 THEN w[k] ELSE IF g[i - 1] = NULL THEN NULL ELSE l.next[g[i - 1]]
  <2>1. CASE i <= 1
    BY <2>1
  <2>2. CASE i > 1 /\ i + k - 2 <= n
    <3>1. i - 1 \in Nat /\ i + k - 2 \in 1 .. n /\ (i - 1) + k - 1 = i + k - 2 /\ (i + k - 2) + 1 = i + k - 1
      <4> HIDE DEF g
      <4>1. i \in Nat /\ k \in Nat /\ n \in Nat /\ k >= 1
        BY <1>1
      <4> QED BY <2>2, <4>1
    <3>2. g[i - 1] = w[i + k - 2]
      <4>1. (i - 1 <= 1 => i - 1 = 1 /\ i + k - 2 = k) /\ (i - 1) + k - 1 <= n
        <5> HIDE DEF g
        <5>1. i \in Nat /\ k \in Nat /\ n \in Nat
          BY <1>1
        <5> QED BY <2>2, <5>1
      <4> QED BY <3>1, <4>1
    <3>3. l.next[w[i + k - 2]] = IF i + k - 2 = n THEN NULL ELSE w[i + k - 1]
      BY <3>1 DEF Linked
    <3> QED BY <1>1, <2>2, <3>1, <3>2, <3>3
  <2>3. CASE i > 1 /\ n < i + k - 2
    <3>1. g[i - 1] = NULL /\ g[i] = NULL
      BY <1>1, <2>3
    <3> QED BY <2>3, <3>1
  <2> QED BY <1>1, <2>1, <2>2, <2>3
<1>3. Walks(l, w[k], g)
  BY <1>2 DEF Walks
<1>4. {i \in 1 .. Cardinality(Timers) + 1 : g[i] # NULL} = 1 .. n - k + 1
  BY <1>1, LinkedFits
<1>5. \A i \in 1 .. n - k + 1 : g[i] = w[i + k - 1]
  BY <1>1
<1> DEFINE h == [i \in 1 .. n - k + 1 |-> w[i + k - 1]]
           S == 1 .. n - k + 1
<1>6. h = [i \in S |-> g[i]]
  BY <1>5
<1> HIDE DEF g, h, S
<1>7. Chain(l, w[k]) = h
  <2>1. S = {i \in 1 .. Cardinality(Timers) + 1 : g[i] # NULL}
    BY <1>4 DEF S
  <2> QED BY <1>3, <1>6, <2>1, WalkIs
<1> QED BY <1>7 DEF h

LEMMA ChainOfNothing ==
    ASSUME NEW l
    PROVE  Chain(l, NULL) = <<>>
<1> DEFINE g == [i \in Nat |-> NULL]
<1>1. Walks(l, NULL, g)
  BY DEF Walks
<1>2. {i \in 1 .. Cardinality(Timers) + 1 : g[i] # NULL} = {}
  BY FS_CardinalityType, ListAssumption
<1> DEFINE h == <<>>
           S == {}
<1>3. h = [i \in S |-> g[i]]
  OBVIOUS
<1> HIDE DEF g, h, S
<1>4. Chain(l, NULL) = h
  <2>1. S = {i \in 1 .. Cardinality(Timers) + 1 : g[i] # NULL}
    BY <1>2 DEF S
  <2> QED BY <1>1, <1>3, <2>1, WalkIs
<1> QED BY <1>4 DEF h

-----------------------------------------------------------------------------
(* A timer put at place p, and the timer at place q taken out.             *)
Inserted(w, n, p, t) ==
    [i \in 1 .. n + 1 |-> IF i < p THEN w[i] ELSE IF i = p THEN t ELSE w[i - 1]]
Removed(w, n, q) == [i \in 1 .. n - 1 |-> IF i < q THEN w[i] ELSE w[i + 1]]

(* The links that do so.                                                   *)
LEMMA InsertLinks ==
    ASSUME NEW l, NEW w, NEW n, Linked(l, w, n),
           NEW t \in Timers, \A i \in 1 .. n : w[i] # t, NEW p \in 1 .. n + 1, NEW m,
           m.head = IF p = 1 THEN t ELSE l.head,
           m.tail = IF p = n + 1 THEN t ELSE l.tail,
           \A x \in Timers : m.next[x] = IF x = t THEN IF p = n + 1 THEN NULL ELSE w[p]
                                         ELSE IF p > 1 /\ x = w[p - 1] THEN t ELSE l.next[x],
           \A x \in Timers : m.prev[x] = IF x = t THEN IF p = 1 THEN NULL ELSE w[p - 1]
                                         ELSE IF p <= n /\ x = w[p] THEN t ELSE l.prev[x]
    PROVE  Linked(m, Inserted(w, n, p, t), n + 1)
<1> DEFINE v == Inserted(w, n, p, t)
<1>0. n \in Nat /\ \A i \in 1 .. n : w[i] \in Timers
  BY LinkedTypes, Zenon
<1>1. n \in Nat /\ p \in Nat /\ n + 1 \in Nat /\ \A i \in 1 .. n : w[i] \in Timers
  BY <1>0
<1>2. \A i \in 1 .. n + 1 : v[i] = IF i < p THEN w[i] ELSE IF i = p THEN t ELSE w[i - 1]
  BY DEF Inserted
<1>3. \A i \in 1 .. n + 1 : /\ i < p => i \in 1 .. n
                            /\ i > p => i - 1 \in 1 .. n
                            /\ i # p => v[i] \in Timers /\ v[i] # t
                            /\ i = p => v[i] = t
  BY <1>1, <1>2
<1>4. v \in [1 .. n + 1 -> Timers]
  BY <1>1, <1>3 DEF Inserted
<1>5. ASSUME NEW i \in 1 .. n + 1, NEW j \in 1 .. n + 1, v[i] = v[j]
      PROVE  i = j
  BY <1>1, <1>2, <1>3, <1>5 DEF Linked
<1> HIDE DEF v
<1>6. m.head = v[1] /\ m.tail = v[n + 1]
  BY <1>1, <1>2 DEF Linked
<1>7. ASSUME NEW i \in 1 .. n + 1
      PROVE  m.next[v[i]] = IF i = n + 1 THEN NULL ELSE v[i + 1]
  <2>1. CASE i = p
    BY <1>1, <1>2, <2>1
  <2>2. CASE i + 1 = p
    <3>1. i = p - 1 /\ p > 1 /\ i # n + 1 /\ i < p /\ i + 1 \in 1 .. n + 1
      BY <1>1, <2>2
    <3>2. v[i] = w[p - 1] /\ v[i + 1] = t
      BY <1>1, <1>2, <2>2, <3>1
    <3>3. v[i] \in Timers /\ v[i] # t
      BY <1>1, <1>3, <3>1
    <3> QED BY <3>1, <3>2, <3>3
  <2>3. CASE i < p /\ i + 1 # p
    <3>1. /\ v[i] = w[i] /\ i \in 1 .. n /\ p - 1 \in 1 .. n /\ i # p - 1
          /\ i + 1 \in 1 .. n + 1 /\ i # n /\ i # n + 1 /\ v[i + 1] = w[i + 1]
      BY <1>1, <1>2, <2>3
    <3>2. w[i] # w[p - 1] /\ w[i] # t /\ l.next[w[i]] = w[i + 1]
      BY <3>1 DEF Linked
    <3> QED BY <1>1, <3>1, <3>2
  <2>4. CASE i > p
    <3>1. /\ v[i] = w[i - 1] /\ i - 1 \in 1 .. n /\ (p > 1 => p - 1 \in 1 .. n /\ p - 1 # i - 1)
          /\ (i # n + 1 => i + 1 \in 1 .. n + 1 /\ v[i + 1] = w[i]) /\ (i - 1) + 1 = i
      BY <1>1, <1>2, <2>4
    <3>2. m.next[v[i]] = l.next[w[i - 1]]
      BY <1>1, <1>3, <2>4, <3>1 DEF Linked
    <3> QED BY <1>1, <3>1, <3>2 DEF Linked
  <2> QED BY <1>1, <2>1, <2>2, <2>3, <2>4
<1>8. ASSUME NEW i \in 1 .. n + 1
      PROVE  m.prev[v[i]] = IF i = 1 THEN NULL ELSE v[i - 1]
  <2>1. CASE i = p
    BY <1>1, <1>2, <2>1
  <2>2. CASE i = p + 1
    <3>1. v[i] = w[p] /\ p <= n /\ p \in 1 .. n /\ v[i - 1] = t /\ i # 1
      BY <1>1, <1>2, <2>2
    <3> QED BY <1>1, <3>1
  <2>3. CASE i < p
    <3>1. v[i] = w[i] /\ i \in 1 .. n /\ (p <= n => p \in 1 .. n) /\ (i # 1 => v[i - 1] = w[i - 1])
      BY <1>1, <1>2, <2>3
    <3> QED BY <1>1, <2>3, <3>1 DEF Linked
  <2>4. CASE i > p + 1
    <3>1. /\ v[i] = w[i - 1] /\ i - 1 \in 1 .. n /\ p \in 1 .. n /\ p # i - 1 /\ i # 1
          /\ v[i - 1] = w[(i - 1) - 1]
      BY <1>1, <1>2, <2>4
    <3> QED BY <1>1, <2>4, <3>1 DEF Linked
  <2> QED BY <1>1, <2>1, <2>2, <2>3, <2>4
<1> QED BY <1>1, <1>4, <1>5, <1>6, <1>7, <1>8 DEF Linked, v

LEMMA RemoveLinks ==
    ASSUME NEW l, NEW w, NEW n, Linked(l, w, n), NEW q \in 1 .. n, NEW m,
           m.head = IF q = 1 THEN l.next[w[1]] ELSE l.head,
           q < n => m.tail = l.tail,
           q = n => n = 1,
           \A x \in Timers \ {w[q]} :
              m.next[x] = IF q > 1 /\ x = w[q - 1] THEN l.next[w[q]] ELSE l.next[x],
           \A x \in Timers \ {w[q]} :
              m.prev[x] = IF q < n /\ x = w[q + 1] THEN l.prev[w[q]] ELSE l.prev[x]
    PROVE  Linked(m, Removed(w, n, q), n - 1)
<1> DEFINE v == Removed(w, n, q)
<1>0. n \in Nat /\ \A i \in 1 .. n : w[i] \in Timers
  BY DEF Linked
<1>1. n \in Nat /\ q \in Nat /\ n - 1 \in Nat /\ \A i \in 1 .. n : w[i] \in Timers
  BY <1>0
<1>2. \A i \in 1 .. n - 1 : v[i] = IF i < q THEN w[i] ELSE w[i + 1]
  BY DEF Removed
<1>3. \A i \in 1 .. n - 1 : i \in 1 .. n /\ i + 1 \in 1 .. n
  BY <1>1
<1>4. v \in [1 .. n - 1 -> Timers]
  BY <1>1, <1>3 DEF Removed
<1> HIDE DEF v
<1>5. \A i, j \in 1 .. n - 1 : v[i] = v[j] => i = j
  BY <1>1, <1>2, <1>3 DEF Linked
<1>6. \A i \in 1 .. n - 1 : v[i] \in Timers \ {w[q]}
  BY <1>1, <1>2, <1>3 DEF Linked
<1>7. m.head = IF n - 1 = 0 THEN NULL ELSE v[1]
  BY <1>1, <1>2 DEF Linked
<1>8. n - 1 > 0 => m.tail = v[n - 1]
  BY <1>1, <1>2 DEF Linked
<1>9. ASSUME NEW i \in 1 .. n - 1
      PROVE  m.next[v[i]] = IF i = n - 1 THEN NULL ELSE v[i + 1]
  <2>1. CASE i < q - 1
    <3>1. v[i] = w[i] /\ i \in 1 .. n /\ q - 1 \in 1 .. n /\ i # q - 1 /\ v[i + 1] = w[i + 1] /\ i # n - 1 /\ i # n
      BY <1>1, <1>2, <2>1
    <3> QED BY <1>1, <1>6, <3>1 DEF Linked
  <2>2. CASE i = q - 1
    <3>1. v[i] = w[q - 1] /\ q > 1 /\ (i # n - 1 => v[i + 1] = w[q + 1]) /\ (i = n - 1 <=> q = n)
      BY <1>1, <1>2, <2>2
    <3> QED BY <1>1, <1>6, <3>1 DEF Linked
  <2>3. CASE i >= q
    <3>1. v[i] = w[i + 1] /\ i + 1 \in 1 .. n /\ (q > 1 => q - 1 \in 1 .. n) /\ i + 1 # q - 1
          /\ (i # n - 1 => v[i + 1] = w[(i + 1) + 1]) /\ (i = n - 1 <=> i + 1 = n)
      <4>1. i \in Nat /\ i + 1 \in 1 .. n /\ (q > 1 => q - 1 \in 1 .. n) /\ i + 1 # q - 1
            /\ (i # n - 1 => i + 1 \in 1 .. n - 1) /\ ~ (i < q) /\ ~ (i + 1 < q) /\ (i = n - 1 <=> i + 1 = n)
        BY <1>1, <2>3
      <4> QED BY <1>2, <4>1
    <3>2. /\ l.next[w[i + 1]] = IF i + 1 = n THEN NULL ELSE w[(i + 1) + 1]
          /\ q > 1 => w[i + 1] # w[q - 1]
      BY <3>1 DEF Linked
    <3>3. m.next[v[i]] = l.next[w[i + 1]]
      BY <1>6, <3>1, <3>2
    <3> QED BY <3>1, <3>2, <3>3
  <2> QED BY <1>1, <2>1, <2>2, <2>3
<1>10. ASSUME NEW i \in 1 .. n - 1
       PROVE  m.prev[v[i]] = IF i = 1 THEN NULL ELSE v[i - 1]
  <2>1. CASE i < q
    <3>1. v[i] = w[i] /\ i \in 1 .. n /\ (q < n => q + 1 \in 1 .. n) /\ i # q + 1 /\ (i # 1 => v[i - 1] = w[i - 1])
      BY <1>1, <1>2, <2>1
    <3> QED BY <1>1, <1>6, <3>1 DEF Linked
  <2>2. CASE i = q
    <3>1. v[i] = w[q + 1] /\ q < n /\ (i # 1 => v[i - 1] = w[q - 1])
      BY <1>1, <1>2, <2>2
    <3> QED BY <1>1, <1>6, <2>2, <3>1 DEF Linked
  <2>3. CASE i > q
    <3>1. v[i] = w[i + 1] /\ i + 1 \in 1 .. n /\ q + 1 \in 1 .. n /\ i + 1 # q + 1 /\ i # 1 /\ i + 1 # 1
          /\ v[i - 1] = w[(i + 1) - 1]
      BY <1>1, <1>2, <2>3
    <3>2. w[i + 1] # w[q + 1] /\ l.prev[w[i + 1]] = w[(i + 1) - 1]
      BY <3>1 DEF Linked
    <3> QED BY <1>6, <3>1, <3>2
  <2> QED BY <1>1, <2>1, <2>2, <2>3
<1> QED BY <1>1, <1>4, <1>5, <1>7, <1>8, <1>9, <1>10 DEF Linked, v

-----------------------------------------------------------------------------
ListType == [head : Ptr, tail : Ptr, next : [Timers -> Ptr], prev : [Timers -> Ptr]]

(* The timers that are neither t nor on the list are left alone.           *)
AsBefore(l, m, w, n, t) ==
    \A x \in Timers : x # t /\ (\A i \in 1 .. n : w[i] # x) =>
                       m.next[x] = l.next[x] /\ m.prev[x] = l.prev[x]

(* The private add_timer puts t behind the timers after the k-th whose     *)
(* deadlines are not later than its own, and before the first that is.     *)
LEMMA InsertAfterPlaces ==
    ASSUME NEW l \in ListType, NEW w, NEW n, Linked(l, w, n), NEW k \in 1 .. n,
           NEW t \in Timers, \A i \in 1 .. n : w[i] # t, NEW e \in [Timers -> Nat]
    PROVE  \E p \in k + 1 .. n + 1 :
              /\ Linked(InsertAfter(l, e, t, w[k]), Inserted(w, n, p, t), n + 1)
              /\ InsertAfter(l, e, t, w[k]) \in ListType
              /\ AsBefore(l, InsertAfter(l, e, t, w[k]), w, n, t)
              /\ \A i \in k + 1 .. p - 1 : e[w[i]] <= e[t]
              /\ p <= n => e[t] < e[w[p]]
<1> DEFINE c == [i \in 1 .. n - k + 1 |-> w[i + k - 1]]
           later == {i \in 2 .. n - k + 1 : e[t] < e[c[i]]}
           m == InsertAfter(l, e, t, w[k])
<1>1. /\ n \in Nat /\ k \in Nat /\ k <= n /\ n - k + 1 \in Nat
      /\ \A i \in 1 .. n : w[i] \in Timers /\ w[i] # NULL
      /\ t # NULL
  <2>1. n \in Nat /\ \A i \in 1 .. n : w[i] \in Timers /\ w[i] # NULL
    BY LinkedTypes, Zenon
  <2>2. t # NULL
    BY ListAssumption, Zenon
  <2> QED BY <2>1, <2>2
<1>2. Chain(l, w[k]) = c
  BY ChainIs
<1>3. \A i \in 1 .. n - k + 1 : c[i] = w[i + k - 1] /\ i + k - 1 \in 1 .. n
  BY <1>1
<1>4. Len(c) = n - k + 1
  BY <1>1
<1> HIDE DEF c
<1>5. CASE later = {}
  <2>1. c[(Len(c) + 1) - 1] = w[n]
    BY <1>1, <1>3, <1>4
  <2>2. m = LinkLast(l, t, w[n])
    <3>1. {i \in 2 .. Len(Chain(l, w[k])) : e[t] < e[Chain(l, w[k])[i]]} = {}
      BY <1>2, <1>4, <1>5
    <3> QED BY <1>2, <2>1, <3>1 DEF InsertAfter
  <2> HIDE DEF m
  <2>3. w[n] \in Timers /\ w[n] # t /\ n \in 1 .. n
    BY <1>1
  <2>4. /\ m.head = l.head /\ m.tail = t
        /\ m.next = [l.next EXCEPT ![w[n]] = t, ![t] = NULL]
        /\ m.prev = [l.prev EXCEPT ![t] = w[n]]
        /\ m \in ListType
    BY <1>1, <2>2, <2>3 DEF LinkLast, ListType, Ptr
  <2>5. \A x \in Timers : /\ m.next[x] = IF x = t THEN NULL ELSE IF x = w[n] THEN t ELSE l.next[x]
                          /\ m.prev[x] = IF x = t THEN w[n] ELSE l.prev[x]
    BY <2>3, <2>4 DEF ListType
  <2>6. n + 1 \in 1 .. n + 1 /\ n + 1 \in k + 1 .. n + 1 /\ n + 1 > 1 /\ (n + 1) - 1 = n /\ ~ (n + 1 <= n) /\ n + 1 # 1
    BY <1>1
  <2>7. Linked(m, Inserted(w, n, n + 1, t), n + 1)
    <3> DEFINE p == n + 1
    <3>1. /\ p \in 1 .. n + 1
          /\ m.head = IF p = 1 THEN t ELSE l.head
          /\ m.tail = IF p = n + 1 THEN t ELSE l.tail
          /\ \A x \in Timers : m.next[x] = IF x = t THEN IF p = n + 1 THEN NULL ELSE w[p]
                                         ELSE IF p > 1 /\ x = w[p - 1] THEN t ELSE l.next[x]
          /\ \A x \in Timers : m.prev[x] = IF x = t THEN IF p = 1 THEN NULL ELSE w[p - 1]
                                         ELSE IF p <= n /\ x = w[p] THEN t ELSE l.prev[x]
      BY <2>4, <2>5, <2>6
    <3> HIDE DEF p
    <3>2. Linked(m, Inserted(w, n, p, t), n + 1)
      BY <3>1, InsertLinks
    <3> QED BY <3>2 DEF p
  <2>8. AsBefore(l, m, w, n, t)
    BY <2>3, <2>5 DEF AsBefore
  <2>9. ASSUME NEW i \in k + 1 .. (n + 1) - 1
        PROVE  e[w[i]] <= e[t]
    <3>1. i - k + 1 \in 2 .. n - k + 1 /\ i - k + 1 \in 1 .. n - k + 1 /\ (i - k + 1) + k - 1 = i /\ i \in 1 .. n
      BY <1>1
    <3>2. c[i - k + 1] = w[i]
      BY <1>3, <3>1
    <3>3. ~ (e[t] < e[w[i]])
      BY <1>5, <3>1, <3>2
    <3> QED BY <1>1, <3>1, <3>3
  <2> QED BY <2>4, <2>6, <2>7, <2>8, <2>9 DEF m
<1>6. CASE later # {}
  <2> DEFINE j == CHOOSE j \in later : \A x \in later : j <= x
             p == j + k - 1
  <2>1. j \in later /\ \A x \in later : j <= x
    <3>1. later \subseteq Nat
      BY <1>1
    <3>2. \E y \in later : \A x \in later : y <= x
      BY <1>6, <3>1, Least
    <3> QED BY <3>2
  <2>2. /\ m = [l EXCEPT !.next[c[j - 1]] = t, !.next[t] = c[j], !.prev[c[j]] = t, !.prev[t] = c[j - 1]]
    <3>1. {i \in 2 .. Len(Chain(l, w[k])) : e[t] < e[Chain(l, w[k])[i]]} = later
      BY <1>2, <1>4
    <3> QED BY <1>2, <1>6, <3>1 DEF InsertAfter
  <2> HIDE DEF j, m
  <2>3. j \in 2 .. n - k + 1 /\ e[t] < e[c[j]] /\ j \in Nat
    BY <1>1, <2>1
  <2>4. /\ p \in Nat /\ p \in 1 .. n /\ p - 1 \in 1 .. n /\ p \in k + 1 .. n + 1 /\ p \in 1 .. n + 1
        /\ p > 1 /\ p # n + 1 /\ p <= n /\ p # 1
        /\ c[j] = w[p] /\ c[j - 1] = w[p - 1]
    <3>1. j - 1 \in 1 .. n - k + 1 /\ j \in 1 .. n - k + 1 /\ (j - 1) + k - 1 = p - 1
      BY <1>1, <2>3
    <3>2. c[j] = w[p] /\ c[j - 1] = w[p - 1]
      BY <1>3, <3>1
    <3>3. p \in Nat /\ p \in 1 .. n /\ p - 1 \in 1 .. n /\ p \in k + 1 .. n + 1
          /\ p > 1 /\ p # n + 1 /\ p <= n /\ p # 1 /\ p \in 1 .. n + 1
      BY <1>1, <2>3
    <3> QED BY <3>2, <3>3
  <2>5. ASSUME NEW i \in k + 1 .. p - 1
        PROVE  e[w[i]] <= e[t]
    <3>1. i - k + 1 \in 2 .. n - k + 1 /\ i - k + 1 \in 1 .. n - k + 1 /\ (i - k + 1) + k - 1 = i
          /\ i \in 1 .. n /\ ~ (j <= i - k + 1)
      BY <1>1, <2>3
    <3>2. c[i - k + 1] = w[i]
      BY <1>3, <3>1
    <3>3. ~ (i - k + 1 \in later)
      BY <2>1, <3>1
    <3>4. ~ (e[t] < e[w[i]])
      BY <3>1, <3>2, <3>3
    <3> QED BY <1>1, <3>1, <3>4
  <2> HIDE DEF p, later
  <2>6. w[p] \in Timers /\ w[p - 1] \in Timers /\ w[p] # t /\ w[p - 1] # t
    BY <1>1, <2>4
  <2>7. /\ m.head = l.head /\ m.tail = l.tail
        /\ m.next = [l.next EXCEPT ![w[p - 1]] = t, ![t] = w[p]]
        /\ m.prev = [l.prev EXCEPT ![w[p]] = t, ![t] = w[p - 1]]
        /\ m \in ListType
    BY <1>1, <2>2, <2>4, <2>6 DEF ListType, Ptr
  <2>8. \A x \in Timers : /\ m.next[x] = IF x = t THEN w[p] ELSE IF x = w[p - 1] THEN t ELSE l.next[x]
                          /\ m.prev[x] = IF x = t THEN w[p - 1] ELSE IF x = w[p] THEN t ELSE l.prev[x]
    BY <2>6, <2>7 DEF ListType
  <2>9. Linked(m, Inserted(w, n, p, t), n + 1)
    <3>1. /\ m.head = IF p = 1 THEN t ELSE l.head
          /\ m.tail = IF p = n + 1 THEN t ELSE l.tail
          /\ \A x \in Timers : m.next[x] = IF x = t THEN IF p = n + 1 THEN NULL ELSE w[p]
                                         ELSE IF p > 1 /\ x = w[p - 1] THEN t ELSE l.next[x]
          /\ \A x \in Timers : m.prev[x] = IF x = t THEN IF p = 1 THEN NULL ELSE w[p - 1]
                                         ELSE IF p <= n /\ x = w[p] THEN t ELSE l.prev[x]
      BY <2>4, <2>7, <2>8
    <3> QED BY <2>4, <3>1, InsertLinks
  <2>10. AsBefore(l, m, w, n, t)
    BY <2>4, <2>8 DEF AsBefore
  <2>11. e[t] < e[w[p]]
    BY <2>3, <2>4
  <2> QED BY <2>4, <2>5, <2>7, <2>9, <2>10, <2>11 DEF m
<1> QED BY <1>5, <1>6
-----------------------------------------------------------------------------
(* The list holds the timers S in the order of the deadlines e, and the    *)
(* links of the others are clear.                                          *)
Members(w, n) == {w[i] : i \in 1 .. n}
Sorted(e, w, n) == \A i, j \in 1 .. n : i <= j => e[w[i]] <= e[w[j]]
Holds(l, e, S, w, n) == Linked(l, w, n) /\ Sorted(e, w, n) /\ S = Members(w, n)
Keeps(l, e, S) == \E n, w : Holds(l, e, S, w, n)
Clear(l, S) == \A x \in Timers \ S : l.next[x] = NULL /\ l.prev[x] = NULL

(* Only the deadlines of the timers on the list matter.                    *)
LEMMA OtherDeadlines ==
    ASSUME NEW l, NEW e, NEW f, NEW S, Keeps(l, e, S), \A x \in S : f[x] = e[x]
    PROVE  Keeps(l, f, S)
<1>1. PICK n, w : Holds(l, e, S, w, n)
  BY DEF Keeps
<1>2. \A i \in 1 .. n : f[w[i]] = e[w[i]]
  BY <1>1 DEF Holds, Members
<1>3. Holds(l, f, S, w, n)
  BY <1>1, <1>2 DEF Holds, Sorted
<1> QED BY <1>3 DEF Keeps

LEMMA SortedInsert ==
    ASSUME NEW l, NEW w, NEW n, Linked(l, w, n), NEW e \in [Timers -> Nat], Sorted(e, w, n),
           NEW t \in Timers, NEW p \in 1 .. n + 1,
           p > 1 => e[w[p - 1]] <= e[t], p <= n => e[t] <= e[w[p]]
    PROVE  /\ Sorted(e, Inserted(w, n, p, t), n + 1)
           /\ Members(Inserted(w, n, p, t), n + 1) = Members(w, n) \cup {t}
<1> DEFINE v == Inserted(w, n, p, t)
<1>1. n \in Nat /\ p \in Nat /\ \A i \in 1 .. n : w[i] \in Timers /\ e[w[i]] \in Nat
  BY DEF Linked
<1>2. \A i \in 1 .. n + 1 : v[i] = IF i < p THEN w[i] ELSE IF i = p THEN t ELSE w[i - 1]
  BY DEF Inserted
<1> HIDE DEF v
<1>3. ASSUME NEW i \in 1 .. n + 1
      PROVE  /\ i < p => e[v[i]] <= e[t]
             /\ i > p => e[t] <= e[v[i]]
  <2>1. CASE i < p
    <3>1. i \in 1 .. n /\ p - 1 \in 1 .. n /\ i <= p - 1 /\ p > 1 /\ v[i] = w[i]
      BY <1>1, <1>2, <2>1
    <3>2. e[w[i]] <= e[w[p - 1]]
      BY <3>1 DEF Sorted
    <3> QED BY <1>1, <2>1, <3>1, <3>2
  <2>2. CASE i > p
    <3>1. i - 1 \in 1 .. n /\ p \in 1 .. n /\ p <= i - 1 /\ p <= n /\ v[i] = w[i - 1]
      BY <1>1, <1>2, <2>2
    <3>2. e[w[p]] <= e[w[i - 1]]
      BY <3>1 DEF Sorted
    <3> QED BY <1>1, <2>2, <3>1, <3>2
  <2>3. CASE i = p
    BY <1>1, <2>3
  <2> QED BY <1>1, <2>1, <2>2, <2>3
<1>4. ASSUME NEW i \in 1 .. n + 1, NEW j \in 1 .. n + 1, i <= j
      PROVE  e[v[i]] <= e[v[j]]
  <2>1. \A h \in 1 .. n + 1 : e[v[h]] \in Nat
    <3> SUFFICES ASSUME NEW h \in 1 .. n + 1
                 PROVE  v[h] \in Timers
      OBVIOUS
    <3>1. (h < p => h \in 1 .. n) /\ (h > p => h - 1 \in 1 .. n)
      BY <1>1
    <3> QED BY <1>1, <1>2, <3>1
  <2>2. CASE j < p
    <3>1. i \in 1 .. n /\ j \in 1 .. n /\ v[i] = w[i] /\ v[j] = w[j]
      BY <1>1, <1>2, <1>4, <2>2
    <3> QED BY <1>4, <3>1 DEF Sorted
  <2>3. CASE i > p
    <3>1. i - 1 \in 1 .. n /\ j - 1 \in 1 .. n /\ i - 1 <= j - 1 /\ v[i] = w[i - 1] /\ v[j] = w[j - 1]
      BY <1>1, <1>2, <1>4, <2>3
    <3> QED BY <3>1 DEF Sorted
  <2>4. CASE i <= p /\ p <= j
    <3>1. v[p] = t /\ e[v[i]] <= e[t] /\ e[t] <= e[v[j]]
      BY <1>1, <1>2, <1>3, <2>4
    <3> QED BY <2>1, <3>1
  <2> QED BY <1>1, <2>2, <2>3, <2>4
<1>5. Members(v, n + 1) = Members(w, n) \cup {t}
  <2>1. ASSUME NEW i \in 1 .. n + 1
        PROVE  v[i] \in Members(w, n) \cup {t}
    <3>1. (i < p => i \in 1 .. n) /\ (i > p => i - 1 \in 1 .. n)
      BY <1>1
    <3> QED BY <1>1, <1>2, <3>1 DEF Members
  <2>2. ASSUME NEW i \in 1 .. n
        PROVE  w[i] \in Members(v, n + 1)
    <3>1. CASE i < p
      <4>1. i \in 1 .. n + 1 /\ v[i] = w[i]
        BY <1>1, <1>2, <3>1
      <4> QED BY <4>1 DEF Members
    <3>2. CASE i >= p
      <4>1. i + 1 \in 1 .. n + 1 /\ (i + 1) - 1 = i /\ ~ (i + 1 < p) /\ i + 1 # p
        BY <1>1, <3>2
      <4>2. v[i + 1] = w[i]
        BY <1>2, <4>1
      <4> QED BY <4>1, <4>2 DEF Members
    <3> QED BY <1>1, <3>1, <3>2
  <2>3. t \in Members(v, n + 1)
    BY <1>1, <1>2 DEF Members
  <2> QED BY <2>1, <2>2, <2>3 DEF Members
<1> QED BY <1>4, <1>5 DEF Sorted, v

LEMMA SortedRemove ==
    ASSUME NEW l, NEW w, NEW n, Linked(l, w, n), NEW e, Sorted(e, w, n), NEW q \in 1 .. n
    PROVE  /\ Sorted(e, Removed(w, n, q), n - 1)
           /\ Members(Removed(w, n, q), n - 1) = Members(w, n) \ {w[q]}
<1> DEFINE v == Removed(w, n, q)
<1>1. n \in Nat /\ q \in Nat /\ \A i, j \in 1 .. n : w[i] = w[j] => i = j
  BY DEF Linked
<1>2. \A i \in 1 .. n - 1 : v[i] = IF i < q THEN w[i] ELSE w[i + 1]
  BY DEF Removed
<1>3. \A i \in 1 .. n - 1 : i \in 1 .. n /\ i + 1 \in 1 .. n /\ i # i + 1
  BY <1>1
<1> HIDE DEF v
<1>4. Sorted(e, v, n - 1)
  BY <1>1, <1>2, <1>3 DEF Sorted
<1>5. ASSUME NEW i \in 1 .. n - 1
      PROVE  v[i] \in Members(w, n) \ {w[q]}
  <2>1. CASE i < q
    <3>1. v[i] = w[i] /\ i \in 1 .. n /\ i # q
      BY <1>1, <1>2, <1>3, <2>1
    <3> QED BY <1>1, <3>1 DEF Members
  <2>2. CASE ~ (i < q)
    <3>1. v[i] = w[i + 1] /\ i + 1 \in 1 .. n /\ i + 1 # q
      BY <1>1, <1>2, <1>3, <2>2
    <3> QED BY <1>1, <3>1 DEF Members
  <2> QED BY <2>1, <2>2
<1>6. ASSUME NEW i \in 1 .. n, w[i] # w[q]
      PROVE  w[i] \in Members(v, n - 1)
  <2>1. CASE i < q
    <3>1. i \in 1 .. n - 1
      BY <1>1, <2>1
    <3> QED BY <1>2, <2>1, <3>1 DEF Members
  <2>2. CASE i >= q
    <3>1. i - 1 \in 1 .. n - 1 /\ (i - 1) + 1 = i /\ ~ (i - 1 < q)
      BY <1>1, <1>6, <2>2
    <3>2. v[i - 1] = w[i]
      BY <1>2, <3>1
    <3> QED BY <3>1, <3>2 DEF Members
  <2> QED BY <1>1, <2>1, <2>2
<1>7. Members(v, n - 1) = Members(w, n) \ {w[q]}
  BY <1>5, <1>6 DEF Members
<1> QED BY <1>4, <1>7 DEF v

(* The head is the timer with the earliest deadline.                       *)
LEMMA HeadIsEarliest ==
    ASSUME NEW l, NEW e, NEW S, Keeps(l, e, S)
    PROVE  /\ S \subseteq Timers
           /\ l.head = NULL => S = {}
           /\ l.head # NULL => l.head \in S /\ \A x \in S : e[l.head] <= e[x]
<1>1. PICK n, w : Holds(l, e, S, w, n)
  BY DEF Keeps
<1>2. n \in Nat /\ (\A i \in 1 .. n : w[i] \in Timers /\ w[i] # NULL) /\ S = Members(w, n)
  BY <1>1, ListAssumption DEF Holds, Linked
<1>3. CASE n = 0
  <2>1. l.head = NULL /\ S = {}
    BY <1>1, <1>2, <1>3 DEF Holds, Linked, Members
  <2> QED BY <2>1
<1>4. CASE n # 0
  <2>1. l.head = w[1] /\ 1 \in 1 .. n /\ \A i \in 1 .. n : 1 <= i
    BY <1>1, <1>2, <1>4 DEF Holds, Linked
  <2>2. \A i \in 1 .. n : e[w[1]] <= e[w[i]]
    BY <1>1, <2>1 DEF Holds, Sorted
  <2> QED BY <1>2, <2>1, <2>2 DEF Members
<1> QED BY <1>3, <1>4

(* add_timer(timer)                                                        *)
LEMMA AddKeeps ==
    ASSUME NEW l \in ListType, NEW e \in [Timers -> Nat], NEW S, NEW t \in Timers \ S,
           Keeps(l, e, S), Clear(l, S)
    PROVE  /\ Add(l, e, t) \in ListType
           /\ Keeps(Add(l, e, t), e, S \cup {t})
           /\ Clear(Add(l, e, t), S \cup {t})
           /\ l.head # NULL /\ ~ (e[t] < e[l.head]) => Add(l, e, t).head = l.head
<1> DEFINE m == Add(l, e, t)
<1>1. PICK n, w : Holds(l, e, S, w, n)
  BY DEF Keeps
<1>2. /\ n \in Nat /\ w \in [1 .. n -> Timers] /\ S = Members(w, n)
      /\ Linked(l, w, n) /\ Sorted(e, w, n)
      /\ \A i \in 1 .. n : w[i] \in Timers /\ w[i] # t /\ w[i] # NULL
      /\ t \in Timers /\ t # NULL
  BY <1>1, ListAssumption DEF Holds, Linked, Members
<1>3. l.next[t] = NULL /\ l.prev[t] = NULL
  BY DEF Clear
<1>4. ASSUME NEW k, k \in ListType, AsBefore(l, k, w, n, t)
      PROVE  Clear(k, S \cup {t})
  BY <1>2, <1>4 DEF AsBefore, Clear, Members
<1>5. CASE n = 0
  <2>1. l.head = NULL
    BY <1>2, <1>5 DEF Linked
  <2>2. m = [l EXCEPT !.head = t, !.tail = t]
    BY <2>1 DEF Add
  <2> HIDE DEF m
  <2>3. m \in ListType /\ m.head = t /\ m.tail = t /\ m.next = l.next /\ m.prev = l.prev
    BY <2>2 DEF ListType, Ptr
  <2>4. 1 \in 1 .. n + 1 /\ n + 1 = 1 /\ ~ (1 <= n)
    BY <1>5
  <2>5. Linked(m, Inserted(w, n, 1, t), n + 1)
    BY <1>2, <1>3, <2>3, <2>4, InsertLinks
  <2>6. Sorted(e, Inserted(w, n, 1, t), n + 1) /\ Members(Inserted(w, n, 1, t), n + 1) = S \cup {t}
    BY <1>2, <2>4, SortedInsert
  <2>7. AsBefore(l, m, w, n, t)
    BY <2>3 DEF AsBefore
  <2> QED BY <1>4, <2>1, <2>3, <2>5, <2>6, <2>7 DEF Holds, Keeps, m
<1>6. CASE n # 0 /\ e[t] < e[l.head]
  <2>1. l.head = w[1] /\ l.head # NULL /\ 1 \in 1 .. n
    BY <1>2, <1>6 DEF Linked
  <2>2. m = [l EXCEPT !.next[t] = l.head, !.prev[l.head] = t, !.head = t]
    BY <1>6, <2>1 DEF Add, BeforeHead
  <2> HIDE DEF m
  <2>3. /\ m \in ListType /\ m.head = t /\ m.tail = l.tail
        /\ m.next = [l.next EXCEPT ![t] = w[1]] /\ m.prev = [l.prev EXCEPT ![w[1]] = t]
    BY <1>2, <2>1, <2>2 DEF ListType, Ptr
  <2>4. \A x \in Timers : /\ m.next[x] = IF x = t THEN w[1] ELSE l.next[x]
                          /\ m.prev[x] = IF x = w[1] THEN t ELSE l.prev[x]
    BY <2>3 DEF ListType
  <2>5. 1 \in 1 .. n + 1 /\ 1 # n + 1 /\ ~ (1 > 1) /\ 1 <= n
    BY <1>2, <1>6
  <2>6. Linked(m, Inserted(w, n, 1, t), n + 1)
    <3>1. \A x \in Timers : m.next[x] = IF x = t THEN IF 1 = n + 1 THEN NULL ELSE w[1]
                                        ELSE IF 1 > 1 /\ x = w[1 - 1] THEN t ELSE l.next[x]
      BY <2>4, <2>5
    <3>2. \A x \in Timers : m.prev[x] = IF x = t THEN IF 1 = 1 THEN NULL ELSE w[1 - 1]
                                        ELSE IF 1 <= n /\ x = w[1] THEN t ELSE l.prev[x]
      BY <1>2, <1>3, <2>1, <2>4, <2>5
    <3>3. /\ m.head = IF 1 = 1 THEN t ELSE l.head
          /\ m.tail = IF 1 = n + 1 THEN t ELSE l.tail
      BY <2>3, <2>5
    <3>4. \A i \in 1 .. n : w[i] # t
      BY <1>2
    <3>5. Linked(l, w, n)
      BY <1>2
    <3> QED BY <2>5, <3>1, <3>2, <3>3, <3>4, <3>5, InsertLinks, Zenon
  <2>7. Sorted(e, Inserted(w, n, 1, t), n + 1) /\ Members(Inserted(w, n, 1, t), n + 1) = S \cup {t}
    <3>1. (1 <= n => e[t] <= e[w[1]]) /\ (1 > 1 => e[w[1 - 1]] <= e[t])
      BY <1>2, <1>6, <2>1
    <3>2. t \in Timers
      OBVIOUS
    <3>3. Linked(l, w, n) /\ Sorted(e, w, n)
      BY <1>2
    <3>4. /\ Sorted(e, Inserted(w, n, 1, t), n + 1)
          /\ Members(Inserted(w, n, 1, t), n + 1) = Members(w, n) \cup {t}
      BY <2>5, <3>1, <3>2, <3>3, SortedInsert
    <3> QED BY <1>2, <3>4
  <2>8. AsBefore(l, m, w, n, t)
    BY <2>1, <2>4 DEF AsBefore
  <2> QED BY <1>4, <1>6, <2>3, <2>6, <2>7, <2>8 DEF Holds, Keeps, m
<1>7. CASE n # 0 /\ ~ (e[t] < e[l.head])
  <2>1. l.head = w[1] /\ l.head # NULL /\ 1 \in 1 .. n
    BY <1>2, <1>7 DEF Linked
  <2>2. m = InsertAfter(l, e, t, w[1])
    BY <1>7, <2>1 DEF Add, BeforeHead
  <2> HIDE DEF m
  <2>3. PICK p \in 1 + 1 .. n + 1 : /\ Linked(m, Inserted(w, n, p, t), n + 1)
                                    /\ m \in ListType
                                    /\ AsBefore(l, m, w, n, t)
                                    /\ \A i \in 1 + 1 .. p - 1 : e[w[i]] <= e[t]
                                    /\ p <= n => e[t] < e[w[p]]
    BY <1>2, <2>1, <2>2, InsertAfterPlaces
  <2>4. p \in Nat /\ p \in 1 .. n + 1 /\ p > 1 /\ 1 < p /\ (p - 1 = 1 \/ p - 1 \in 1 + 1 .. p - 1)
        /\ (p <= n => p \in 1 .. n) /\ 1 \in 1 .. n + 1
    BY <1>2
  <2>5. e[w[p - 1]] <= e[t]
    <3>1. CASE p - 1 = 1
      BY <1>2, <1>7, <2>1, <3>1
    <3> QED BY <2>3, <2>4, <3>1
  <2>6. p <= n => e[t] <= e[w[p]]
    BY <1>2, <2>3, <2>4
  <2>7. Sorted(e, Inserted(w, n, p, t), n + 1) /\ Members(Inserted(w, n, p, t), n + 1) = S \cup {t}
    <3>1. t \in Timers
      OBVIOUS
    <3>2. Linked(l, w, n) /\ Sorted(e, w, n) /\ p \in 1 .. n + 1
      BY <1>2, <2>4
    <3>3. /\ Sorted(e, Inserted(w, n, p, t), n + 1)
          /\ Members(Inserted(w, n, p, t), n + 1) = Members(w, n) \cup {t}
      BY <2>5, <2>6, <3>1, <3>2, SortedInsert
    <3> QED BY <1>2, <3>3
  <2>8. m.head = l.head
    <3>1. Inserted(w, n, p, t)[1] = w[1]
      BY <2>4 DEF Inserted
    <3>2. n + 1 # 0
      BY <1>2
    <3> QED BY <2>1, <2>3, <3>1, <3>2 DEF Linked
  <2> QED BY <1>4, <2>3, <2>7, <2>8 DEF Holds, Keeps, m
<1> QED BY <1>5, <1>6, <1>7

(* The place of a timer on the list, and what its links are.               *)
IsPlace(l, e, S, t, n, w, q) ==
    /\ Linked(l, w, n) /\ Sorted(e, w, n) /\ S = Members(w, n)
    /\ n \in Nat /\ q \in 1 .. n /\ w \in [1 .. n -> Timers] /\ t = w[q]
    /\ \A i \in 1 .. n : w[i] \in Timers /\ w[i] # NULL
    /\ \A i \in 1 .. n : w[i] = t => i = q
    /\ t = l.head <=> q = 1
    /\ t = l.tail <=> q = n
    /\ l.head = w[1]
    /\ l.next[t] = IF q = n THEN NULL ELSE w[q + 1]
    /\ l.prev[t] = IF q = 1 THEN NULL ELSE w[q - 1]
    /\ q < n => q + 1 \in 1 .. n
    /\ q > 1 => q - 1 \in 1 .. n

LEMMA Place ==
    ASSUME NEW l, NEW e, NEW S, NEW t \in S, Keeps(l, e, S)
    PROVE  \E n, w, q : IsPlace(l, e, S, t, n, w, q)
<1>1. PICK n, w : Holds(l, e, S, w, n)
  BY DEF Keeps
<1>2. PICK q \in 1 .. n : t = w[q]
  BY <1>1 DEF Holds, Members
<1>3. /\ Linked(l, w, n) /\ Sorted(e, w, n) /\ S = Members(w, n)
      /\ n \in Nat /\ w \in [1 .. n -> Timers] /\ 1 \in 1 .. n /\ n \in 1 .. n /\ n # 0 /\ n > 0
      /\ \A i \in 1 .. n : w[i] \in Timers /\ w[i] # NULL
  <2>1. Linked(l, w, n) /\ Sorted(e, w, n) /\ S = Members(w, n)
    BY <1>1, Zenon DEF Holds
  <2>2. n \in Nat /\ w \in [1 .. n -> Timers] /\ \A i \in 1 .. n : w[i] \in Timers /\ w[i] # NULL
    BY <2>1, LinkedTypes, Zenon
  <2> QED BY <2>1, <2>2
<1>4. \A i, j \in 1 .. n : w[i] = w[j] => i = j
  BY <1>3 DEF Linked
<1>5. l.head = w[1] /\ l.tail = w[n]
  BY <1>3 DEF Linked
<1>6. /\ l.next[t] = IF q = n THEN NULL ELSE w[q + 1]
      /\ l.prev[t] = IF q = 1 THEN NULL ELSE w[q - 1]
  BY <1>2, <1>3 DEF Linked
<1>7. (q < n => q + 1 \in 1 .. n) /\ (q > 1 => q - 1 \in 1 .. n)
  BY <1>3
<1>8. (t = l.head <=> q = 1) /\ (t = l.tail <=> q = n)
  BY <1>2, <1>3, <1>4, <1>5, Zenon
<1>9. \A i \in 1 .. n : w[i] = t => i = q
  BY <1>2, <1>4, Zenon
<1>10. IsPlace(l, e, S, t, n, w, q)
  BY <1>2, <1>3, <1>5, <1>6, <1>7, <1>8, <1>9, Zenon DEF IsPlace
<1> QED BY <1>10, Zenon

(* adjust_timer(timer), of a timer whose deadline has been put off.        *)
LEMMA AdjustKeeps ==
    ASSUME NEW l \in ListType, NEW e \in [Timers -> Nat], NEW f \in [Timers -> Nat],
           NEW S, NEW t \in S, Keeps(l, e, S), Clear(l, S),
           \A x \in Timers \ {t} : f[x] = e[x], e[t] <= f[t]
    PROVE  /\ Adjust(l, f, t) \in ListType
           /\ Keeps(Adjust(l, f, t), f, S)
           /\ Clear(Adjust(l, f, t), S)
           /\ t # l.head => Adjust(l, f, t).head = l.head
<1> DEFINE second == l.next[t]
           unheaded == [l EXCEPT !.head = second, !.prev[second] = NULL, !.next[t] = NULL]
           unlinked == [l EXCEPT !.next[l.prev[t]] = second, !.prev[second] = l.prev[t]]
           m == Adjust(l, f, t)
<1>2. PICK n, w, q : IsPlace(l, e, S, t, n, w, q)
  BY Place
<1> USE DEF IsPlace
<1>3. t \in Timers /\ q \in Nat /\ n \in Nat /\ 1 <= q /\ q <= n /\ n >= 1 /\ e[t] \in Nat /\ f[t] \in Nat
      /\ \A i \in 1 .. n : e[w[i]] \in Nat /\ f[w[i]] \in Nat
  BY <1>2
<1>4. \A i \in 1 .. n : i # q => f[w[i]] = e[w[i]]
  BY <1>2
<1>5. m = IF second = NULL \/ f[t] < f[second] THEN l
          ELSE IF t = l.head THEN InsertAfter(unheaded, f, t, second)
               ELSE InsertAfter(unlinked, f, t, second)
  BY Zenon DEF Adjust
<1> HIDE DEF m
<1>6. CASE second = NULL \/ f[t] < f[second]
  <2>1. m = l
    BY <1>5, <1>6
  <2>2. q < n => f[t] < e[w[q + 1]]
    <3>1. ASSUME q < n
          PROVE  f[t] < e[w[q + 1]]
      <4>1. q # n /\ q + 1 \in 1 .. n /\ q + 1 # q
        BY <1>2, <1>3, <3>1
      <4>2. second = w[q + 1] /\ second # NULL
        BY <1>2, <4>1
      <4>3. f[t] < f[w[q + 1]]
        BY <1>6, <4>2
      <4> QED BY <1>4, <4>1, <4>3
    <3> QED BY <3>1
  <2>3. ASSUME NEW i \in 1 .. n, NEW j \in 1 .. n, i <= j
        PROVE  f[w[i]] <= f[w[j]]
    <3>1. e[w[i]] <= e[w[j]]
      BY <1>2, <2>3 DEF Sorted
    <3>2. CASE i # q /\ j # q
      BY <1>4, <3>1, <3>2
    <3>3. CASE i = q /\ j = q
      BY <1>3, <3>3
    <3>4. CASE i # q /\ j = q
      BY <1>2, <1>3, <1>4, <3>1, <3>4
    <3>5. CASE i = q /\ j # q
      <4>1. q < n /\ q + 1 <= j /\ q + 1 \in 1 .. n
        BY <1>2, <1>3, <2>3, <3>5
      <4>2. e[w[q + 1]] <= e[w[j]]
        BY <1>2, <4>1 DEF Sorted
      <4>3. f[w[j]] = e[w[j]] /\ f[w[i]] = f[t]
        BY <1>2, <1>4, <3>5
      <4> QED BY <1>3, <2>2, <4>1, <4>2, <4>3
    <3> QED BY <3>2, <3>3, <3>4, <3>5
  <2>4. Holds(l, f, S, w, n)
    BY <1>2, <2>3 DEF Holds, Sorted
  <2> QED BY <2>1, <2>4 DEF Keeps, m
<1>7. CASE ~ (second = NULL \/ f[t] < f[second])
  <2>1. q # n /\ q < n /\ second = w[q + 1] /\ q + 1 \in 1 .. n /\ second \in Timers /\ second # t
    <3>1. q # n
      BY <1>2, <1>7
    <3>2. q < n /\ q + 1 # q
      BY <1>3, <3>1
    <3> QED BY <1>2, <3>1, <3>2
  <2> DEFINE l1 == IF t = l.head THEN unheaded ELSE unlinked
             v == Removed(w, n, q)
  <2>2. m = InsertAfter(l1, f, t, second)
    BY <1>5, <1>7
  <2>3. l.prev[t] = IF q = 1 THEN NULL ELSE w[q - 1]
    BY <1>2
  <2>4. /\ l1 \in ListType
        /\ l1.head = IF q = 1 THEN second ELSE l.head
        /\ l1.tail = l.tail
        /\ l1.next = IF q = 1 THEN [l.next EXCEPT ![t] = NULL] ELSE [l.next EXCEPT ![w[q - 1]] = second]
        /\ l1.prev = IF q = 1 THEN [l.prev EXCEPT ![second] = NULL] ELSE [l.prev EXCEPT ![second] = w[q - 1]]
    <3>1. CASE q = 1
      <4>1. l1 = unheaded
        BY <1>2, <3>1
      <4> HIDE DEF l1, second
      <4>2. l1 = [l EXCEPT !.head = second, !.prev[second] = NULL, !.next[t] = NULL]
        BY <4>1
      <4> QED BY <1>3, <2>1, <3>1, <4>2 DEF ListType, Ptr
    <3>2. CASE q # 1
      <4>1. l1 = unlinked /\ q > 1 /\ l.prev[t] = w[q - 1]
        BY <1>2, <1>3, <3>2
      <4>2. w[q - 1] \in Timers
        BY <1>2, <4>1
      <4> HIDE DEF l1, second
      <4>3. l1 = [l EXCEPT !.next[w[q - 1]] = second, !.prev[second] = w[q - 1]]
        BY <4>1
      <4> QED BY <1>3, <2>1, <3>2, <4>2, <4>3 DEF ListType, Ptr
    <3> QED BY <3>1, <3>2
  <2> HIDE DEF l1, second
  <2>5. \A x \in Timers \ {t} :
          /\ l1.next[x] = IF q > 1 /\ x = w[q - 1] THEN second ELSE l.next[x]
          /\ l1.prev[x] = IF x = second THEN l.prev[t] ELSE l.prev[x]
    <3>1. CASE q = 1
      BY <1>2, <2>1, <2>3, <2>4, <3>1 DEF ListType
    <3>2. CASE q # 1
      <4>1. q > 1 /\ w[q - 1] \in Timers
        BY <1>2, <1>3, <3>2
      <4> QED BY <1>2, <2>1, <2>3, <2>4, <3>2, <4>1 DEF ListType
    <3> QED BY <3>1, <3>2
  <2>6. l.next[t] = second /\ (q = 1 => l.next[w[1]] = second)
    BY <1>2 DEF second
  <2>7. Linked(l1, v, n - 1)
    <3>1. /\ l1.head = IF q = 1 THEN l.next[w[1]] ELSE l.head
          /\ q < n => l1.tail = l.tail
          /\ q = n => n = 1
      BY <2>1, <2>4, <2>6
    <3>2. \A x \in Timers \ {w[q]} :
             l1.next[x] = IF q > 1 /\ x = w[q - 1] THEN l.next[w[q]] ELSE l.next[x]
      BY <1>2, <2>5, <2>6
    <3>3. \A x \in Timers \ {w[q]} :
             l1.prev[x] = IF q < n /\ x = w[q + 1] THEN l.prev[w[q]] ELSE l.prev[x]
      BY <1>2, <2>1, <2>5
    <3>4. Linked(l, w, n) /\ q \in 1 .. n
      BY <1>2
    <3> QED BY <3>1, <3>2, <3>3, <3>4, RemoveLinks
  <2>8. Sorted(f, v, n - 1) /\ Members(v, n - 1) = S \ {t}
    <3>1. Sorted(e, v, n - 1) /\ Members(v, n - 1) = S \ {t}
      BY <1>2, SortedRemove
    <3>2. \A i \in 1 .. n - 1 : v[i] \in Timers \ {t}
      <4>1. S \subseteq Timers
        BY <1>2 DEF Members
      <4> QED BY <3>1, <4>1 DEF Members
    <3> HIDE DEF v
    <3> QED BY <3>1, <3>2 DEF Sorted
  <2>9. q \in 1 .. n - 1 /\ v[q] = second /\ n - 1 \in Nat
    BY <1>2, <1>3, <2>1 DEF Removed
  <2> HIDE DEF v
  <2>10. \A i \in 1 .. n - 1 : v[i] # t /\ v[i] \in Timers
    <3>1. S \subseteq Timers
      BY <1>2 DEF Members
    <3> QED BY <2>8, <3>1 DEF Members
  <2> DEFINE n1 == n - 1
  <2>11. Linked(l1, v, n1) /\ Sorted(f, v, n1) /\ q \in 1 .. n1 /\ n1 \in Nat /\ Members(v, n1) = S \ {t}
         /\ \A i \in 1 .. n1 : v[i] # t /\ v[i] \in Timers
    BY <2>7, <2>8, <2>9, <2>10
  <2> HIDE DEF n1
  <2>12. PICK p \in q + 1 .. n1 + 1 : /\ Linked(m, Inserted(v, n1, p, t), n1 + 1)
                                      /\ m \in ListType
                                      /\ AsBefore(l1, m, v, n1, t)
                                      /\ \A i \in q + 1 .. p - 1 : f[v[i]] <= f[t]
                                      /\ p <= n1 => f[t] < f[v[p]]
    <3>1. m = InsertAfter(l1, f, t, v[q]) /\ l1 \in ListType /\ t \in Timers /\ \A i \in 1 .. n1 : v[i] # t
      BY <1>3, <2>2, <2>4, <2>9, <2>11
    <3>2. Linked(l1, v, n1) /\ q \in 1 .. n1
      BY <2>11
    <3> QED BY <3>1, <3>2, InsertAfterPlaces
  <2>13. /\ p \in Nat /\ p \in 1 .. n1 + 1 /\ p > 1 /\ (p - 1 = q \/ p - 1 \in q + 1 .. p - 1)
         /\ (p <= n1 => p \in 1 .. n1) /\ 1 \in 1 .. n1 + 1 /\ 1 < p /\ n1 # 0 /\ n1 + 1 # 0
    BY <1>3, <2>11
  <2>14. f[v[p - 1]] <= f[t]
    <3>1. CASE p - 1 = q
      BY <1>3, <1>7, <2>1, <2>9, <3>1
    <3> QED BY <2>12, <2>13, <3>1
  <2>15. p <= n1 => f[t] <= f[v[p]]
    BY <1>3, <2>11, <2>12, <2>13
  <2>16. Sorted(f, Inserted(v, n1, p, t), n1 + 1) /\ Members(Inserted(v, n1, p, t), n1 + 1) = S
    <3>1. /\ Sorted(f, Inserted(v, n1, p, t), n1 + 1)
          /\ Members(Inserted(v, n1, p, t), n1 + 1) = Members(v, n1) \cup {t}
      BY <1>3, <2>11, <2>13, <2>14, <2>15, SortedInsert
    <3> QED BY <2>11, <3>1
  <2>17. Clear(m, S)
    <3>1. \A x \in Timers \ S : l1.next[x] = NULL /\ l1.prev[x] = NULL
      <4>1. second \in S /\ t \in S /\ (q > 1 => w[q - 1] \in S)
        BY <1>2, <2>1 DEF Members
      <4> QED BY <2>5, <4>1 DEF Clear
    <3>2. \A x \in Timers \ S : x # t /\ \A i \in 1 .. n1 : v[i] # x
      BY <2>11 DEF Members
    <3> QED BY <2>12, <3>1, <3>2 DEF AsBefore, Clear
  <2>18. t # l.head => m.head = l.head
    <3>1. Inserted(v, n1, p, t)[1] = v[1]
      BY <2>13 DEF Inserted
    <3>2. m.head = v[1] /\ l1.head = v[1]
      BY <2>11, <2>12, <2>13, <3>1 DEF Linked
    <3> QED BY <1>2, <2>4, <3>2
  <2> QED BY <2>12, <2>16, <2>17, <2>18 DEF Holds, Keeps, m
<1> QED BY <1>6, <1>7

(* The links of the other timers go past t.                                *)
Unlinks(l, k, t) ==
    /\ k.head = IF t = l.head THEN l.next[t] ELSE l.head
    /\ k.tail = l.tail \/ (l.next[t] = NULL /\ t = l.head)
    /\ l.next[t] = NULL => t = l.head
    /\ \A x \in Timers \ {t} :
          /\ k.next[x] = IF t # l.head /\ x = l.prev[t] THEN l.next[t] ELSE l.next[x]
          /\ k.prev[x] = IF x = l.next[t] THEN l.prev[t] ELSE l.prev[x]

(* A timer taken off the list and freed, by whichever function.            *)
LEMMA FreedKeeps ==
    ASSUME NEW l \in ListType, NEW k \in ListType, NEW e, NEW S, NEW t \in S,
           Keeps(l, e, S), Clear(l, S), Unlinks(l, k, t)
    PROVE  /\ Freed(k, t) \in ListType
           /\ Keeps(Freed(k, t), e, S \ {t})
           /\ Clear(Freed(k, t), S \ {t})
           /\ Freed(k, t).head = k.head
<1> DEFINE m == Freed(k, t)
<1>2. PICK n, w, q : IsPlace(l, e, S, t, n, w, q)
  BY Place
<1> USE DEF IsPlace
<1>3. t \in Timers /\ q \in Nat /\ n \in Nat /\ 1 <= q /\ q <= n
  BY <1>2
<1>4. /\ m \in ListType /\ m.head = k.head /\ m.tail = k.tail
      /\ \A x \in Timers : m.next[x] = IF x = t THEN NULL ELSE k.next[x]
      /\ \A x \in Timers : m.prev[x] = IF x = t THEN NULL ELSE k.prev[x]
  BY <1>3 DEF Freed, ListType, Ptr
<1> HIDE DEF m
<1> USE DEF Unlinks
<1>5. \A x \in Timers \ {w[q]} :
         m.next[x] = IF q > 1 /\ x = w[q - 1] THEN l.next[w[q]] ELSE l.next[x]
  <2>1. CASE q = 1
    BY <1>2, <1>3, <1>4, <2>1
  <2>2. CASE q # 1
    BY <1>2, <1>3, <1>4, <2>2
  <2> QED BY <2>1, <2>2
<1>6. \A x \in Timers \ {w[q]} :
         m.prev[x] = IF q < n /\ x = w[q + 1] THEN l.prev[w[q]] ELSE l.prev[x]
  <2>1. CASE q = n
    BY <1>2, <1>3, <1>4, <2>1, ListAssumption
  <2>2. CASE q # n
    BY <1>2, <1>3, <1>4, <2>2
  <2> QED BY <2>1, <2>2
<1>7. /\ m.head = IF q = 1 THEN l.next[w[1]] ELSE l.head
      /\ q = n => n = 1
      /\ q < n => m.tail = l.tail
  <2>1. q < n => l.next[t] # NULL
    BY <1>2, <1>3
  <2> QED BY <1>2, <1>4, <2>1
<1>8. Linked(m, Removed(w, n, q), n - 1)
  <2>1. Linked(l, w, n) /\ q \in 1 .. n
    BY <1>2
  <2> QED BY <1>5, <1>6, <1>7, <2>1, RemoveLinks
<1>9. Sorted(e, Removed(w, n, q), n - 1) /\ Members(Removed(w, n, q), n - 1) = S \ {t}
  BY <1>2, SortedRemove
<1>10. Clear(m, S \ {t})
  <2>1. (q # n => l.next[t] \in S) /\ (q # 1 => l.prev[t] \in S) /\ (t # l.head <=> q # 1)
    BY <1>2, <1>3 DEF Members
  <2>2. q = n => l.next[t] = NULL
    BY <1>2
  <2>3. ASSUME NEW x \in Timers \ S
        PROVE  m.next[x] = NULL /\ m.prev[x] = NULL
    <3>1. x # t /\ x # NULL /\ l.next[x] = NULL /\ l.prev[x] = NULL
      BY ListAssumption DEF Clear
    <3> QED BY <1>4, <2>1, <2>2, <3>1
  <2>4. m.next[t] = NULL /\ m.prev[t] = NULL
    BY <1>3, <1>4
  <2> QED BY <2>3, <2>4 DEF Clear
<1> QED BY <1>4, <1>8, <1>9, <1>10 DEF Holds, Keeps, m

(* delete_timer(timer), where it survives.                                 *)
LEMMA DeleteKeeps ==
    ASSUME NEW l \in ListType, NEW e, NEW S, NEW t \in S,
           Keeps(l, e, S), Clear(l, S), ~ DeletesTail(l, t)
    PROVE  /\ Freed(Delete(l, t), t) \in ListType
           /\ Keeps(Freed(Delete(l, t), t), e, S \ {t})
           /\ Clear(Freed(Delete(l, t), t), S \ {t})
           /\ t # l.head => Freed(Delete(l, t), t).head = l.head
<1> DEFINE k == Delete(l, t)
<1>2. /\ t \in Timers /\ t # NULL
      /\ l.next[t] = NULL <=> t = l.tail
      /\ t # l.tail => l.next[t] \in Timers /\ l.next[t] # t
      /\ t = l.head <=> l.prev[t] = NULL
      /\ t # l.head => l.prev[t] \in Timers /\ l.prev[t] # t
  <2>1. PICK n, w, q : IsPlace(l, e, S, t, n, w, q)
    BY Place
  <2> USE DEF IsPlace
  <2>2. (q # n => q < n) /\ (q # 1 => q > 1) /\ q + 1 # q /\ q - 1 # q
    BY <2>1
  <2> QED BY <2>1, <2>2
<1>3. t = l.tail => t = l.head
  BY DEF DeletesTail
<1>4. CASE t = l.head /\ t = l.tail
  <2>1. k = [l EXCEPT !.head = NULL, !.tail = NULL]
    BY <1>4 DEF Delete
  <2> HIDE DEF k
  <2>2. k \in ListType /\ k.head = NULL /\ k.next = l.next /\ k.prev = l.prev
    BY <2>1 DEF ListType, Ptr
  <2>3. \A x \in Timers \ {t} : x # l.next[t]
    BY <1>2, <1>4, ListAssumption
  <2>4. Freed(k, t) \in ListType /\ Keeps(Freed(k, t), e, S \ {t}) /\ Clear(Freed(k, t), S \ {t})
    <3>1. Unlinks(l, k, t)
      BY <1>2, <1>4, <2>2, <2>3 DEF Unlinks
    <3> QED BY <2>2, <3>1, FreedKeeps
  <2> QED BY <1>4, <2>4 DEF k
<1>5. CASE t = l.head /\ t # l.tail
  <2>1. k = [l EXCEPT !.head = l.next[t], !.prev[l.next[t]] = NULL]
    BY <1>5 DEF Delete
  <2> HIDE DEF k
  <2>2. k \in ListType /\ k.head = l.next[t] /\ k.tail = l.tail /\ k.next = l.next
        /\ k.prev = [l.prev EXCEPT ![l.next[t]] = NULL]
    BY <1>2, <1>5, <2>1 DEF ListType, Ptr
  <2>3. \A x \in Timers \ {t} :
              /\ k.next[x] = IF t # l.head /\ x = l.prev[t] THEN l.next[t] ELSE l.next[x]
              /\ k.prev[x] = IF x = l.next[t] THEN l.prev[t] ELSE l.prev[x]
    BY <1>2, <1>5, <2>2 DEF ListType
  <2>4. Freed(k, t) \in ListType /\ Keeps(Freed(k, t), e, S \ {t}) /\ Clear(Freed(k, t), S \ {t})
    <3>1. Unlinks(l, k, t)
      BY <1>2, <1>5, <2>2, <2>3 DEF Unlinks
    <3> QED BY <2>2, <3>1, FreedKeeps
  <2> QED BY <1>5, <2>4 DEF k
<1>6. CASE t # l.head
  <2>1. k = [l EXCEPT !.next[l.prev[t]] = l.next[t], !.prev[l.next[t]] = l.prev[t]]
    BY <1>3, <1>6 DEF Delete
  <2> HIDE DEF k
  <2>2. k \in ListType /\ k.head = l.head /\ k.tail = l.tail
        /\ k.next = [l.next EXCEPT ![l.prev[t]] = l.next[t]]
        /\ k.prev = [l.prev EXCEPT ![l.next[t]] = l.prev[t]]
    BY <1>2, <1>3, <1>6, <2>1 DEF ListType, Ptr
  <2>3. \A x \in Timers \ {t} :
              /\ k.next[x] = IF t # l.head /\ x = l.prev[t] THEN l.next[t] ELSE l.next[x]
              /\ k.prev[x] = IF x = l.next[t] THEN l.prev[t] ELSE l.prev[x]
    BY <1>2, <1>3, <1>6, <2>2 DEF ListType
  <2>4. /\ Freed(k, t) \in ListType /\ Keeps(Freed(k, t), e, S \ {t}) /\ Clear(Freed(k, t), S \ {t})
        /\ Freed(k, t).head = k.head
    <3>1. Unlinks(l, k, t)
      BY <1>2, <1>3, <1>6, <2>2, <2>3 DEF Unlinks
    <3> QED BY <2>2, <3>1, FreedKeeps
  <2> QED BY <2>2, <2>4 DEF k
<1> QED BY <1>4, <1>5, <1>6

(* The end of a round of the loop in tick().                               *)
WithoutHead(l) ==
    LET h == l.next[l.head]
    IN  [l EXCEPT !.head = h, !.prev = IF h = NULL THEN @ ELSE [@ EXCEPT ![h] = NULL]]

LEMMA HeadRemoveKeeps ==
    ASSUME NEW l \in ListType, NEW e, NEW S, l.head \in S, Keeps(l, e, S), Clear(l, S)
    PROVE  /\ Freed(WithoutHead(l), l.head) \in ListType
           /\ Keeps(Freed(WithoutHead(l), l.head), e, S \ {l.head})
           /\ Clear(Freed(WithoutHead(l), l.head), S \ {l.head})
           /\ Freed(WithoutHead(l), l.head).head = l.next[l.head]
<1> DEFINE k == WithoutHead(l)
           t == l.head
           h == l.next[t]
<1>1. PICK n, w : Holds(l, e, S, w, n)
  BY DEF Keeps
<1>2. t \in Timers /\ h \in Ptr /\ l.prev[t] = NULL
  <2>1. S \subseteq Timers /\ n \in Nat /\ n # 0 /\ l.head = w[1] /\ 1 \in 1 .. n
    BY <1>1 DEF Holds, Linked, Members
  <2> QED BY <1>1, <2>1 DEF Holds, Linked, ListType
<1>3. k = [l EXCEPT !.head = h, !.prev = IF h = NULL THEN @ ELSE [@ EXCEPT ![h] = NULL]]
  BY DEF WithoutHead
<1> HIDE DEF k, h, t
<1>4. k \in ListType /\ k.head = h /\ k.tail = l.tail /\ k.next = l.next
      /\ k.prev = IF h = NULL THEN l.prev ELSE [l.prev EXCEPT ![h] = NULL]
  BY <1>2, <1>3 DEF ListType, Ptr
<1>5. \A x \in Timers \ {t} : k.next[x] = l.next[x] /\ k.prev[x] = IF x = h THEN NULL ELSE l.prev[x]
  BY <1>2, <1>4, ListAssumption DEF ListType, Ptr
<1>6. t \in S /\ t = l.head /\ h = l.next[t]
  BY DEF t, h
<1>7. Unlinks(l, k, t)
  BY <1>2, <1>4, <1>5, <1>6 DEF Unlinks
<1>8. /\ Freed(k, t) \in ListType /\ Keeps(Freed(k, t), e, S \ {t}) /\ Clear(Freed(k, t), S \ {t})
      /\ Freed(k, t).head = k.head
  BY <1>4, <1>6, <1>7, FreedKeeps
<1> QED BY <1>4, <1>6, <1>8 DEF k

-----------------------------------------------------------------------------
(* What every step keeps: the list is in order as long as the program has  *)
(* not crashed, also while a callback runs; tick() has the head in tmp,    *)
(* and the timer that fires was due by the clock it has read, which is no  *)
(* later than the one by which a callback arms a timer: no new timer gets  *)
(* before the one that fires.                                              *)
Typed == TypeOK

Order == ~crashed /\ pc # "gone" => Keeps(list, expire, alive) /\ Clear(list, alive)

Ticking ==
    /\ pc = "gone" => list.head = NULL /\ alive = {} /\ ~crashed
    /\ pc \in {"ticking", "firing"} /\ ~crashed => tmp = list.head
    /\ pc = "firing" => tmp # NULL /\ expire[tmp] <= cur
    /\ pc \in {"idle", "gone"} => tmp = NULL /\ cur = 0
    /\ cur <= now

IInv == Typed /\ Order /\ Ticking

LEMMA ListIsTyped ==
    ASSUME Typed
    PROVE  /\ list \in ListType /\ expire \in [Timers -> Nat] /\ alive \subseteq Timers
           /\ now \in Nat /\ cur \in Nat /\ tmp \in Ptr /\ NULL \notin alive /\ NULL \notin Timers
BY ListAssumption DEF Typed, TypeOK, ListType, Ptr

LEMMA InitHolds == Init => IInv
<1> SUFFICES ASSUME Init
             PROVE  IInv
  OBVIOUS
<1>1. Typed
  <2>1. NULL \in Ptr /\ 0 \in Nat /\ 0 \in 0 .. MaxTime
    BY ListAssumption DEF Ptr
  <2>2. list \in [head : Ptr, tail : Ptr, next : [Timers -> Ptr], prev : [Timers -> Ptr]]
    BY <2>1 DEF Init
  <2>3. expire \in [Timers -> Nat]
    BY <2>1 DEF Init
  <2>4. alive = {} /\ now = 0 /\ pc = "idle" /\ cur = 0 /\ tmp = NULL /\ crashed = FALSE
    BY DEF Init
  <2> QED BY <2>1, <2>2, <2>3, <2>4 DEF Typed, TypeOK
<1>2. Keeps(list, expire, alive)
  <2> DEFINE w == [i \in 1 .. 0 |-> NULL]
  <2>1. Linked(list, w, 0) /\ Sorted(expire, w, 0) /\ alive = Members(w, 0)
    BY DEF Init, Linked, Sorted, Members
  <2> QED BY <2>1 DEF Keeps, Holds
<1> QED BY <1>1, <1>2 DEF Init, IInv, Order, Ticking, Clear

LEMMA AddHolds ==
    ASSUME IInv, NEW t \in Timers, NEW delay \in Delays, AddTimer(t, delay)
    PROVE  IInv'
<1>1. /\ ~crashed /\ pc \in {"idle", "firing"} /\ t \notin alive /\ crashed' = crashed
      /\ alive' = alive \cup {t} /\ expire' = [expire EXCEPT ![t] = now + delay]
      /\ list' = Add(list, expire', t) /\ now' = now /\ pc' = pc /\ cur' = cur /\ tmp' = tmp
  BY DEF AddTimer, Callable, tickVars
<1>2. delay \in Nat /\ now + delay \in Nat
  BY ListIsTyped, ListAssumption DEF IInv
<1>3. expire' \in [Timers -> Nat] /\ expire'[t] = now + delay
      /\ \A x \in Timers \ {t} : expire'[x] = expire[x]
  BY <1>1, <1>2, ListIsTyped DEF IInv
<1>4. Keeps(list, expire, alive) /\ Clear(list, alive) /\ alive \subseteq Timers
  BY <1>1, ListIsTyped DEF IInv, Order
<1>5. Keeps(list, expire', alive)
  BY <1>1, <1>3, <1>4, OtherDeadlines
<1>6. /\ Add(list, expire', t) \in ListType
      /\ Keeps(Add(list, expire', t), expire', alive \cup {t})
      /\ Clear(Add(list, expire', t), alive \cup {t})
      /\ list.head # NULL /\ ~ (expire'[t] < expire'[list.head]) => Add(list, expire', t).head = list.head
  <2>1. list \in ListType /\ expire' \in [Timers -> Nat] /\ t \in Timers \ alive
    BY <1>1, <1>3, ListIsTyped DEF IInv
  <2>2. Keeps(list, expire', alive) /\ Clear(list, alive)
    BY <1>4, <1>5
  <2> QED BY <2>1, <2>2, AddKeeps
<1>7. Typed'
  BY <1>1, <1>3, <1>6 DEF IInv, Typed, TypeOK, ListType
<1>8. Order'
  BY <1>1, <1>6 DEF Order
<1>9. Ticking'
  <2>1. CASE pc = "idle"
    BY <1>1, <2>1 DEF IInv, Ticking
  <2>2. CASE pc = "firing"
    <3>1. tmp = list.head /\ tmp # NULL /\ expire[tmp] <= cur /\ cur <= now
      BY <1>1, <2>2 DEF IInv, Ticking
    <3>2. tmp \in alive /\ tmp # t /\ expire[tmp] \in Nat /\ expire'[tmp] = expire[tmp]
      BY <1>1, <1>3, <3>1, ListIsTyped DEF IInv, Typed, TypeOK
    <3>3. ~ (expire'[t] < expire'[list.head])
      BY <1>2, <1>3, <3>1, <3>2, ListIsTyped DEF IInv
    <3> QED BY <1>1, <1>6, <2>2, <3>1, <3>2, <3>3 DEF Ticking
  <2> QED BY <1>1, <2>1, <2>2
<1> QED BY <1>7, <1>8, <1>9 DEF IInv

LEMMA AdjustHolds ==
    ASSUME IInv, NEW t \in Timers, NEW delay \in Delays, AdjustTimer(t, delay)
    PROVE  IInv'
<1>1. /\ ~crashed /\ pc \in {"idle", "firing"} /\ t \in alive /\ crashed' = crashed
      /\ pc = "firing" => t # tmp
      /\ alive' = alive /\ expire' = [expire EXCEPT ![t] = now + delay] /\ now + delay > expire[t]
      /\ list' = Adjust(list, expire', t) /\ now' = now /\ pc' = pc /\ cur' = cur /\ tmp' = tmp
  BY DEF AdjustTimer, Callable, Named, tickVars
<1>2. delay \in Nat /\ now + delay \in Nat /\ expire[t] \in Nat
  BY ListIsTyped, ListAssumption DEF IInv
<1>3. /\ expire' \in [Timers -> Nat] /\ expire'[t] = now + delay /\ expire[t] <= expire'[t]
      /\ \A x \in Timers \ {t} : expire'[x] = expire[x]
  BY <1>1, <1>2, ListIsTyped DEF IInv
<1>4. Keeps(list, expire, alive) /\ Clear(list, alive) /\ list \in ListType /\ expire \in [Timers -> Nat]
  BY <1>1, ListIsTyped DEF IInv, Order
<1>5. /\ Adjust(list, expire', t) \in ListType
      /\ Keeps(Adjust(list, expire', t), expire', alive)
      /\ Clear(Adjust(list, expire', t), alive)
      /\ t # list.head => Adjust(list, expire', t).head = list.head
  <2>1. t \in alive /\ expire[t] <= expire'[t] /\ expire' \in [Timers -> Nat]
        /\ \A x \in Timers \ {t} : expire'[x] = expire[x]
    BY <1>1, <1>3
  <2> QED BY <1>4, <2>1, AdjustKeeps
<1>6. Typed'
  BY <1>1, <1>3, <1>5 DEF IInv, Typed, TypeOK, ListType
<1>7. Order'
  BY <1>1, <1>5 DEF Order
<1>8. Ticking'
  <2>1. CASE pc = "idle"
    BY <1>1, <2>1 DEF IInv, Ticking
  <2>2. CASE pc = "firing"
    <3>1. tmp = list.head /\ tmp # NULL /\ expire[tmp] <= cur /\ cur <= now /\ tmp # t
      BY <1>1, <2>2 DEF IInv, Ticking
    <3>2. expire'[tmp] = expire[tmp]
      BY <1>3, <3>1, ListIsTyped DEF IInv, Ptr
    <3> QED BY <1>1, <1>5, <2>2, <3>1, <3>2 DEF Ticking
  <2> QED BY <1>1, <2>1, <2>2
<1> QED BY <1>6, <1>7, <1>8 DEF IInv

LEMMA DeleteHolds ==
    ASSUME IInv, NEW t \in Timers, DeleteTimer(t)
    PROVE  IInv'
<1>1. /\ ~crashed /\ pc \in {"idle", "firing"} /\ t \in alive
      /\ pc = "firing" => t # tmp
      /\ alive' = alive \ {t} /\ expire' = [expire EXCEPT ![t] = 0]
      /\ now' = now /\ pc' = pc /\ cur' = cur /\ tmp' = tmp
  BY DEF DeleteTimer, Callable, Named, tickVars
<1>2. \/ crashed' = TRUE /\ list' = list
      \/ ~ DeletesTail(list, t) /\ list' = Freed(Delete(list, t), t) /\ crashed' = crashed
  BY DEF DeleteTimer
<1>3. expire' \in [Timers -> Nat] /\ \A x \in Timers \ {t} : expire'[x] = expire[x]
  BY <1>1, ListIsTyped DEF IInv
<1>4. Keeps(list, expire, alive) /\ Clear(list, alive) /\ list \in ListType /\ alive \subseteq Timers
  BY <1>1, ListIsTyped DEF IInv, Order
<1>5. tmp \in alive' \cup {NULL}
  <2>1. CASE pc = "idle"
    BY <1>1, <2>1 DEF IInv, Ticking
  <2>2. CASE pc = "firing"
    BY <1>1, <2>2 DEF IInv, Typed, TypeOK
  <2> QED BY <1>1, <2>1, <2>2
<1>6. CASE crashed' = TRUE /\ list' = list
  <2>1. Typed'
    BY <1>1, <1>3, <1>5, <1>6 DEF IInv, Typed, TypeOK
  <2>2. Order'
    BY <1>6 DEF Order
  <2>3. Ticking'
    <3>1. CASE pc = "idle"
      BY <1>1, <1>6, <3>1 DEF IInv, Ticking
    <3>2. CASE pc = "firing"
      <4>1. tmp # NULL /\ expire[tmp] <= cur /\ cur <= now /\ tmp # t /\ tmp \in Timers
        BY <1>1, <3>2, ListIsTyped DEF IInv, Ticking, Ptr
      <4> QED BY <1>1, <1>3, <1>6, <3>2, <4>1 DEF Ticking
    <3> QED BY <1>1, <3>1, <3>2
  <2> QED BY <2>1, <2>2, <2>3 DEF IInv
<1>7. CASE ~ DeletesTail(list, t) /\ list' = Freed(Delete(list, t), t) /\ crashed' = crashed
  <2>1. /\ list' \in ListType
        /\ Keeps(list', expire, alive \ {t})
        /\ Clear(list', alive \ {t})
        /\ t # list.head => list'.head = list.head
    BY <1>1, <1>4, <1>7, DeleteKeeps
  <2>2. Keeps(list', expire', alive')
    <3>1. \A x \in alive \ {t} : expire'[x] = expire[x]
      BY <1>3, <1>4
    <3> QED BY <1>1, <2>1, <3>1, OtherDeadlines
  <2>3. Typed'
    BY <1>1, <1>3, <1>5, <1>7, <2>1 DEF IInv, Typed, TypeOK, ListType
  <2>4. Order'
    BY <1>1, <2>1, <2>2 DEF Order
  <2>5. Ticking'
    <3>1. CASE pc = "idle"
      BY <1>1, <3>1 DEF IInv, Ticking
    <3>2. CASE pc = "firing"
      <4>1. tmp = list.head /\ tmp # NULL /\ expire[tmp] <= cur /\ cur <= now /\ tmp # t /\ tmp \in Timers
        BY <1>1, <3>2, ListIsTyped DEF IInv, Ticking, Ptr
      <4> QED BY <1>1, <1>3, <1>7, <2>1, <3>2, <4>1 DEF Ticking
    <3> QED BY <1>1, <3>1, <3>2
  <2> QED BY <2>3, <2>4, <2>5 DEF IInv
<1> QED BY <1>2, <1>6, <1>7

LEMMA RemoveHolds ==
    ASSUME IInv, TickRemove
    PROVE  IInv'
<1>1. /\ ~crashed /\ pc = "firing" /\ crashed' = crashed /\ pc' = "ticking"
      /\ list' = Freed([list EXCEPT !.head = list.next[tmp],
                     !.prev = IF list.next[tmp] = NULL THEN @ ELSE [@ EXCEPT ![list.next[tmp]] = NULL]], tmp)
      /\ tmp' = list.next[tmp] /\ alive' = alive \ {tmp}
      /\ expire' = [expire EXCEPT ![tmp] = 0] /\ now' = now /\ cur' = cur
  BY DEF TickRemove, MoveTo
<1>2. tmp = list.head /\ tmp # NULL /\ cur <= now /\ tmp \in alive
  BY <1>1 DEF IInv, Ticking, Typed, TypeOK
<1>3. list' = Freed(WithoutHead(list), list.head)
  BY <1>1, <1>2 DEF WithoutHead
<1>4. Keeps(list, expire, alive) /\ Clear(list, alive) /\ list \in ListType /\ alive \subseteq Timers
  BY <1>1, ListIsTyped DEF IInv, Order
<1>5. /\ list' \in ListType
      /\ Keeps(list', expire, alive \ {tmp})
      /\ Clear(list', alive \ {tmp})
      /\ list'.head = list.next[tmp]
  BY <1>2, <1>3, <1>4, HeadRemoveKeeps
<1>6. expire' \in [Timers -> Nat] /\ \A x \in alive \ {tmp} : expire'[x] = expire[x]
  BY <1>1, <1>2, <1>4, ListIsTyped DEF IInv
<1>7. Keeps(list', expire', alive')
  BY <1>1, <1>5, <1>6, OtherDeadlines
<1>8. tmp' \in alive' \cup {NULL}
  BY <1>1, <1>5, <1>7, HeadIsEarliest
<1>9. Typed'
  BY <1>1, <1>5, <1>6, <1>8 DEF IInv, Typed, TypeOK, ListType
<1>10. Order'
  BY <1>1, <1>5, <1>7 DEF Order
<1>11. Ticking'
  BY <1>1, <1>2, <1>5 DEF Ticking
<1> QED BY <1>9, <1>10, <1>11 DEF IInv

(* A walk from the head meets the timers of the list, each once.           *)
LEMMA WalkMeetsAll ==
    ASSUME NEW l, NEW e, NEW S, NEW n, NEW w, Holds(l, e, S, w, n)
    PROVE  /\ Chain(l, l.head) = w
           /\ S = {w[i] : i \in DOMAIN w}
           /\ Len(w) = n /\ n = Cardinality(S)
<1>1. /\ n \in Nat /\ w \in [1 .. n -> Timers] /\ Linked(l, w, n) /\ S = Members(w, n)
      /\ \A i, j \in 1 .. n : w[i] = w[j] => i = j
  BY DEF Holds, Linked
<1>2. Chain(l, l.head) = w
  <2>1. CASE n = 0
    <3>1. l.head = NULL
      BY <1>1, <2>1 DEF Linked
    <3>2. w = <<>>
      BY <1>1, <2>1
    <3> QED BY <3>1, <3>2, ChainOfNothing
  <2>2. CASE n # 0
    <3>1. l.head = w[1] /\ 1 \in 1 .. n
      BY <1>1, <2>2 DEF Linked
    <3>2. Chain(l, w[1]) = [i \in 1 .. n - 1 + 1 |-> w[i + 1 - 1]]
      BY <1>1, <3>1, ChainIs
    <3>3. n - 1 + 1 = n /\ \A i \in 1 .. n : i + 1 - 1 = i
      BY <1>1
    <3>4. [i \in 1 .. n - 1 + 1 |-> w[i + 1 - 1]] = [i \in 1 .. n |-> w[i]]
      BY <3>3
    <3>5. w = [i \in 1 .. n |-> w[i]]
      BY <1>1
    <3> QED BY <3>1, <3>2, <3>4, <3>5
  <2> QED BY <2>1, <2>2
<1>3. DOMAIN w = 1 .. n /\ Len(w) = n
  BY <1>1
<1>4. S = {w[i] : i \in DOMAIN w}
  BY <1>1, <1>3 DEF Members
<1>5. n = Cardinality(S)
  <2>1. IsFiniteSet(1 .. n) /\ Cardinality(1 .. n) = n
    BY <1>1, FS_Interval
  <2>2. w \in Bijection(1 .. n, S)
    <3>1. w \in [1 .. n -> S]
      BY <1>1 DEF Members
    <3> QED BY <1>1, <3>1 DEF Bijection, Injection, Surjection, IsInjective, Members
  <2> QED BY <2>1, <2>2, FS_Bijection DEF ExistsBijection
<1> QED BY <1>2, <1>3, <1>4, <1>5

LEMMA DestroyHolds ==
    ASSUME IInv, Destroy
    PROVE  IInv' /\ alive' = {}
<1>1. /\ ~crashed /\ pc = "idle" /\ pc' = "gone" /\ crashed' = crashed
      /\ alive' = alive \ {Chain(list, list.head)[i] : i \in DOMAIN Chain(list, list.head)}
      /\ list' = [list EXCEPT !.head = NULL]
      /\ expire' = expire /\ now' = now /\ cur' = cur /\ tmp' = tmp
  BY DEF Destroy
<1>2. Keeps(list, expire, alive) /\ list \in ListType
  BY <1>1, ListIsTyped DEF IInv, Order
<1>3. PICK n, w : Holds(list, expire, alive, w, n)
  BY <1>2 DEF Keeps
<1>4. alive' = {}
  BY <1>1, <1>3, WalkMeetsAll
<1>5. list' \in ListType /\ list'.head = NULL
  BY <1>1, <1>2 DEF ListType, Ptr
<1>6. Typed' /\ Order' /\ Ticking'
  BY <1>1, <1>4, <1>5 DEF IInv, Typed, TypeOK, ListType, Order, Ticking
<1> QED BY <1>4, <1>6 DEF IInv

LEMMA StepHolds == IInv /\ [Next]_vars => IInv'
<1> SUFFICES ASSUME IInv, [Next]_vars
             PROVE  IInv'
  OBVIOUS
<1>1. ASSUME NEW t \in Timers, NEW delay \in Delays, AddTimer(t, delay)
      PROVE  IInv'
  BY <1>1, AddHolds
<1>2. ASSUME NEW t \in Timers, NEW delay \in Delays, AdjustTimer(t, delay)
      PROVE  IInv'
  BY <1>2, AdjustHolds
<1>3. ASSUME NEW t \in Timers, DeleteTimer(t)
      PROVE  IInv'
  BY <1>3, DeleteHolds
<1>4. CASE TickBegin
  <2>1. list.head \in alive
    <3>1. Keeps(list, expire, alive)
      BY <1>4 DEF TickBegin, IInv, Order
    <3> QED BY <1>4, <3>1, HeadIsEarliest DEF TickBegin
  <2> QED BY <1>4, <2>1, ListIsTyped DEF TickBegin, IInv, Typed, TypeOK, Order, Ticking
<1>5. CASE TickFire
  <2>1. expire[tmp] \in Nat /\ cur \in Nat /\ expire[tmp] <= cur
    BY <1>5, ListIsTyped DEF TickFire, NotDue, IInv, Ptr
  <2> QED BY <1>5, <2>1 DEF TickFire, IInv, Typed, TypeOK, Order, Ticking
<1>6. CASE TickRemove
  BY <1>6, RemoveHolds
<1>7. CASE TickEnd
  BY <1>7, ListAssumption, ListIsTyped DEF TickEnd, IInv, Typed, TypeOK, Order, Ticking
<1>8. CASE TimePasses
  BY <1>8, ListAssumption, ListIsTyped DEF TimePasses, tickVars, IInv, Typed, TypeOK, Order, Ticking
<1>9. CASE Destroy
  BY <1>9, DestroyHolds
<1>10. CASE UNCHANGED vars
  BY <1>10 DEF vars, IInv, Typed, TypeOK, Order, Ticking
<1> QED BY <1>1, <1>2, <1>3, <1>4, <1>5, <1>6, <1>7, <1>8, <1>9, <1>10 DEF Next, Tick

LEMMA Always == Spec => []IInv
BY InitHolds, StepHolds, PTL DEF Spec

(* Every pointer of the list is one to a timer or null, and the one tick() *)
(* works on is a timer that has not been freed.                            *)
THEOREM TypeCorrect == Spec => []TypeOK
<1>1. IInv => TypeOK
  BY DEF IInv, Typed
<1> QED BY <1>1, Always, PTL

LEMMA OrderMeansListOK == IInv => ListOK
<1> SUFFICES ASSUME IInv, ~crashed
             PROVE  LET chain == Chain(list, list.head)
                    IN  /\ {chain[i] : i \in DOMAIN chain} = alive
                        /\ Len(chain) = Cardinality(alive)
                        /\ \A i \in 1 .. Len(chain) - 1 :
                              /\ expire[chain[i]] <= expire[chain[i + 1]]
                              /\ list.prev[chain[i + 1]] = chain[i]
                        /\ chain # <<>> => list.prev[list.head] = NULL /\ list.tail = chain[Len(chain)]
  BY DEF ListOK
<1>1. CASE pc = "gone"
  <2>1. Chain(list, list.head) = <<>> /\ alive = {}
    BY <1>1, ChainOfNothing DEF IInv, Ticking
  <2>2. Cardinality(alive) = 0
    BY <2>1, FS_EmptySet
  <2> QED BY <2>1, <2>2
<1>2. CASE pc # "gone"
  <2>1. PICK n, w : Holds(list, expire, alive, w, n)
    BY <1>2 DEF IInv, Order, Keeps
  <2>2. /\ Chain(list, list.head) = w
        /\ alive = {w[i] : i \in DOMAIN w}
        /\ Len(w) = n /\ n = Cardinality(alive)
    BY <2>1, WalkMeetsAll
  <2>3. n \in Nat /\ w \in [1 .. n -> Timers] /\ Linked(list, w, n) /\ Sorted(expire, w, n)
    BY <2>1 DEF Holds, Linked
  <2>4. ASSUME NEW i \in 1 .. n - 1
        PROVE  expire[w[i]] <= expire[w[i + 1]] /\ list.prev[w[i + 1]] = w[i]
    <3>1. i \in 1 .. n /\ i + 1 \in 1 .. n /\ i <= i + 1 /\ i + 1 # 1 /\ (i + 1) - 1 = i
      BY <2>3
    <3> QED BY <2>3, <3>1 DEF Linked, Sorted
  <2>5. w # <<>> => list.prev[list.head] = NULL /\ list.tail = w[n]
    <3>1. n = 0 => w = <<>>
      BY <2>3
    <3>2. n # 0 => n > 0 /\ 1 \in 1 .. n
      BY <2>3
    <3> QED BY <2>3, <3>1, <3>2 DEF Linked
  <2> QED BY <2>2, <2>4, <2>5
<1> QED BY <1>1, <1>2

(* Until the program crashes, and in the middle of a tick as well, the     *)
(* links from head run through every timer once in the order of the        *)
(* deadlines, prev runs back, and tail is the last timer: whatever the     *)
(* callbacks add, put off and delete.                                      *)
THEOREM ListCorrect == Spec => []ListOK
BY OrderMeansListOK, Always, PTL

(* tick() works on the head of the list, whatever callbacks do.            *)
THEOREM TickWorksOnTheHead == Spec => []TickAtHead
<1>1. IInv => TickAtHead
  BY DEF IInv, Ticking, TickAtHead
<1> QED BY <1>1, Always, PTL

-----------------------------------------------------------------------------
(* The list implements DeadlineTimers.                                     *)
LEMMA ArmedAreAlive ==
    ASSUME Typed
    PROVE  Deadlines!Armed = alive /\ Deadlines!Due = {t \in alive : expire[t] <= cur}
<1>1. \A t \in Timers : expire[t] # -1
  BY ListIsTyped
<1> QED BY <1>1, ListIsTyped DEF Deadlines!Armed, Deadlines!Due, Deadlines!Off, Off

LEMMA InitIsInit == Init => Deadlines!Init
BY DEF Init, Deadlines!Init, Deadlines!Off, Off

LEMMA AddArms ==
    ASSUME Typed, NEW t \in Timers, NEW delay \in Delays, AddTimer(t, delay)
    PROVE  Deadlines!Next
<1>0. now + delay \in {time + x : time \in 0 .. MaxTime, x \in Delays \cup {0}}
  BY DEF Typed, TypeOK
<1>1. PICK d : d = now + delay
  OBVIOUS
<1>2. d >= now /\ d # -1
  BY <1>1, ListIsTyped, ListAssumption
<1>3. [x \in Timers |-> IF x \in alive' THEN expire'[x] ELSE Off]
        = [[x \in Timers |-> IF x \in alive THEN expire[x] ELSE Off] EXCEPT ![t] = d]
  <2>1. expire' = [expire EXCEPT ![t] = d] /\ alive' = alive \cup {t}
    BY <1>1 DEF AddTimer
  <2>2. d \in Nat
    BY <1>1, ListIsTyped, ListAssumption
  <2> QED BY <2>1, <2>2, ListIsTyped DEF Off
<1>4. Deadlines!Arm(t, d)
  BY <1>2, <1>3, ArmedAreAlive DEF AddTimer, Callable, tickVars, Deadlines!Arm, Deadlines!Callable
<1> QED BY <1>0, <1>1, <1>4 DEF Deadlines!Next

LEMMA AdjustPostpones ==
    ASSUME Typed, NEW t \in Timers, NEW delay \in Delays, AdjustTimer(t, delay)
    PROVE  Deadlines!Next
<1>0. now + delay \in {time + x : time \in 0 .. MaxTime, x \in Delays \cup {0}}
  BY DEF Typed, TypeOK
<1>1. PICK d : d = now + delay
  OBVIOUS
<1>2. d >= expire[t] /\ t \in alive
  BY <1>1, ListIsTyped, ListAssumption DEF AdjustTimer, Named
<1>3. [x \in Timers |-> IF x \in alive' THEN expire'[x] ELSE Off]
        = [[x \in Timers |-> IF x \in alive THEN expire[x] ELSE Off] EXCEPT ![t] = d]
  <2>1. expire' = [expire EXCEPT ![t] = d] /\ alive' = alive
    BY <1>1 DEF AdjustTimer
  <2>2. d \in Nat
    BY <1>1, ListIsTyped, ListAssumption
  <2> QED BY <1>2, <2>1, <2>2, ListIsTyped DEF Off
<1>4. t \in alive \ {IF pc = "firing" THEN tmp ELSE NULL}
  BY <1>2, ListIsTyped DEF AdjustTimer, Named
<1>5. Deadlines!Postpone(t, d)
  BY <1>2, <1>3, <1>4, ArmedAreAlive
  DEF AdjustTimer, Callable, tickVars, Deadlines!Postpone, Deadlines!Callable
<1> QED BY <1>0, <1>1, <1>5 DEF Deadlines!Next

LEMMA DeleteCancels ==
    ASSUME Typed, NEW t \in Timers, DeleteTimer(t)
    PROVE  Deadlines!Next
<1>1. t \in alive \ {IF pc = "firing" THEN tmp ELSE NULL}
  BY ListIsTyped DEF DeleteTimer, Named
<1>2. [x \in Timers |-> IF x \in alive' THEN expire'[x] ELSE Off]
        = [[x \in Timers |-> IF x \in alive THEN expire[x] ELSE Off] EXCEPT ![t] = -1]
  BY ListIsTyped DEF DeleteTimer, Off
<1>3. Deadlines!Cancel(t)
  BY <1>1, <1>2, ArmedAreAlive
  DEF DeleteTimer, Callable, tickVars, Deadlines!Cancel, Deadlines!Callable, Deadlines!Off
<1> QED BY <1>3 DEF Deadlines!Next

(* The callback that runs next is that of a timer with the earliest        *)
(* deadline, and only of one that is due.                                  *)
LEMMA FireFires ==
    ASSUME IInv, TickFire
    PROVE  Deadlines!Next
<1>1. ~crashed /\ pc = "ticking" /\ tmp # NULL /\ pc' = "firing" /\ tmp' = tmp
  BY DEF TickFire
<1>2. tmp = list.head /\ Keeps(list, expire, alive)
  BY <1>1 DEF IInv, Order, Ticking
<1>3. tmp \in alive /\ tmp \in Timers /\ \A x \in alive : expire[tmp] <= expire[x]
  BY <1>1, <1>2, HeadIsEarliest
<1>4. expire[tmp] <= cur
  BY <1>3, ListIsTyped DEF TickFire, NotDue, IInv
<1>5. PICK t \in Timers : t = tmp
  BY <1>3
<1>6. t \in Deadlines!Due
  BY <1>3, <1>4, <1>5, ArmedAreAlive DEF IInv
<1>7. ASSUME NEW u \in Deadlines!Due
      PROVE  [x \in Timers |-> IF x \in alive THEN expire[x] ELSE Off][t]
               <= [x \in Timers |-> IF x \in alive THEN expire[x] ELSE Off][u]
  <2>1. u \in alive /\ u \in Timers
    BY ArmedAreAlive, ListIsTyped DEF IInv
  <2> QED BY <1>3, <1>5, <2>1
<1>8. Deadlines!Fire(t)
  BY <1>1, <1>5, <1>6, <1>7 DEF TickFire, Deadlines!Fire
<1> QED BY <1>5, <1>8 DEF Deadlines!Next

LEMMA RemoveReturns ==
    ASSUME IInv, TickRemove
    PROVE  Deadlines!Next
<1>1. tmp \in alive
  BY DEF TickRemove, IInv, Ticking, Typed, TypeOK
<1>2. alive' = alive \ {tmp} /\ expire' = [expire EXCEPT ![tmp] = 0] /\ now' = now /\ cur' = cur
      /\ pc = "firing" /\ pc' = "ticking"
  BY DEF TickRemove
<1>3. [x \in Timers |-> IF x \in alive' THEN expire'[x] ELSE Off]
        = [[x \in Timers |-> IF x \in alive THEN expire[x] ELSE Off]
             EXCEPT ![IF pc = "firing" THEN tmp ELSE NULL] = -1]
  BY <1>1, <1>2, ListIsTyped DEF Off, IInv
<1>4. Deadlines!CallbackReturns
  BY <1>2, <1>3 DEF Deadlines!CallbackReturns, Deadlines!Off
<1> QED BY <1>4 DEF Deadlines!Next

(* The loop is left only when no timer is due.                             *)
LEMMA EndEnds ==
    ASSUME IInv, TickEnd
    PROVE  Deadlines!Next
<1>1. ~crashed /\ pc = "ticking" /\ pc' = "idle" /\ cur' = 0 /\ tmp' = NULL
      /\ UNCHANGED <<list, expire, alive, now, crashed>> /\ (tmp # NULL => cur < expire[tmp])
  BY DEF TickEnd, NotDue
<1>2. tmp = list.head /\ Keeps(list, expire, alive)
  BY <1>1 DEF IInv, Order, Ticking
<1>3. ASSUME NEW u \in alive
      PROVE  ~ (expire[u] <= cur)
  <2>1. tmp # NULL /\ tmp \in alive /\ expire[tmp] <= expire[u]
    BY <1>2, HeadIsEarliest
  <2>2. expire[tmp] \in Nat /\ expire[u] \in Nat /\ cur \in Nat
    BY <2>1, ListIsTyped DEF IInv
  <2> QED BY <1>1, <2>1, <2>2
<1>4. Deadlines!Due = {}
  BY <1>3, ArmedAreAlive DEF IInv
<1>5. Deadlines!EndTick
  BY <1>1, <1>4 DEF Deadlines!EndTick
<1> QED BY <1>5 DEF Deadlines!Next

LEMMA StepIsStep == IInv /\ [Next]_vars => [Deadlines!Next]_(Deadlines!vars)
<1> SUFFICES ASSUME IInv, [Next]_vars
             PROVE  [Deadlines!Next]_(Deadlines!vars)
  OBVIOUS
<1> USE DEF IInv
<1>1. ASSUME NEW t \in Timers, NEW delay \in Delays, AddTimer(t, delay)
      PROVE  Deadlines!Next
  BY <1>1, AddArms
<1>2. ASSUME NEW t \in Timers, NEW delay \in Delays, AdjustTimer(t, delay)
      PROVE  Deadlines!Next
  BY <1>2, AdjustPostpones
<1>3. ASSUME NEW t \in Timers, DeleteTimer(t)
      PROVE  Deadlines!Next
  BY <1>3, DeleteCancels
<1>4. CASE TickBegin
  <2>1. Deadlines!BeginTick
    BY <1>4 DEF TickBegin, Deadlines!BeginTick
  <2> QED BY <2>1 DEF Deadlines!Next
<1>5. CASE TickFire
  BY <1>5, FireFires
<1>6. CASE TickRemove
  BY <1>6, RemoveReturns
<1>7. CASE TickEnd
  BY <1>7, EndEnds
<1>8. CASE TimePasses
  <2>1. now + 1 \in {time + x : time \in 0 .. MaxTime, x \in Delays \cup {0}} /\ now + 1 > now
    <3>1. now + 1 \in 0 .. MaxTime /\ now + 1 = (now + 1) + 0 /\ 0 \in Delays \cup {0} /\ now + 1 > now
      BY <1>8, ListIsTyped, ListAssumption DEF TimePasses
    <3> QED BY <3>1
  <2>2. Deadlines!TimePasses
    BY <1>8, <2>1 DEF TimePasses, tickVars, Deadlines!TimePasses
  <2> QED BY <2>2 DEF Deadlines!Next
<1>9. CASE Destroy
  <2>1. alive' = {}
    BY <1>9, DestroyHolds
  <2>2. Deadlines!Destroy
    BY <1>9, <2>1 DEF Destroy, Deadlines!Destroy, Deadlines!Off, Off
  <2> QED BY <2>2 DEF Deadlines!Next
<1>10. CASE UNCHANGED vars
  BY <1>10 DEF vars, Deadlines!vars
<1> QED BY <1>1, <1>2, <1>3, <1>4, <1>5, <1>6, <1>7, <1>8, <1>9, <1>10 DEF Next, Tick

(* Until it crashes, the list does what DeadlineTimers promises its users: *)
(* a tick runs the callbacks of exactly the timers that are due by the     *)
(* clock it has read, the earliest deadline first and none twice, whatever *)
(* the callbacks add, put off and delete in between.                       *)
THEOREM KeepsItsDeadlines == Spec => KeepsDeadlines
<1>1. Spec => Deadlines!Init
  BY InitIsInit DEF Spec
<1> QED BY <1>1, Always, StepIsStep, PTL DEF Spec, KeepsDeadlines, Deadlines!Spec
=============================================================================
