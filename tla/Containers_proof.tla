-------------------------- MODULE Containers_proof --------------------------
(***************************************************************************)
(* The invariants of the list, option groups, tab layout, timers and hash  *)
(* table, for any number of elements, options, pages, controls and keys;   *)
(* that the hash table is a map; and the types of all parts.               *)
(***************************************************************************)
EXTENDS TreeView_proof

-----------------------------------------------------------------------------
(* The hash table.                                                         *)

\* The instance has operators of its own for finite sets.
LEMMA SameSize ==
  ASSUME NEW S
  PROVE  /\ Hash!Cardinality(S) = Cardinality(S)
         /\ Hash!IsFiniteSet(S) <=> IsFiniteSet(S)
BY DEF Hash!Cardinality, Cardinality, Hash!IsFiniteSet, IsFiniteSet

\* The buckets in use.
Buckets == 0..(m_nBuckets - 1)

\* What a link may lead to.
Links == Items \cup {NULL}

\* The links of the bucket s lead through the items d and no others, there and back.
Linked(s, d) ==
  /\ d \in Seq(Items)
  /\ m_aT[s] = IF Len(d) = 0 THEN NULL ELSE d[1]
  /\ \A n \in 1..Len(d) :
       /\ key[d[n]] \in Keys /\ key[d[n]] % m_nBuckets = s
       /\ pNext[d[n]] = IF n = Len(d) THEN NULL ELSE d[n + 1]
       /\ pPrev[d[n]] = IF n = 1 THEN NULL ELSE d[n - 1]
  /\ \A m, n \in 1..Len(d) : d[m] = d[n] => m = n

\* The rounds of the loop in Chain.
Follows(from, Size) ==
  /\ from \in [0..Size -> [Links -> Seq(Items)]]
  /\ \A i \in Links : from[0][i] = <<>>
  /\ \A n \in 1..Size, i \in Links :
       from[n][i] = IF i = NULL THEN <<>> ELSE <<i>> \o from[n - 1][pNext[i]]

\* The loop ends.
LEMMA FollowsExists ==
  ASSUME NEW s, m_aT[s] \in Links, pNext \in [Items -> Links], Hash!Cardinality(Items) \in Nat
  PROVE  \E from : /\ Follows(from, Hash!Cardinality(Items))
                   /\ Hash!Chain(s) = from[Hash!Cardinality(Items)][m_aT[s]]
<1> DEFINE Size == Hash!Cardinality(Items)
           X == [Links -> Seq(Items)]
           none == [i \in Links |-> <<>>]
           next(x) == [i \in Links |-> IF i = NULL THEN <<>> ELSE <<i>> \o x[pNext[i]]]
           step == [n \in Nat |-> [x \in X |-> next(x)]]
           F(g) == [n \in 0..Size |->
                      [i \in Items \cup {NULL} |->
                         IF n = 0 \/ i = NULL THEN <<>> ELSE <<i>> \o g[n - 1][pNext[i]]]]
           from == CHOOSE g : g = F(g)
<1>1. Size \in Nat /\ none \in X
  OBVIOUS
<1>2. ASSUME NEW x \in X PROVE next(x) \in X
  <2>1. ASSUME NEW i \in Links, i # NULL PROVE <<i>> \o x[pNext[i]] \in Seq(Items)
    <3>1. i \in Items /\ pNext[i] \in Links /\ x[pNext[i]] \in Seq(Items) /\ <<i>> \in Seq(Items)
      BY <2>1 DEF Links
    <3> QED BY <3>1, ConcatProperties
  <2> QED BY <2>1
<1>3. step \in [Nat -> [X -> X]]
  BY <1>2
<1>4. PICK f : Recurs(f, X, none, step, Size)
  <2> HIDE DEF Size, X, none, step
  <2>1. \E f : Recurs(f, X, none, step, Size)
    BY ONLY <1>1, <1>3, RecursionExists
  <2> QED BY <2>1
<1>5. f \in [0..Size -> X] /\ f[0] = none
  BY <1>4 DEF Recurs
<1>6. ASSUME NEW n \in 1..Size PROVE f[n] = next(f[n - 1])
  <2>1. n - 1 \in 0..Size /\ n \in Nat
    BY <1>1
  <2>2. f[n] = step[n][f[n - 1]]
    BY <1>4 DEF Recurs
  <2>3. f[n - 1] \in X
    BY <1>5, <2>1
  <2> QED BY <2>1, <2>2, <2>3
<1>7. f = F(f)
  <2>1. ASSUME NEW n \in 0..Size
        PROVE  f[n] = [i \in Items \cup {NULL} |->
                         IF n = 0 \/ i = NULL THEN <<>> ELSE <<i>> \o f[n - 1][pNext[i]]]
    <3>1. CASE n = 0
      BY <3>1, <1>5 DEF Links
    <3>2. CASE n # 0
      <4>1. n \in 1..Size
        BY <3>2, <1>1
      <4> QED BY <4>1, <3>2, <1>6 DEF Links
    <3> QED BY <3>1, <3>2
  <2> QED BY <2>1, <1>5
<1>8. from = F(from)
  BY <1>7
<1>9. Hash!Chain(s) = from[Size][m_aT[s]]
  BY DEF Hash!Chain
<1> HIDE DEF from
<1>10. /\ from[0] = none
       /\ \A n \in 1..Size : from[n] = next(from[n - 1])
  <2>1. \A n \in 0..Size : from[n] = [i \in Items \cup {NULL} |->
                         IF n = 0 \/ i = NULL THEN <<>> ELSE <<i>> \o from[n - 1][pNext[i]]]
    BY <1>8
  <2> HIDE DEF F
  <2>2. from[0] = [i \in Links |-> <<>>]
    <3>1. 0 \in 0..Size
      BY <1>1
    <3>2. from[0] = [i \in Items \cup {NULL} |->
                       IF 0 = 0 \/ i = NULL THEN <<>> ELSE <<i>> \o from[0 - 1][pNext[i]]]
      BY ONLY <2>1, <3>1
    <3> QED BY ONLY <3>2 DEF Links
  <2>3. ASSUME NEW n \in 1..Size PROVE from[n] = next(from[n - 1])
    <3>1. n \in 0..Size /\ n # 0
      BY <1>1
    <3> QED BY ONLY <2>1, <3>1 DEF Links
  <2> QED BY <2>2, <2>3
<1>11. from \in [0..Size -> X]
  <2>1. \A n \in 0..Size : from[n] \in X
    <3>1. from[0] \in X /\ \A n \in 1..Size : from[n - 1] \in X => from[n] \in X
      BY <1>1, <1>2, <1>10
    <3> HIDE DEF X, Size
    <3> QED BY ONLY <1>1, <3>1, RecursionType
  <2>2. from = [n \in 0..Size |-> [i \in Items \cup {NULL} |->
                 IF n = 0 \/ i = NULL THEN <<>> ELSE <<i>> \o from[n - 1][pNext[i]]]]
    BY <1>8
  <2>3. from = [n \in 0..Size |-> from[n]]
    BY ONLY <2>2
  <2> HIDE DEF X
  <2> QED BY ONLY <2>1, <2>3
<1>12. \A n \in 1..Size, i \in Links :
         from[n][i] = IF i = NULL THEN <<>> ELSE <<i>> \o from[n - 1][pNext[i]]
  <2> SUFFICES ASSUME NEW n \in 1..Size, NEW i \in Links
               PROVE  from[n][i] = IF i = NULL THEN <<>> ELSE <<i>> \o from[n - 1][pNext[i]]
    OBVIOUS
  <2>1. from[n] = next(from[n - 1])
    BY <1>10
  <2> QED BY ONLY <2>1, i \in Links
<1>13. \A i \in Links : from[0][i] = <<>>
  BY <1>10
<1> QED BY <1>9, <1>11, <1>12, <1>13 DEF Follows

\* What is taken for granted of the table's constants.
LEMMA HashConstants ==
  /\ Keys \subseteq Nat /\ NULL \notin Keys /\ NULL \notin Data /\ NULL \notin Items
  /\ IsFiniteSet(Items) /\ Cardinality(Items) \in Nat
  /\ MaxBuckets \in Nat \ {0}
<1>1. Hash!ConstantsAssumption
  BY ContainersAssumption
<1>2. IsFiniteSet(Items)
  BY <1>1, SameSize DEF Hash!ConstantsAssumption
<1>3. Cardinality(Items) \in Nat
  BY <1>2, FS_CardinalityType
<1> QED BY <1>1, <1>2, <1>3 DEF Hash!ConstantsAssumption

\* A sequence without repetitions is no longer than there are items.
LEMMA FitsInItems ==
  ASSUME NEW d \in Seq(Items), \A m, n \in 1..Len(d) : d[m] = d[n] => m = n
  PROVE  Len(d) <= Cardinality(Items)
<1> DEFINE D == 1..Len(d)
<1>1. Len(d) \in Nat /\ d \in [D -> Items]
  BY LenProperties
<1>2. IsFiniteSet(D) /\ Cardinality(D) = Len(d)
  BY <1>1, IntervalSize
<1>3. IsFiniteSet(Items) /\ Cardinality(Items) \in Nat
  BY HashConstants
<1>4. SUFFICES ASSUME Cardinality(Items) < Cardinality(D) PROVE FALSE
  BY <1>1, <1>2, <1>3
<1>5. \A m, n \in D : d[m] = d[n] => m = n
  OBVIOUS
<1> HIDE DEF D
<1>6. \E m, n \in D : m # n /\ d[m] = d[n]
  BY ONLY <1>1, <1>2, <1>3, <1>4, FS_PigeonHole
<1> QED BY <1>5, <1>6

\* The item of d at p, or NULL behind the last one.
ItemAt(d, p) == IF p = Len(d) + 1 THEN NULL ELSE d[p]

\* t is what is in d from p on.
IsFrom(t, d, p) ==
  /\ t \in Seq(Items) /\ Len(t) = Len(d) + 1 - p
  /\ \A q \in 1..Len(t) : t[q] = d[p + q - 1]

\* What the links of a bucket say of its items, one by one.
LEMMA LinkedFacts ==
  ASSUME NEW s, NEW d, Linked(s, d)
  PROVE  /\ d \in Seq(Items) /\ Len(d) \in Nat
         /\ \A n \in 1..Len(d) : d[n] \in Items /\ d[n] # NULL /\ pNext[d[n]] = ItemAt(d, n + 1)
         /\ m_aT[s] = ItemAt(d, 1)
         /\ \A p \in 1..(Len(d) + 1) : ItemAt(d, p) \in Links
         /\ Len(d) <= Cardinality(Items)
<1>1. d \in Seq(Items) /\ Len(d) \in Nat
  BY DEF Linked
<1>2. \A n \in 1..Len(d) : d[n] \in Items /\ d[n] # NULL
  BY <1>1, ElementOfSeq, HashConstants
<1>3. \A n \in 1..Len(d) : pNext[d[n]] = ItemAt(d, n + 1)
  BY <1>1 DEF Linked, ItemAt
<1>4. m_aT[s] = ItemAt(d, 1)
  BY <1>1 DEF Linked, ItemAt
<1>5. \A p \in 1..(Len(d) + 1) : ItemAt(d, p) \in Links
  BY <1>1, <1>2 DEF ItemAt, Links
<1>6. Len(d) <= Cardinality(Items)
  BY <1>1, FitsInItems DEF Linked
<1> QED BY <1>1, <1>2, <1>3, <1>4, <1>5, <1>6

\* An item and what is behind it.
LEMMA IsFromPrevious ==
  ASSUME NEW d \in Seq(Items), NEW p \in 1..Len(d), NEW t, IsFrom(t, d, p + 1)
  PROVE  IsFrom(<<d[p]>> \o t, d, p)
<1> DEFINE u == <<d[p]>>
           v == u \o t
<1>1. u \in Seq(Items) /\ Len(u) = 1 /\ u[1] = d[p]
  BY ElementOfSeq
<1>2. t \in Seq(Items) /\ Len(t) = Len(d) - p /\ Len(d) \in Nat /\ Len(t) \in Nat
  BY DEF IsFrom
<1> HIDE DEF u
<1>2a. /\ u \o t \in Seq(Items) /\ Len(u \o t) = Len(u) + Len(t)
       /\ \A q \in 1..(Len(u) + Len(t)) : (u \o t)[q] = IF q <= Len(u) THEN u[q] ELSE t[q - Len(u)]
  BY ONLY <1>1, <1>2, ConcatProperties
<1>3. /\ v \in Seq(Items) /\ Len(v) = 1 + Len(t)
      /\ \A q \in 1..(1 + Len(t)) : v[q] = IF q <= 1 THEN u[q] ELSE t[q - 1]
  BY <1>1, <1>2, <1>2a
<1> HIDE DEF v
<1>4. ASSUME NEW q \in 1..Len(v) PROVE v[q] = d[p + q - 1]
  <2>1. CASE q = 1
    BY <2>1, <1>1, <1>2, <1>3
  <2>2. CASE q # 1
    <3>1. q - 1 \in 1..Len(t) /\ q \in 1..(1 + Len(t)) /\ ~(q <= 1)
      BY <2>2, <1>2, <1>3
    <3>2. t[q - 1] = d[(p + 1) + (q - 1) - 1] /\ (p + 1) + (q - 1) - 1 = p + q - 1
      BY <3>1 DEF IsFrom
    <3> QED BY <3>1, <3>2, <1>3
  <2> QED BY <2>1, <2>2
<1>5. Len(v) = Len(d) + 1 - p
  BY <1>2, <1>3
<1> QED BY <1>3, <1>4, <1>5 DEF IsFrom, u, v

\* A walk along the links meets the items of the bucket in their order.
LEMMA ChainIs ==
  ASSUME NEW s, NEW d, Linked(s, d), pNext \in [Items -> Links]
  PROVE  Hash!Chain(s) = d
<1> DEFINE Size == Hash!Cardinality(Items)
           L == Len(d)
<1>1. /\ d \in Seq(Items) /\ L \in Nat
      /\ \A n \in 1..L : d[n] \in Items /\ d[n] # NULL /\ pNext[d[n]] = ItemAt(d, n + 1)
      /\ m_aT[s] = ItemAt(d, 1)
      /\ \A p \in 1..(L + 1) : ItemAt(d, p) \in Links
  BY LinkedFacts
<1>2. Size \in Nat /\ L <= Size
  BY SameSize, HashConstants, LinkedFacts
<1>3. PICK from : Follows(from, Size) /\ Hash!Chain(s) = from[Size][m_aT[s]]
  <2>1. m_aT[s] \in Links /\ Size \in Nat
    BY <1>1, <1>2
  <2> QED BY ONLY <2>1, pNext \in [Items -> Links], FollowsExists
<1> DEFINE S == {n \in 0..Size : \A p \in 1..(L + 1) :
                    L + 1 - p <= n => IsFrom(from[n][ItemAt(d, p)], d, p)}
<1>4. ASSUME NEW n \in 0..Size PROVE IsFrom(from[n][ItemAt(d, L + 1)], d, L + 1)
  <2>1. ItemAt(d, L + 1) = NULL /\ NULL \in Links
    BY DEF ItemAt, Links
  <2>2. from[n][NULL] = <<>>
    <3>1. n = 0 \/ n \in 1..Size
      BY <1>2
    <3> QED BY <1>3, <2>1, <3>1 DEF Follows
  <2> DEFINE e == from[n][ItemAt(d, L + 1)]
  <2>3. e \in Seq(Items) /\ Len(e) = 0
    BY <2>1, <2>2, EmptySeq
  <2>4. L + 1 - (L + 1) = 0 /\ Len(d) + 1 - (L + 1) = 0
    BY <1>1
  <2> HIDE DEF e
  <2>5. Len(d) + 1 - (L + 1) = Len(e) /\ \A q \in 1..Len(e) : e[q] = d[L + 1 + q - 1]
    BY <2>3, <2>4
  <2>6. IsFrom(e, d, L + 1)
    BY <2>3, <2>5 DEF IsFrom
  <2> QED BY <2>6 DEF e
<1>5. 0 \in S
  <2>1. \A p \in 1..(L + 1) : L + 1 - p <= 0 => p = L + 1
    BY <1>1
  <2>2. 0 \in 0..Size
    BY <1>2
  <2> QED BY <1>4, <2>1, <2>2
<1>6. ASSUME NEW n \in 0..(Size - 1), n \in S PROVE n + 1 \in S
  <2>0. n + 1 \in 1..Size /\ n + 1 \in 0..Size /\ (n + 1) - 1 = n
    BY <1>2
  <2>1. ASSUME NEW p \in 1..(L + 1), L + 1 - p <= n + 1
        PROVE  IsFrom(from[n + 1][ItemAt(d, p)], d, p)
    <3>1. CASE p = L + 1
      BY <3>1, <2>0, <1>4
    <3>2. CASE p # L + 1
      <4>1. p \in 1..L /\ p + 1 \in 1..(L + 1) /\ L + 1 - (p + 1) <= n
        BY <3>2, <2>1, <1>1
      <4>2. ItemAt(d, p) = d[p] /\ d[p] \in Links /\ d[p] # NULL /\ pNext[d[p]] = ItemAt(d, p + 1)
        BY <4>1, <1>1, <3>2 DEF ItemAt, Links
      <4>3. IsFrom(from[n][ItemAt(d, p + 1)], d, p + 1)
        BY <4>1, <1>6
      <4>4. from[n + 1][d[p]] = <<d[p]>> \o from[n][ItemAt(d, p + 1)]
        BY <1>3, <2>0, <4>2 DEF Follows
      <4> QED BY <4>1, <4>2, <4>3, <4>4, <1>1, IsFromPrevious
    <3> QED BY <3>1, <3>2
  <2> QED BY <2>0, <2>1
<1>7. Size \in S
  <2> HIDE DEF S, Size
  <2>1. \A i \in 0..Size : i \in S
    BY ONLY <1>2, <1>5, <1>6, UpTo
  <2> QED BY <2>1, <1>2
<1> DEFINE t == from[Size][ItemAt(d, 1)]
<1>8. IsFrom(t, d, 1)
  BY <1>1, <1>2, <1>7
<1> HIDE DEF t
<1>9. t = d
  <2>1. t \in Seq(Items) /\ Len(t) = L /\ \A q \in 1..Len(t) : t[q] = d[q]
    BY <1>1, <1>8 DEF IsFrom
  <2> QED BY <1>1, <2>1, SeqEqual
<1> QED BY <1>1, <1>3, <1>9 DEF t

\* The rounds of the loop in Lookup.
Searches(from, k, Size) ==
  /\ from \in [0..Size -> [Links -> Links]]
  /\ \A i \in Links : from[0][i] = NULL
  /\ \A n \in 1..Size, i \in Links :
       from[n][i] = IF i = NULL THEN NULL ELSE IF key[i] = k THEN i ELSE from[n - 1][pNext[i]]

\* The loop ends.
LEMMA SearchesExists ==
  ASSUME NEW k, m_nBuckets # 0, m_nCount # 0, pNext \in [Items -> Links],
         Hash!Cardinality(Items) \in Nat
  PROVE  \E from : /\ Searches(from, k, Hash!Cardinality(Items))
                   /\ Hash!Lookup(k) = from[Hash!Cardinality(Items)][m_aT[Hash!Slot(k)]]
<1> DEFINE Size == Hash!Cardinality(Items)
           X == [Links -> Links]
           none == [i \in Links |-> NULL]
           next(x) == [i \in Links |->
                         IF i = NULL THEN NULL ELSE IF key[i] = k THEN i ELSE x[pNext[i]]]
           step == [n \in Nat |-> [x \in X |-> next(x)]]
           F(g) == [n \in 0..Size |->
                      [i \in Items \cup {NULL} |->
                         IF n = 0 \/ i = NULL THEN NULL
                         ELSE IF key[i] = k THEN i ELSE g[n - 1][pNext[i]]]]
           from == CHOOSE g : g = F(g)
<1>1. Size \in Nat /\ none \in X
  BY DEF Links
<1>2. ASSUME NEW x \in X PROVE next(x) \in X
  BY DEF Links
<1>3. step \in [Nat -> [X -> X]]
  BY <1>2
<1>4. PICK f : Recurs(f, X, none, step, Size)
  <2> HIDE DEF Size, X, none, step
  <2>1. \E f : Recurs(f, X, none, step, Size)
    BY ONLY <1>1, <1>3, RecursionExists
  <2> QED BY <2>1
<1>5. f \in [0..Size -> X] /\ f[0] = none
  BY <1>4 DEF Recurs
<1>6. ASSUME NEW n \in 1..Size PROVE f[n] = next(f[n - 1])
  <2>1. n - 1 \in 0..Size /\ n \in Nat
    BY <1>1
  <2>2. f[n] = step[n][f[n - 1]]
    BY <1>4 DEF Recurs
  <2>3. f[n - 1] \in X
    BY <1>5, <2>1
  <2> QED BY <2>1, <2>2, <2>3
<1>7. f = F(f)
  <2>1. ASSUME NEW n \in 0..Size
        PROVE  f[n] = [i \in Items \cup {NULL} |->
                         IF n = 0 \/ i = NULL THEN NULL
                         ELSE IF key[i] = k THEN i ELSE f[n - 1][pNext[i]]]
    <3>1. CASE n = 0
      BY <3>1, <1>5 DEF Links
    <3>2. CASE n # 0
      <4>1. n \in 1..Size
        BY <3>2, <1>1
      <4> QED BY <4>1, <3>2, <1>6 DEF Links
    <3> QED BY <3>1, <3>2
  <2> QED BY <2>1, <1>5
<1>8. from = F(from)
  BY <1>7
<1>9. Hash!Lookup(k) = from[Size][m_aT[Hash!Slot(k)]]
  BY DEF Hash!Lookup
<1> HIDE DEF from
<1>10. /\ from[0] = none
       /\ \A n \in 1..Size : from[n] = next(from[n - 1])
  <2>1. \A n \in 0..Size : from[n] = [i \in Items \cup {NULL} |->
                         IF n = 0 \/ i = NULL THEN NULL
                         ELSE IF key[i] = k THEN i ELSE from[n - 1][pNext[i]]]
    BY <1>8
  <2> HIDE DEF F
  <2>2. from[0] = [i \in Links |-> NULL]
    <3>1. 0 \in 0..Size
      BY <1>1
    <3>2. from[0] = [i \in Items \cup {NULL} |->
                       IF 0 = 0 \/ i = NULL THEN NULL
                       ELSE IF key[i] = k THEN i ELSE from[0 - 1][pNext[i]]]
      BY ONLY <2>1, <3>1
    <3> QED BY ONLY <3>2 DEF Links
  <2>3. ASSUME NEW n \in 1..Size PROVE from[n] = next(from[n - 1])
    <3>1. n \in 0..Size /\ n # 0
      BY <1>1
    <3> QED BY ONLY <2>1, <3>1 DEF Links
  <2> QED BY <2>2, <2>3
<1>11. from \in [0..Size -> X]
  <2>1. \A n \in 0..Size : from[n] \in X
    <3> HIDE DEF X, Size, next, none
    <3>1. from[0] \in X /\ \A n \in 1..Size : from[n - 1] \in X => from[n] \in X
      BY ONLY <1>1, <1>2, <1>10
    <3> QED BY ONLY <1>1, <3>1, RecursionType
  <2>2. from = [n \in 0..Size |-> [i \in Items \cup {NULL} |->
                 IF n = 0 \/ i = NULL THEN NULL
                 ELSE IF key[i] = k THEN i ELSE from[n - 1][pNext[i]]]]
    BY <1>8
  <2>3. from = [n \in 0..Size |-> from[n]]
    BY ONLY <2>2
  <2> HIDE DEF X
  <2> QED BY ONLY <2>1, <2>3
<1>12. \A n \in 1..Size, i \in Links :
         from[n][i] = IF i = NULL THEN NULL
                      ELSE IF key[i] = k THEN i ELSE from[n - 1][pNext[i]]
  <2> SUFFICES ASSUME NEW n \in 1..Size, NEW i \in Links
               PROVE  from[n][i] = IF i = NULL THEN NULL
                                   ELSE IF key[i] = k THEN i ELSE from[n - 1][pNext[i]]
    OBVIOUS
  <2>1. from[n] = next(from[n - 1])
    BY <1>10
  <2> QED BY ONLY <2>1, i \in Links
<1>13. \A i \in Links : from[0][i] = NULL
  BY <1>10
<1> QED BY <1>9, <1>11, <1>12, <1>13 DEF Searches

\* i is an item of d, from p on, with the text k, or there is none and i is NULL.
IsFound(i, k, d, p) ==
  \/ i = NULL /\ \A q \in p..Len(d) : key[d[q]] # k
  \/ \E q \in p..Len(d) : i = d[q] /\ key[d[q]] = k

\* A search meets the item of its text, if the bucket has one.
LEMMA LookupIs ==
  ASSUME NEW k, NEW d, Linked(Hash!Slot(k), d), m_nBuckets # 0, m_nCount # 0,
         pNext \in [Items -> Links]
  PROVE  IsFound(Hash!Lookup(k), k, d, 1)
<1> DEFINE Size == Hash!Cardinality(Items)
           L == Len(d)
           s == Hash!Slot(k)
<1>1. /\ d \in Seq(Items) /\ L \in Nat
      /\ \A n \in 1..L : d[n] \in Items /\ d[n] # NULL /\ pNext[d[n]] = ItemAt(d, n + 1)
      /\ m_aT[s] = ItemAt(d, 1)
      /\ \A p \in 1..(L + 1) : ItemAt(d, p) \in Links
  <2> HIDE DEF s
  <2> QED BY LinkedFacts DEF s
<1>2. Size \in Nat /\ L <= Size
  BY SameSize, HashConstants, LinkedFacts
<1>3. PICK from : Searches(from, k, Size) /\ Hash!Lookup(k) = from[Size][m_aT[s]]
  BY ONLY <1>2, m_nBuckets # 0, m_nCount # 0, pNext \in [Items -> Links], SearchesExists
<1> HIDE DEF s
<1> DEFINE S == {n \in 0..Size : \A p \in 1..(L + 1) :
                    L + 1 - p <= n => IsFound(from[n][ItemAt(d, p)], k, d, p)}
<1>4. ASSUME NEW n \in 0..Size PROVE IsFound(from[n][ItemAt(d, L + 1)], k, d, L + 1)
  <2>1. ItemAt(d, L + 1) = NULL /\ NULL \in Links
    BY DEF ItemAt, Links
  <2>2. from[n][NULL] = NULL
    <3>1. n = 0 \/ n \in 1..Size
      BY <1>2
    <3> QED BY <1>3, <2>1, <3>1 DEF Searches
  <2> QED BY <1>1, <2>1, <2>2 DEF IsFound
<1>5. 0 \in S
  <2>1. \A p \in 1..(L + 1) : L + 1 - p <= 0 => p = L + 1
    BY <1>1
  <2>2. 0 \in 0..Size
    BY <1>2
  <2> QED BY <1>4, <2>1, <2>2
<1>6. ASSUME NEW n \in 0..(Size - 1), n \in S PROVE n + 1 \in S
  <2>0. n + 1 \in 1..Size /\ n + 1 \in 0..Size /\ (n + 1) - 1 = n
    BY <1>2
  <2>1. ASSUME NEW p \in 1..(L + 1), L + 1 - p <= n + 1
        PROVE  IsFound(from[n + 1][ItemAt(d, p)], k, d, p)
    <3>1. CASE p = L + 1
      BY <3>1, <2>0, <1>4
    <3>2. CASE p # L + 1
      <4>1. p \in 1..L /\ p + 1 \in 1..(L + 1) /\ L + 1 - (p + 1) <= n
        BY <3>2, <2>1, <1>1
      <4>2. ItemAt(d, p) = d[p] /\ d[p] \in Links /\ d[p] # NULL /\ pNext[d[p]] = ItemAt(d, p + 1)
        BY <4>1, <1>1, <3>2 DEF ItemAt, Links
      <4>3. IsFound(from[n][ItemAt(d, p + 1)], k, d, p + 1)
        BY <4>1, <1>6
      <4>4. from[n + 1][d[p]] = IF key[d[p]] = k THEN d[p] ELSE from[n][ItemAt(d, p + 1)]
        BY <1>3, <2>0, <4>2 DEF Searches
      <4> DEFINE j == from[n][ItemAt(d, p + 1)]
      <4> HIDE DEF j
      <4>5. CASE key[d[p]] = k
        <5>1. from[n + 1][ItemAt(d, p)] = d[p] /\ p \in p..Len(d)
          BY <4>1, <4>2, <4>4, <4>5, <1>1
        <5> QED BY <4>5, <5>1 DEF IsFound
      <4>6. CASE key[d[p]] # k
        <5>1. from[n + 1][ItemAt(d, p)] = j
          BY <4>2, <4>4, <4>6 DEF j
        <5>2. \A q \in p..Len(d) : q = p \/ q \in (p + 1)..Len(d)
          BY <4>1, <1>1
        <5>3. \A q \in (p + 1)..Len(d) : q \in p..Len(d)
          BY <4>1, <1>1
        <5>4. IsFound(j, k, d, p + 1)
          BY <4>3 DEF j
        <5>5. IsFound(j, k, d, p)
          BY ONLY <5>2, <5>3, <5>4, <4>6 DEF IsFound
        <5> QED BY <5>1, <5>5
      <4> QED BY <4>5, <4>6
    <3> QED BY <3>1, <3>2
  <2> QED BY <2>0, <2>1
<1>7. Size \in S
  <2> HIDE DEF S, Size
  <2>1. \A i \in 0..Size : i \in S
    BY ONLY <1>2, <1>5, <1>6, UpTo
  <2> QED BY <2>1, <1>2
<1> QED BY <1>1, <1>2, <1>3, <1>7

\* One bucket changes: the items of the others stay as they were, and no item with a text is
\* outside of a bucket.
Changes(s, e) ==
  /\ Linked(s, e)'
  /\ m_nBuckets' = m_nBuckets
  /\ \A r \in Hash!Slots \ {s} : m_aT'[r] = m_aT[r]
  /\ \A j \in Items :
       key[j] \in Keys /\ key[j] % m_nBuckets # s =>
         key'[j] = key[j] /\ pNext'[j] = pNext[j] /\ pPrev'[j] = pPrev[j]
  /\ \A j \in Items :
       key'[j] # NULL => \/ key[j] \in Keys /\ key[j] % m_nBuckets # s
                         \/ \E n \in 1..Len(e) : e[n] = j

\* The variables of the table have the types of their links.
LinksTyped ==
  /\ m_nBuckets \in 0..MaxBuckets
  /\ m_aT \in [Hash!Slots -> Links]
  /\ key \in [Items -> Keys \cup {NULL}]
  /\ pNext \in [Items -> Links] /\ pPrev \in [Items -> Links]

\* d with its item at n moved to the front.
Fronted(d, n) == [m \in 1..Len(d) |-> IF m = 1 THEN d[n] ELSE IF m <= n THEN d[m - 1] ELSE d[m]]

\* Every item with a text of the bucket s is in d.
Complete(s, d) ==
  \A j \in Items : key[j] # NULL /\ key[j] % m_nBuckets = s => \E n \in 1..Len(d) : d[n] = j

\* The same items, each of them once.
LEMMA FrontedItems ==
  ASSUME NEW d \in Seq(Items), NEW n \in 1..Len(d), n # 1,
         \A i, j \in 1..Len(d) : d[i] = d[j] => i = j
  PROVE  LET e == Fronted(d, n) IN
         /\ e \in Seq(Items) /\ Len(e) = Len(d)
         /\ e[1] = d[n] /\ \A m \in 2..n : e[m] = d[m - 1]
         /\ \A m \in (n + 1)..Len(d) : e[m] = d[m]
         /\ \A i, j \in 1..Len(d) : e[i] = e[j] => i = j
         /\ \A m \in 1..Len(d) : \E q \in 1..Len(d) : e[q] = d[m]
         /\ \A m \in 1..Len(d) : \E q \in 1..Len(d) : e[m] = d[q]
<1> DEFINE e == Fronted(d, n)
           L == Len(d)
<1>1. L \in Nat /\ n \in 2..L /\ \A m \in 1..L : d[m] \in Items
  BY ElementOfSeq
<1>2. e = [m \in 1..L |-> IF m = 1 THEN d[n] ELSE IF m <= n THEN d[m - 1] ELSE d[m]]
  BY DEF Fronted
<1> HIDE DEF e
<1>3. /\ e[1] = d[n] /\ \A m \in 2..n : e[m] = d[m - 1]
      /\ \A m \in (n + 1)..L : e[m] = d[m]
  BY <1>1, <1>2
<1>4. \A m \in 1..L : m = 1 \/ m \in 2..n \/ m \in (n + 1)..L
  BY <1>1
<1>5. ASSUME NEW m \in 1..L PROVE e[m] \in Items
  <2>1. m \in 2..n => m - 1 \in 1..L
    BY <1>1
  <2> QED BY <2>1, <1>1, <1>3, <1>4
<1>6. e \in Seq(Items) /\ Len(e) = L
  BY <1>1, <1>2, <1>5
<1>7. ASSUME NEW i \in 1..L, NEW j \in 1..L, e[i] = e[j] PROVE i = j
  <2> DEFINE At(m) == IF m = 1 THEN n ELSE IF m <= n THEN m - 1 ELSE m
  <2>1. At(i) \in 1..L /\ At(j) \in 1..L /\ e[i] = d[At(i)] /\ e[j] = d[At(j)]
    BY <1>1, <1>2
  <2>2. At(i) = At(j) => i = j
    BY <1>1
  <2> HIDE DEF At
  <2> QED BY <2>1, <2>2, <1>7
<1>8. ASSUME NEW m \in 1..L PROVE \E q \in 1..L : e[q] = d[m]
  <2>1. CASE m = n
    BY <2>1, <1>1, <1>3
  <2>2. CASE m < n
    <3>1. m + 1 \in 2..n /\ m + 1 \in 1..L /\ (m + 1) - 1 = m
      BY <2>2, <1>1
    <3> QED BY <3>1, <1>3
  <2>3. CASE m > n
    BY <2>3, <1>1, <1>3
  <2> QED BY <2>1, <2>2, <2>3, <1>1
<1>9. ASSUME NEW m \in 1..L PROVE \E q \in 1..L : e[m] = d[q]
  <2>1. m \in 2..n => m - 1 \in 1..L
    BY <1>1
  <2> QED BY <2>1, <1>1, <1>3, <1>4
<1> QED BY <1>3, <1>6, <1>7, <1>8, <1>9 DEF e

\* Find puts the item at n in front of its bucket, and mends the links around it.
LEMMA ToFrontChanges ==
  ASSUME LinksTyped, NEW CONSTANT s \in Buckets, NEW CONSTANT d, Linked(s, d), Complete(s, d),
         NEW CONSTANT n \in 1..Len(d), n # 1,
         Hash!ToFront(d[n]), key' = key, m_nBuckets' = m_nBuckets
  PROVE  Changes(s, Fronted(d, n))
<1> DEFINE e == Fronted(d, n)
           L == Len(d)
<1>1. d \in Seq(Items) /\ L \in Nat /\ L = Len(d) /\ n \in 1..L /\ n # 1
  BY LinkedFacts
<1> HIDE DEF L
<1>2. n \in 2..L /\ n - 1 \in 1..L /\ 1 \in 1..L /\ L \in Nat /\ L # 0
  BY <1>1
<1>3. \A m \in 1..L : d[m] \in Items /\ d[m] # NULL
  BY <1>1, LinkedFacts
<1>4. \A p, q \in 1..L : d[p] = d[q] => p = q
  BY <1>1 DEF Linked
<1>5. m_aT[s] = d[1]
  BY <1>1, <1>2 DEF Linked
<1>6. \A m \in 1..L : key[d[m]] \in Keys /\ key[d[m]] % m_nBuckets = s
  BY <1>1 DEF Linked
<1>7. \A m \in 1..L : pNext[d[m]] = IF m = L THEN NULL ELSE d[m + 1]
  BY <1>1 DEF Linked
<1>8. \A m \in 1..L : pPrev[d[m]] = IF m = 1 THEN NULL ELSE d[m - 1]
  BY <1>1 DEF Linked
<1> DEFINE i == d[n]
           j1 == d[1]
           jn == d[n - 1]
           after == pNext[i]
<1>9. /\ i \in Items /\ j1 \in Items /\ jn \in Items /\ i # NULL
      /\ i # j1 /\ i # jn /\ pPrev[i] = jn
      /\ Hash!Slot(key[i]) = s /\ m_aT[s] = j1
      /\ after = IF n = L THEN NULL ELSE d[n + 1]
  <2>1. n # 1 /\ n # n - 1 /\ n \in 1..L
    BY <1>1
  <2> QED BY <2>1, <1>2, <1>3, <1>4, <1>5, <1>6, <1>7, <1>8 DEF Hash!Slot
<1>10. /\ pNext' = [pNext EXCEPT ![jn] = after, ![i] = j1]
       /\ pPrev' = [j \in Items |-> IF j = i THEN NULL
                                    ELSE IF j = j1 THEN i
                                    ELSE IF j = after THEN jn ELSE pPrev[j]]
       /\ m_aT' = [m_aT EXCEPT ![s] = i]
  BY <1>9 DEF Hash!ToFront
<1>11. \A m \in 1..L : /\ d[m] = i => m = n
                       /\ d[m] = j1 => m = 1
                       /\ d[m] = jn => m = n - 1
                       /\ d[m] = after => n # L /\ m = n + 1
  <2> SUFFICES ASSUME NEW m \in 1..L, d[m] = after, n = L \/ m # n + 1 PROVE FALSE
    BY <1>1, <1>2, <1>4
  <2>1. n # L => n + 1 \in 1..L
    BY <1>1
  <2> QED BY <2>1, <1>3, <1>4, <1>9
<1> HIDE DEF i, j1, jn, after
<1>12. s \in Hash!Slots /\ m_aT'[s] = i /\ \A r \in Hash!Slots \ {s} : m_aT'[r] = m_aT[r]
  <2>1. s \in Hash!Slots
    BY HashConstants DEF Buckets, LinksTyped, Hash!Slots
  <2> QED BY <2>1, <1>10 DEF LinksTyped
<1>13. /\ pNext'[i] = j1 /\ pNext'[jn] = after
       /\ \A j \in Items : j # i /\ j # jn => pNext'[j] = pNext[j]
  BY <1>9, <1>10 DEF LinksTyped
<1>14. /\ pPrev'[i] = NULL /\ pPrev'[j1] = i
       /\ \A j \in Items : j # i /\ j # j1 =>
            pPrev'[j] = IF j = after THEN jn ELSE pPrev[j]
  BY <1>9, <1>10
<1>15. /\ e \in Seq(Items) /\ Len(e) = L
       /\ e[1] = i /\ \A m \in 2..n : e[m] = d[m - 1]
       /\ \A m \in (n + 1)..L : e[m] = d[m]
       /\ \A p, q \in 1..L : e[p] = e[q] => p = q
       /\ \A m \in 1..L : \E q \in 1..L : e[q] = d[m]
       /\ \A m \in 1..L : \E q \in 1..L : e[m] = d[q]
  <2> HIDE DEF e
  <2>1. \A p, q \in 1..Len(d) : d[p] = d[q] => p = q
    BY <1>1, <1>4
  <2>2. d \in Seq(Items) /\ n \in 1..Len(d) /\ n # 1
    BY <1>1
  <2>3. /\ e \in Seq(Items) /\ Len(e) = Len(d)
        /\ e[1] = d[n] /\ \A m \in 2..n : e[m] = d[m - 1]
        /\ \A m \in (n + 1)..Len(d) : e[m] = d[m]
        /\ \A p, q \in 1..Len(d) : e[p] = e[q] => p = q
        /\ \A m \in 1..Len(d) : \E q \in 1..Len(d) : e[q] = d[m]
        /\ \A m \in 1..Len(d) : \E q \in 1..Len(d) : e[m] = d[q]
    BY ONLY <2>1, <2>2, FrontedItems DEF e
  <2> QED BY ONLY <2>3, <1>1 DEF i
<1> HIDE DEF e
<1>16. e[1] = i
  BY <1>15
<1>17. \A m \in 2..n : e[m] = d[m - 1]
  BY <1>15
<1>18. \A m \in (n + 1)..L : e[m] = d[m]
  BY <1>15
<1>19. ASSUME NEW m \in 1..L PROVE pNext'[e[m]] = IF m = L THEN NULL ELSE e[m + 1]
  <2>1. CASE m = 1
    <3>1. m # L /\ m + 1 = 2 /\ 2 \in 2..n /\ 2 - 1 = 1
      BY <2>1, <1>2
    <3>2. e[m + 1] = j1
      BY <3>1, <1>17 DEF j1
    <3> QED BY <2>1, <3>1, <3>2, <1>16, <1>13
  <2>2. CASE m = n
    <3>1. n \in 2..n
      BY <1>2
    <3>2. e[m] = jn
      BY <2>2, <3>1, <1>17 DEF jn
    <3>3. n # L => n + 1 \in (n + 1)..L
      BY <1>2
    <3>4. n # L => e[m + 1] = d[n + 1]
      BY <2>2, <3>3, <1>18
    <3> QED BY <2>2, <3>2, <3>4, <1>9, <1>13
  <2>3. CASE m # 1 /\ m < n
    <3>1. m \in 2..n /\ m - 1 \in 1..L /\ m + 1 \in 2..n /\ (m + 1) - 1 = m /\ (m - 1) + 1 = m
      BY <2>3, <1>2
    <3>2. m - 1 # n /\ m - 1 # n - 1 /\ m - 1 # L /\ m # L
      BY <2>3, <1>2
    <3>3. e[m] = d[m - 1] /\ e[m + 1] = d[m]
      BY <3>1, <1>17
    <3>4. d[m - 1] \in Items /\ d[m - 1] # i /\ d[m - 1] # jn
      BY <3>1, <3>2, <1>3, <1>11
    <3>5. pNext[d[m - 1]] = d[m]
      BY <3>1, <3>2, <1>7
    <3> QED BY <3>2, <3>3, <3>4, <3>5, <1>13
  <2>4. CASE n < m
    <3>1. m \in (n + 1)..L /\ (m # L => m + 1 \in (n + 1)..L) /\ m # n /\ m # n - 1
      BY <2>4, <1>2
    <3>2. e[m] = d[m] /\ (m # L => e[m + 1] = d[m + 1])
      BY <3>1, <1>18
    <3>3. d[m] \in Items /\ d[m] # i /\ d[m] # jn
      BY <3>1, <1>3, <1>11
    <3> QED BY <3>2, <3>3, <1>7, <1>13
  <2> QED BY <2>1, <2>2, <2>3, <2>4, <1>2
<1>20. ASSUME NEW m \in 1..L PROVE pPrev'[e[m]] = IF m = 1 THEN NULL ELSE e[m - 1]
  <2>1. CASE m = 1
    BY <2>1, <1>14, <1>16
  <2>2. CASE m = 2
    <3>1. 2 \in 2..n /\ 2 - 1 = 1
      BY <1>2
    <3>2. e[m] = j1 /\ e[m - 1] = i
      BY <2>2, <3>1, <1>16, <1>17 DEF j1
    <3> QED BY <2>2, <3>2, <1>14
  <2>3. CASE m # 1 /\ m # 2 /\ m <= n
    <3>1. m \in 2..n /\ m - 1 \in 2..n /\ m - 1 \in 1..L
      BY <2>3, <1>2
    <3>2. m - 1 # n /\ m - 1 # 1 /\ m - 1 # n + 1
      BY <2>3, <1>2
    <3>3. e[m] = d[m - 1] /\ e[m - 1] = d[(m - 1) - 1]
      BY <3>1, <1>17
    <3>4. d[m - 1] \in Items /\ d[m - 1] # i /\ d[m - 1] # j1 /\ d[m - 1] # after
      BY <3>1, <3>2, <1>3, <1>11
    <3>5. pPrev[d[m - 1]] = d[(m - 1) - 1]
      BY <3>1, <3>2, <1>8
    <3> QED BY <2>3, <3>3, <3>4, <3>5, <1>14
  <2>4. CASE m = n + 1
    <3>1. m \in (n + 1)..L /\ m - 1 = n /\ n \in 2..n /\ n # L /\ m # 1 /\ m # n
      BY <2>4, <1>2
    <3>2. e[m] = d[m] /\ e[m - 1] = jn
      BY <3>1, <1>17, <1>18 DEF jn
    <3>3. d[m] = after /\ d[m] \in Items /\ d[m] # i /\ d[m] # j1
      BY <2>4, <3>1, <1>3, <1>9, <1>11
    <3> QED BY <3>1, <3>2, <3>3, <1>14
  <2>5. CASE n + 1 < m
    <3>1. m \in (n + 1)..L /\ m - 1 \in (n + 1)..L /\ m # 1 /\ m # n /\ m # n + 1
      BY <2>5, <1>2
    <3>2. e[m] = d[m] /\ e[m - 1] = d[m - 1]
      BY <3>1, <1>18
    <3>3. d[m] # after /\ d[m] \in Items /\ d[m] # i /\ d[m] # j1
      BY <3>1, <1>3, <1>11
    <3>4. pPrev[d[m]] = d[m - 1]
      BY <3>1, <1>8
    <3> QED BY <3>1, <3>2, <3>3, <3>4, <1>14
  <2> QED BY <2>1, <2>2, <2>3, <2>4, <2>5, <1>2
<1>21. Linked(s, e)'
  <2>1. ASSUME NEW m \in 1..L PROVE key'[e[m]] \in Keys /\ key'[e[m]] % m_nBuckets' = s
    <3>1. PICK q \in 1..L : e[m] = d[q]
      BY <1>15
    <3> QED BY <3>1, <1>6
  <2>2. m_aT'[s] = IF Len(e) = 0 THEN NULL ELSE e[1]
    BY <1>2, <1>12, <1>15, <1>16
  <2>3. e \in Seq(Items) /\ Len(e) = L /\ \A p, q \in 1..L : e[p] = e[q] => p = q
    BY <1>15
  <2> QED BY <1>19, <1>20, <2>1, <2>2, <2>3 DEF Linked
<1>22. \A j \in Items : key[j] \in Keys /\ key[j] % m_nBuckets # s =>
          key'[j] = key[j] /\ pNext'[j] = pNext[j] /\ pPrev'[j] = pPrev[j]
  <2> SUFFICES ASSUME NEW j \in Items, key[j] % m_nBuckets # s
               PROVE  pNext'[j] = pNext[j] /\ pPrev'[j] = pPrev[j]
    OBVIOUS
  <2>1. \A m \in 1..L : d[m] # j
    BY <1>6
  <2>2. j # i /\ j # j1 /\ j # jn
    BY <2>1, <1>1, <1>2 DEF i, j1, jn
  <2>3. j # after
    <3>1. n # L => n + 1 \in 1..L
      BY <1>2
    <3>2. j # NULL
      BY HashConstants
    <3> QED BY <2>1, <3>1, <3>2, <1>9
  <2> QED BY <2>2, <2>3, <1>13, <1>14
<1>23. \A j \in Items : key'[j] # NULL => \/ key[j] \in Keys /\ key[j] % m_nBuckets # s
                                          \/ \E m \in 1..Len(e) : e[m] = j
  <2> SUFFICES ASSUME NEW j \in Items, key[j] # NULL, key[j] % m_nBuckets = s
               PROVE  \E m \in 1..Len(e) : e[m] = j
    BY DEF LinksTyped
  <2>1. PICK q \in 1..L : d[q] = j
    BY <1>1 DEF Complete
  <2> QED BY <2>1, <1>15
<1> QED BY <1>12, <1>21, <1>22, <1>23 DEF Changes, e

\* The item i in front of d.
WithFirst(d, i) == [m \in 1..(Len(d) + 1) |-> IF m = 1 THEN i ELSE d[m - 1]]

\* A new item becomes the first of its bucket.
LEMMA PutFirstChanges ==
  ASSUME LinksTyped, NEW CONSTANT s \in Buckets, NEW CONSTANT d, Linked(s, d), Complete(s, d),
         NEW CONSTANT i \in Items, key[i] = NULL,
         NEW CONSTANT k \in Keys, k % m_nBuckets = s, NEW CONSTANT x,
         Hash!PutFirst(i, k, x)
  PROVE  Changes(s, WithFirst(d, i))
<1> DEFINE e == WithFirst(d, i)
           L == Len(d)
           first == m_aT[s]
<1>1. d \in Seq(Items) /\ L \in Nat /\ L = Len(d)
  BY LinkedFacts
<1> HIDE DEF L
<1>2. \A m \in 1..L : d[m] \in Items /\ d[m] # NULL
  BY <1>1, LinkedFacts
<1>3. \A p, q \in 1..L : d[p] = d[q] => p = q
  BY <1>1 DEF Linked
<1>4. first = IF L = 0 THEN NULL ELSE d[1]
  BY <1>1 DEF Linked
<1>5. \A m \in 1..L : key[d[m]] \in Keys /\ key[d[m]] % m_nBuckets = s
  BY <1>1 DEF Linked
<1>6. \A m \in 1..L : pNext[d[m]] = IF m = L THEN NULL ELSE d[m + 1]
  BY <1>1 DEF Linked
<1>7. \A m \in 1..L : pPrev[d[m]] = IF m = 1 THEN NULL ELSE d[m - 1]
  BY <1>1 DEF Linked
<1>8. \A m \in 1..L : d[m] # i /\ (d[m] = first => m = 1)
  <2>1. ASSUME NEW m \in 1..L PROVE d[m] # i
    BY <1>5, HashConstants
  <2>2. ASSUME NEW m \in 1..L, d[m] = first PROVE m = 1
    <3>1. L # 0 /\ 1 \in 1..L
      BY <1>1
    <3> QED BY <3>1, <2>2, <1>3, <1>4
  <2> QED BY <2>1, <2>2
<1> HIDE DEF first
<1>9. /\ key' = [key EXCEPT ![i] = k]
      /\ pNext' = [pNext EXCEPT ![i] = first]
      /\ pPrev' = [j \in Items |-> IF j = i THEN NULL ELSE IF j = first THEN i ELSE pPrev[j]]
      /\ m_aT' = [m_aT EXCEPT ![s] = i]
      /\ m_nBuckets' = m_nBuckets
  BY DEF Hash!PutFirst, Hash!Slot, first
<1>10. s \in Hash!Slots /\ m_aT'[s] = i /\ \A r \in Hash!Slots \ {s} : m_aT'[r] = m_aT[r]
  <2>1. s \in Hash!Slots
    BY HashConstants DEF Buckets, LinksTyped, Hash!Slots
  <2> QED BY <2>1, <1>9 DEF LinksTyped
<1>11. key'[i] = k /\ \A j \in Items : j # i => key'[j] = key[j]
  BY <1>9 DEF LinksTyped
<1>12. pNext'[i] = first /\ \A j \in Items : j # i => pNext'[j] = pNext[j]
  BY <1>9 DEF LinksTyped
<1>13. /\ pPrev'[i] = NULL
       /\ \A j \in Items : j # i => pPrev'[j] = IF j = first THEN i ELSE pPrev[j]
  BY <1>9
<1>14. /\ e \in Seq(Items) /\ Len(e) = L + 1
       /\ e[1] = i /\ \A m \in 2..(L + 1) : e[m] = d[m - 1] /\ m - 1 \in 1..L
  <2>1. e = [m \in 1..(L + 1) |-> IF m = 1 THEN i ELSE d[m - 1]]
    BY <1>1 DEF WithFirst
  <2> HIDE DEF e
  <2>2. \A m \in 1..(L + 1) : m = 1 \/ (m \in 2..(L + 1) /\ m - 1 \in 1..L /\ m # 1)
    BY <1>1
  <2>3. \A m \in 1..(L + 1) : e[m] \in Items
    BY <2>1, <2>2, <1>2
  <2>4. 1 \in 1..(L + 1) /\ \A m \in 2..(L + 1) : m \in 1..(L + 1) /\ m # 1 /\ m - 1 \in 1..L
    BY <1>1
  <2> QED BY <1>1, <2>1, <2>3, <2>4
<1> HIDE DEF e
<1>15. ASSUME NEW m \in 1..(L + 1) PROVE pNext'[e[m]] = IF m = L + 1 THEN NULL ELSE e[m + 1]
  <2>1. CASE m = 1
    <3>1. L # 0 => 2 \in 2..(L + 1) /\ 2 - 1 = 1 /\ m # L + 1 /\ m + 1 = 2
      BY <2>1, <1>1
    <3>2. L = 0 => m = L + 1
      BY <2>1
    <3>3. L # 0 => e[m + 1] = d[1]
      BY <3>1, <1>14
    <3> QED BY <2>1, <3>1, <3>2, <3>3, <1>4, <1>12, <1>14
  <2>2. CASE m # 1
    <3>1. m \in 2..(L + 1) /\ m - 1 \in 1..L /\ (m # L + 1 => m + 1 \in 2..(L + 1))
      BY <2>2, <1>1
    <3>2. (m + 1) - 1 = m /\ (m - 1) + 1 = m /\ (m - 1 = L <=> m = L + 1)
      BY <3>1, <1>1
    <3>3. e[m] = d[m - 1] /\ (m # L + 1 => e[m + 1] = d[m])
      BY <3>1, <3>2, <1>14
    <3>4. d[m - 1] \in Items /\ d[m - 1] # i
      BY <3>1, <1>2, <1>8
    <3>5. pNext[d[m - 1]] = IF m = L + 1 THEN NULL ELSE d[m]
      BY <3>1, <3>2, <1>6
    <3> QED BY <3>3, <3>4, <3>5, <1>12
  <2> QED BY <2>1, <2>2
<1>16. ASSUME NEW m \in 1..(L + 1) PROVE pPrev'[e[m]] = IF m = 1 THEN NULL ELSE e[m - 1]
  <2>1. CASE m = 1
    BY <2>1, <1>13, <1>14
  <2>2. CASE m = 2
    <3>1. 2 \in 2..(L + 1) /\ 2 - 1 = 1 /\ L # 0 /\ 1 \in 1..L
      BY <2>2, <1>1
    <3>2. e[m] = d[1] /\ e[m - 1] = i /\ d[1] = first /\ d[1] \in Items /\ d[1] # i
      BY <2>2, <3>1, <1>2, <1>4, <1>8, <1>14
    <3> QED BY <2>2, <3>2, <1>13
  <2>3. CASE m # 1 /\ m # 2
    <3>1. m \in 2..(L + 1) /\ m - 1 \in 2..(L + 1) /\ m - 1 \in 1..L /\ m - 1 # 1
      BY <2>3, <1>1
    <3>2. e[m] = d[m - 1] /\ e[m - 1] = d[(m - 1) - 1]
      BY <3>1, <1>14
    <3>3. d[m - 1] \in Items /\ d[m - 1] # i /\ d[m - 1] # first
      BY <3>1, <1>2, <1>8
    <3>4. pPrev[d[m - 1]] = d[(m - 1) - 1]
      BY <3>1, <1>7
    <3> QED BY <2>3, <3>2, <3>3, <3>4, <1>13
  <2> QED BY <2>1, <2>2, <2>3
<1>17. ASSUME NEW m \in 1..(L + 1) PROVE key'[e[m]] \in Keys /\ key'[e[m]] % m_nBuckets' = s
  <2>1. CASE m = 1
    BY <2>1, <1>9, <1>11, <1>14
  <2>2. CASE m # 1
    <3>1. m \in 2..(L + 1)
      BY <2>2, <1>1
    <3>2. e[m] = d[m - 1] /\ d[m - 1] \in Items /\ d[m - 1] # i /\ m - 1 \in 1..L
      BY <3>1, <1>2, <1>8, <1>14
    <3> QED BY <3>2, <1>5, <1>9, <1>11
  <2> QED BY <2>1, <2>2
<1>18. ASSUME NEW p \in 1..(L + 1), NEW q \in 1..(L + 1), e[p] = e[q] PROVE p = q
  <2>1. \A m \in 1..(L + 1) : m = 1 \/ (m \in 2..(L + 1) /\ m - 1 \in 1..L)
    BY <1>1
  <2>2. \A m \in 2..(L + 1) : e[m] = d[m - 1] /\ e[m] # i
    BY <1>8, <1>14
  <2>3. CASE p = 1 \/ q = 1
    BY <2>1, <2>2, <2>3, <1>14, <1>18
  <2>4. CASE p # 1 /\ q # 1
    <3>1. p - 1 \in 1..L /\ q - 1 \in 1..L /\ d[p - 1] = d[q - 1]
      BY <2>1, <2>2, <2>4, <1>18
    <3>2. p - 1 = q - 1
      BY <3>1, <1>3
    <3> QED BY <3>2
  <2> QED BY <2>3, <2>4
<1>19. Linked(s, e)'
  <2>1. m_aT'[s] = IF Len(e) = 0 THEN NULL ELSE e[1]
    BY <1>1, <1>10, <1>14
  <2> QED BY <1>14, <1>15, <1>16, <1>17, <1>18, <2>1 DEF Linked
<1>20. \A j \in Items : key[j] \in Keys /\ key[j] % m_nBuckets # s =>
          key'[j] = key[j] /\ pNext'[j] = pNext[j] /\ pPrev'[j] = pPrev[j]
  <2> SUFFICES ASSUME NEW j \in Items, key[j] \in Keys, key[j] % m_nBuckets # s
               PROVE  key'[j] = key[j] /\ pNext'[j] = pNext[j] /\ pPrev'[j] = pPrev[j]
    OBVIOUS
  <2>1. j # i
    BY HashConstants
  <2>2. j # first
    <3>1. j # NULL
      BY HashConstants
    <3>2. L # 0 => 1 \in 1..L
      BY <1>1
    <3> QED BY <3>1, <3>2, <1>4, <1>5
  <2> QED BY <2>1, <2>2, <1>11, <1>12, <1>13
<1>21. \A j \in Items : key'[j] # NULL => \/ key[j] \in Keys /\ key[j] % m_nBuckets # s
                                          \/ \E m \in 1..Len(e) : e[m] = j
  <2> SUFFICES ASSUME NEW j \in Items, key'[j] # NULL,
                      ~(key[j] \in Keys /\ key[j] % m_nBuckets # s)
               PROVE  \E m \in 1..Len(e) : e[m] = j
    OBVIOUS
  <2>1. CASE j = i
    <3>1. 1 \in 1..Len(e)
      BY <1>1, <1>14
    <3> QED BY <2>1, <3>1, <1>14
  <2>2. CASE j # i
    <3>1. key[j] # NULL /\ key[j] % m_nBuckets = s
      BY <2>2, <1>11 DEF LinksTyped
    <3>2. PICK q \in 1..L : d[q] = j
      BY <3>1, <1>1 DEF Complete
    <3>3. q + 1 \in 2..(L + 1) /\ q + 1 \in 1..(L + 1) /\ (q + 1) - 1 = q
      BY <1>1
    <3> QED BY <3>2, <3>3, <1>14
  <2> QED BY <2>1, <2>2
<1> QED BY <1>9, <1>10, <1>19, <1>20, <1>21 DEF Changes, e

\* d without its item at n.
Without(d, n) == [m \in 1..(Len(d) - 1) |-> IF m < n THEN d[m] ELSE d[m + 1]]

\* Remove makes the link that leads to the item at n skip it.
LEMMA UnlinkedChanges ==
  ASSUME LinksTyped, NEW CONSTANT s \in Buckets, NEW CONSTANT d, Linked(s, d), Complete(s, d),
         NEW CONSTANT n \in 1..Len(d),
         \A j \in Items : key[j] \in Keys /\ key[j] % m_nBuckets # s => pNext[j] # d[n],
         Hash!Unlinked(d[n]), key' = [key EXCEPT ![d[n]] = NULL], m_nBuckets' = m_nBuckets
  PROVE  Changes(s, Without(d, n))
<1> DEFINE e == Without(d, n)
           L == Len(d)
           i == d[n]
           after == pNext[i]
           before == pPrev[i]
<1>1. d \in Seq(Items) /\ L \in Nat /\ L = Len(d) /\ n \in 1..L
  BY LinkedFacts
<1> HIDE DEF L
<1>2. \A m \in 1..L : d[m] \in Items /\ d[m] # NULL
  BY <1>1, LinkedFacts
<1>3. \A p, q \in 1..L : d[p] = d[q] => p = q
  BY <1>1 DEF Linked
<1>4. m_aT[s] = d[1]
  <2>1. L # 0
    BY <1>1
  <2> QED BY <2>1, <1>1 DEF Linked
<1>5. \A m \in 1..L : key[d[m]] \in Keys /\ key[d[m]] % m_nBuckets = s
  BY <1>1 DEF Linked
<1>6. \A m \in 1..L : pNext[d[m]] = IF m = L THEN NULL ELSE d[m + 1]
  BY <1>1 DEF Linked
<1>7. \A m \in 1..L : pPrev[d[m]] = IF m = 1 THEN NULL ELSE d[m - 1]
  BY <1>1 DEF Linked
<1>8. /\ i \in Items /\ i # NULL /\ Hash!Slot(key[i]) = s
      /\ after = (IF n = L THEN NULL ELSE d[n + 1])
      /\ before = (IF n = 1 THEN NULL ELSE d[n - 1])
      /\ (m_aT[s] = i <=> n = 1)
  <2>1. 1 \in 1..L
    BY <1>1
  <2> QED BY <2>1, <1>1, <1>2, <1>3, <1>4, <1>5, <1>6, <1>7 DEF Hash!Slot
<1>9. \A m \in 1..L : /\ d[m] = i => m = n
                      /\ d[m] = after => n # L /\ m = n + 1
                      /\ pNext[d[m]] = i => m + 1 = n
  <2> SUFFICES ASSUME NEW m \in 1..L
               PROVE  /\ d[m] = i => m = n
                      /\ d[m] = after => n # L /\ m = n + 1
                      /\ pNext[d[m]] = i => m + 1 = n
    OBVIOUS
  <2>1. n # L => n + 1 \in 1..L
    BY <1>1
  <2>2. m # L => m + 1 \in 1..L
    BY <1>1
  <2>3. d[m] = i => m = n
    BY <1>1, <1>3
  <2>4. d[m] = after => n # L /\ m = n + 1
    BY <2>1, <1>2, <1>3, <1>8
  <2>5. pNext[d[m]] = i => m + 1 = n
    BY <2>2, <1>1, <1>3, <1>6, <1>8
  <2> QED BY <2>3, <2>4, <2>5
<1>10. \A j \in Items : key[j] \in Keys /\ key[j] % m_nBuckets # s =>
                           pNext[j] # i /\ j # i /\ j # after
  <2> SUFFICES ASSUME NEW j \in Items, key[j] \in Keys, key[j] % m_nBuckets # s
               PROVE  j # i /\ j # after
    OBVIOUS
  <2>1. j # i
    BY <1>1, <1>5
  <2>2. j # after
    <3>1. n # L => n + 1 \in 1..L
      BY <1>1
    <3>2. j # NULL
      BY HashConstants
    <3> QED BY <3>1, <3>2, <1>5, <1>8
  <2> QED BY <2>1, <2>2
<1> HIDE DEF i, after, before
<1>11. IF n = 1
       THEN m_aT' = [m_aT EXCEPT ![s] = after] /\ pNext' = [pNext EXCEPT ![i] = NULL]
       ELSE /\ pNext' = [j \in Items |-> IF j = i THEN NULL
                                         ELSE IF pNext[j] = i THEN after ELSE pNext[j]]
            /\ m_aT' = m_aT
  BY <1>8 DEF Hash!Unlinked, i, after
<1>12. pPrev' = [j \in Items |-> IF j = i THEN NULL
                                 ELSE IF j = after THEN before ELSE pPrev[j]]
  BY DEF Hash!Unlinked, i, after, before
<1>13. s \in Hash!Slots
  BY HashConstants DEF Buckets, LinksTyped, Hash!Slots
<1>14. /\ m_aT'[s] = IF n = 1 THEN after ELSE d[1]
       /\ \A r \in Hash!Slots \ {s} : m_aT'[r] = m_aT[r]
  BY <1>4, <1>11, <1>13 DEF LinksTyped
<1>15. key'[i] = NULL /\ \A j \in Items : j # i => key'[j] = key[j]
  BY <1>8 DEF LinksTyped, i
<1>16. \A j \in Items : j # i =>
         pNext'[j] = IF n # 1 /\ pNext[j] = i THEN after ELSE pNext[j]
  BY <1>11 DEF LinksTyped
<1>17. \A j \in Items : j # i => pPrev'[j] = IF j = after THEN before ELSE pPrev[j]
  BY <1>12
<1>18. /\ e \in Seq(Items) /\ Len(e) = L - 1
       /\ \A m \in 1..(L - 1) : e[m] = IF m < n THEN d[m] ELSE d[m + 1]
  <2>1. e = [m \in 1..(L - 1) |-> IF m < n THEN d[m] ELSE d[m + 1]]
    BY <1>1 DEF Without
  <2> HIDE DEF e
  <2>2. \A m \in 1..(L - 1) : m \in 1..L /\ m + 1 \in 1..L
    BY <1>1
  <2>3. \A m \in 1..(L - 1) : e[m] \in Items
    BY <2>1, <2>2, <1>2
  <2>4. L - 1 \in Nat
    BY <1>1
  <2> QED BY <2>1, <2>3, <2>4
<1> HIDE DEF e
<1>19. ASSUME NEW m \in 1..(L - 1) PROVE pNext'[e[m]] = IF m = L - 1 THEN NULL ELSE e[m + 1]
  <2>1. CASE m + 1 < n
    <3>1. m \in 1..L /\ m # L /\ m < n /\ m # n /\ m + 1 # n /\ m + 1 \in 1..(L - 1) /\ m # L - 1
      BY <2>1, <1>1
    <3>2. e[m] = d[m] /\ e[m + 1] = d[m + 1]
      BY <2>1, <3>1, <1>18
    <3>3. d[m] \in Items /\ d[m] # i /\ pNext[d[m]] # i /\ pNext[d[m]] = d[m + 1]
      BY <3>1, <1>2, <1>6, <1>9
    <3> QED BY <3>1, <3>2, <3>3, <1>16
  <2>2. CASE m + 1 = n
    <3>1. m \in 1..L /\ m # L /\ m < n /\ m # n /\ n # 1
      BY <2>2, <1>1
    <3>2. m = L - 1 <=> n = L
      BY <2>2, <1>1
    <3>3. m # L - 1 => m + 1 \in 1..(L - 1) /\ ~(m + 1 < n) /\ (m + 1) + 1 = n + 1
      BY <2>2, <1>1
    <3>4. e[m] = d[m] /\ (m # L - 1 => e[m + 1] = d[n + 1])
      BY <3>1, <3>3, <1>18
    <3>5. d[m] \in Items /\ d[m] # i /\ pNext[d[m]] = i
      BY <2>2, <3>1, <1>2, <1>6, <1>9 DEF i
    <3> QED BY <3>1, <3>2, <3>4, <3>5, <1>8, <1>16
  <2>3. CASE n < m + 1
    <3>1. m + 1 \in 1..L /\ ~(m < n) /\ m + 1 # n /\ (m + 1) + 1 # n /\ (m + 1 = L <=> m = L - 1)
      BY <2>3, <1>1
    <3>2. m # L - 1 => m + 1 \in 1..(L - 1) /\ ~(m + 1 < n)
      BY <2>3, <1>1
    <3>3. e[m] = d[m + 1] /\ (m # L - 1 => e[m + 1] = d[(m + 1) + 1])
      BY <3>1, <3>2, <1>18
    <3>4. /\ d[m + 1] \in Items /\ d[m + 1] # i /\ pNext[d[m + 1]] # i
          /\ pNext[d[m + 1]] = IF m + 1 = L THEN NULL ELSE d[(m + 1) + 1]
      BY <3>1, <1>2, <1>6, <1>9
    <3> QED BY <3>1, <3>3, <3>4, <1>16
  <2> QED BY <2>1, <2>2, <2>3, <1>1
<1>20. ASSUME NEW m \in 1..(L - 1) PROVE pPrev'[e[m]] = IF m = 1 THEN NULL ELSE e[m - 1]
  <2>1. CASE m < n
    <3>1. m \in 1..L /\ m # n /\ m # n + 1 /\ (m # 1 => m - 1 \in 1..(L - 1) /\ m - 1 < n)
      BY <2>1, <1>1
    <3>2. e[m] = d[m] /\ (m # 1 => e[m - 1] = d[m - 1])
      BY <2>1, <3>1, <1>18
    <3>3. d[m] \in Items /\ d[m] # i /\ d[m] # after
      BY <3>1, <1>2, <1>9
    <3>4. pPrev[d[m]] = IF m = 1 THEN NULL ELSE d[m - 1]
      BY <3>1, <1>7
    <3> QED BY <3>2, <3>3, <3>4, <1>17
  <2>2. CASE m = n
    <3>1. m + 1 \in 1..L /\ m + 1 # n /\ n # L /\ (m # 1 => m - 1 \in 1..(L - 1) /\ m - 1 < n) /\ ~(m < n)
      BY <2>2, <1>1
    <3>2. e[m] = d[n + 1] /\ (m # 1 => e[m - 1] = d[n - 1])
      BY <2>2, <3>1, <1>18
    <3>3. d[n + 1] \in Items /\ d[n + 1] # i /\ d[n + 1] = after
      BY <2>2, <3>1, <1>2, <1>8, <1>9
    <3> QED BY <2>2, <3>2, <3>3, <1>8, <1>17
  <2>3. CASE n < m
    <3>1. m + 1 \in 1..L /\ m + 1 # n /\ m + 1 # n + 1 /\ m # 1 /\ m - 1 \in 1..(L - 1)
      BY <2>3, <1>1
    <3>2. ~(m < n) /\ ~(m - 1 < n) /\ (m - 1) + 1 = m /\ (m + 1) - 1 = m /\ m + 1 # 1
      BY <2>3, <1>1
    <3>3. e[m] = d[m + 1] /\ e[m - 1] = d[m]
      BY <3>1, <3>2, <1>18
    <3>4. d[m + 1] \in Items /\ d[m + 1] # i /\ d[m + 1] # after /\ pPrev[d[m + 1]] = d[m]
      BY <3>1, <3>2, <1>2, <1>7, <1>9
    <3> QED BY <3>1, <3>3, <3>4, <1>17
  <2> QED BY <2>1, <2>2, <2>3, <1>1
<1>21. ASSUME NEW m \in 1..(L - 1)
       PROVE  \E q \in 1..L : e[m] = d[q] /\ q # n /\ q = (IF m < n THEN m ELSE m + 1)
  <2>1. CASE m < n
    <3>1. m \in 1..L /\ m # n
      BY <2>1, <1>1
    <3> QED BY <2>1, <3>1, <1>18
  <2>2. CASE ~(m < n)
    <3>1. m + 1 \in 1..L /\ m + 1 # n
      BY <2>2, <1>1
    <3> QED BY <2>2, <3>1, <1>18
  <2> QED BY <2>1, <2>2
<1>22. ASSUME NEW m \in 1..(L - 1) PROVE key'[e[m]] \in Keys /\ key'[e[m]] % m_nBuckets' = s
  <2>1. PICK q \in 1..L : e[m] = d[q] /\ q # n
    BY <1>21
  <2> QED BY <2>1, <1>2, <1>5, <1>9, <1>15
<1>23. ASSUME NEW p \in 1..(L - 1), NEW q \in 1..(L - 1), e[p] = e[q] PROVE p = q
  <2>1. PICK u \in 1..L : e[p] = d[u] /\ u = (IF p < n THEN p ELSE p + 1)
    BY <1>21
  <2>2. PICK v \in 1..L : e[q] = d[v] /\ v = (IF q < n THEN q ELSE q + 1)
    BY <1>21
  <2>3. u = v
    BY <2>1, <2>2, <1>3, <1>23
  <2> QED BY <2>1, <2>2, <2>3, <1>1
<1>24. Linked(s, e)'
  <2>1. m_aT'[s] = IF Len(e) = 0 THEN NULL ELSE e[1]
    <3>1. CASE n = 1
      <4>1. Len(e) = 0 <=> n = L
        BY <3>1, <1>1, <1>18
      <4>2. n # L => 1 \in 1..(L - 1) /\ ~(1 < n)
        BY <3>1, <1>1
      <4>3. n # L => e[1] = d[n + 1]
        BY <3>1, <4>2, <1>18
      <4> QED BY <3>1, <4>1, <4>3, <1>8, <1>14
    <3>2. CASE n # 1
      <4>1. Len(e) # 0 /\ 1 \in 1..(L - 1) /\ 1 < n
        BY <3>2, <1>1, <1>18
      <4> QED BY <3>2, <4>1, <1>14, <1>18
    <3> QED BY <3>1, <3>2
  <2>2. \A m \in 1..(L - 1) : pNext'[e[m]] = IF m = Len(e) THEN NULL ELSE e[m + 1]
    BY <1>18, <1>19
  <2> QED BY <1>18, <1>20, <1>22, <1>23, <2>1, <2>2 DEF Linked
<1>25. \A j \in Items : key'[j] # NULL => \/ key[j] \in Keys /\ key[j] % m_nBuckets # s
                                          \/ \E m \in 1..Len(e) : e[m] = j
  <2> SUFFICES ASSUME NEW j \in Items, key'[j] # NULL,
                      ~(key[j] \in Keys /\ key[j] % m_nBuckets # s)
               PROVE  \E m \in 1..Len(e) : e[m] = j
    OBVIOUS
  <2>1. j # i /\ key[j] # NULL /\ key[j] % m_nBuckets = s
    BY <1>15 DEF LinksTyped
  <2>2. PICK q \in 1..L : d[q] = j
    BY <2>1, <1>1 DEF Complete
  <2>3. q # n
    BY <2>1, <2>2 DEF i
  <2>4. CASE q < n
    <3>1. q \in 1..(L - 1)
      BY <2>4, <1>1
    <3> QED BY <2>2, <2>4, <3>1, <1>18
  <2>5. CASE q > n
    <3>1. q - 1 \in 1..(L - 1) /\ ~(q - 1 < n) /\ (q - 1) + 1 = q
      BY <2>5, <1>1
    <3> QED BY <2>2, <3>1, <1>18
  <2> QED BY <2>3, <2>4, <2>5, <1>1
<1>26. \A j \in Items : key[j] \in Keys /\ key[j] % m_nBuckets # s =>
          key'[j] = key[j] /\ pNext'[j] = pNext[j] /\ pPrev'[j] = pPrev[j]
  BY <1>10, <1>15, <1>16, <1>17
<1> QED BY <1>14, <1>24, <1>25, <1>26 DEF Changes, e

\* c gives the items of each bucket, and together they are all items with a text.
ChainsAre(c) ==
  /\ c \in [Buckets -> Seq(Items)]
  /\ \A s \in Buckets : Linked(s, c[s])
  /\ \A i \in Items : key[i] # NULL => \E s \in Buckets : \E n \in 1..Len(c[s]) : c[s][n] = i

\* A bucket holds all items whose text belongs to it, and no link of another one leads to them.
LEMMA ChainIsOwn ==
  ASSUME LinksTyped, NEW c, ChainsAre(c), NEW s \in Buckets
  PROVE  /\ Linked(s, c[s]) /\ Complete(s, c[s])
         /\ \A n \in 1..Len(c[s]), j \in Items :
              key[j] \in Keys /\ key[j] % m_nBuckets # s => pNext[j] # c[s][n]
<1>1. Linked(s, c[s])
  BY DEF ChainsAre
<1>2. ASSUME NEW j \in Items, key[j] # NULL
      PROVE  \E r \in Buckets : \E n \in 1..Len(c[r]) :
               c[r][n] = j /\ key[j] % m_nBuckets = r /\ Linked(r, c[r])
  <2>1. PICK r \in Buckets : \E n \in 1..Len(c[r]) : c[r][n] = j
    BY <1>2 DEF ChainsAre
  <2>2. Linked(r, c[r])
    BY DEF ChainsAre
  <2> QED BY <2>1, <2>2 DEF Linked
<1>3. Complete(s, c[s])
  BY <1>2 DEF Complete
<1>4. ASSUME NEW n \in 1..Len(c[s]), NEW j \in Items,
             key[j] \in Keys, key[j] % m_nBuckets # s, pNext[j] = c[s][n]
      PROVE  FALSE
  <2>0. \A m \in 1..Len(c[s]) : c[s][m] # NULL
    <3> DEFINE d == c[s]
    <3>1. Linked(s, d)
      BY <1>1
    <3> HIDE DEF d
    <3>2. \A m \in 1..Len(d) : d[m] # NULL
      BY ONLY <3>1, LinkedFacts
    <3> QED BY <3>2 DEF d
  <2>1. key[c[s][n]] % m_nBuckets = s /\ c[s][n] # NULL
    BY <1>1, <2>0 DEF Linked
  <2>2. key[j] # NULL
    BY <1>4, HashConstants
  <2>3. PICK r \in Buckets : \E q \in 1..Len(c[r]) :
               c[r][q] = j /\ key[j] % m_nBuckets = r /\ Linked(r, c[r])
    BY <1>2, <2>2
  <2>4. PICK q \in 1..Len(c[r]) : c[r][q] = j
    BY <2>3
  <2>5. r # s /\ Linked(r, c[r])
    BY <1>4, <2>3
  <2>6. c[r] \in Seq(Items) /\ Len(c[r]) \in Nat
    BY <2>5, LinkedFacts
  <2>7. q # Len(c[r]) => q + 1 \in 1..Len(c[r])
    BY <2>6
  <2>8. pNext[j] = IF q = Len(c[r]) THEN NULL ELSE c[r][q + 1]
    BY <2>4, <2>5 DEF Linked
  <2>9. q # Len(c[r]) => key[c[r][q + 1]] % m_nBuckets = r
    BY <2>5, <2>7 DEF Linked
  <2> QED BY <1>4, <2>1, <2>5, <2>8, <2>9
<1> QED BY <1>1, <1>3, <1>4

\* A step that changes one bucket leaves the others with their items.
LEMMA ChainsChange ==
  ASSUME LinksTyped, NEW CONSTANT c, ChainsAre(c),
         NEW CONSTANT s \in Buckets, NEW CONSTANT e, Changes(s, e)
  PROVE  ChainsAre([c EXCEPT ![s] = e])'
<1> DEFINE d == [c EXCEPT ![s] = e]
<1>1. Buckets' = Buckets /\ m_nBuckets' = m_nBuckets
  BY DEF Changes, Buckets
<1>2. c \in [Buckets -> Seq(Items)] /\ e \in Seq(Items) /\ Linked(s, e)'
  BY DEF ChainsAre, Changes, Linked
<1>3. d \in [Buckets -> Seq(Items)] /\ d[s] = e /\ \A r \in Buckets \ {s} : d[r] = c[r]
  BY <1>2
<1>4. ASSUME NEW CONSTANT r \in Buckets \ {s} PROVE Linked(r, c[r])'
  <2>1. Linked(r, c[r])
    BY DEF ChainsAre
  <2>2. m_aT'[r] = m_aT[r]
    <3>1. r \in Hash!Slots \ {s}
      BY HashConstants DEF Buckets, LinksTyped, Hash!Slots
    <3> QED BY <3>1 DEF Changes
  <2>3. ASSUME NEW n \in 1..Len(c[r])
        PROVE  /\ key'[c[r][n]] = key[c[r][n]]
               /\ pNext'[c[r][n]] = pNext[c[r][n]] /\ pPrev'[c[r][n]] = pPrev[c[r][n]]
    <3>1. c[r][n] \in Items /\ key[c[r][n]] \in Keys /\ key[c[r][n]] % m_nBuckets = r
      BY <2>1, LinkedFacts DEF Linked
    <3> QED BY <3>1 DEF Changes
  <2> QED BY <1>1, <2>1, <2>2, <2>3 DEF Linked
<1> HIDE DEF d
<1>5. ASSUME NEW CONSTANT r \in Buckets PROVE Linked(r, d[r])'
  BY <1>2, <1>3, <1>4
<1>6. ASSUME NEW i \in Items, key'[i] # NULL
      PROVE  \E r \in Buckets : \E n \in 1..Len(d[r]) : d[r][n] = i
  <2>1. CASE \E n \in 1..Len(e) : e[n] = i
    <3>1. s \in Buckets /\ d[s] = e
      BY <1>3
    <3> QED BY ONLY <2>1, <3>1
  <2>2. CASE key[i] \in Keys /\ key[i] % m_nBuckets # s
    <3>1. key[i] # NULL
      BY <2>2, HashConstants
    <3>2. PICK r \in Buckets : \E n \in 1..Len(c[r]) : c[r][n] = i
      BY <3>1 DEF ChainsAre
    <3>3. r # s
      BY <2>2, <3>2 DEF ChainsAre, Linked
    <3> QED BY <3>2, <3>3, <1>3
  <2> QED BY <1>6, <2>1, <2>2 DEF Changes
<1>7. ChainsAre(d)'
  BY <1>1, <1>3, <1>5, <1>6 DEF ChainsAre
<1> QED BY <1>7 DEF d

\* The links are those of chains with all items that have a text; a bucket out of use is empty.
LinksInv ==
  /\ LinksTyped
  /\ \A s \in Hash!Slots \ Buckets : m_aT[s] = NULL
  /\ \E c : ChainsAre(c)

\* An item has a text just when it has a pointer, and no other item has that text.
KeysInv ==
  /\ data \in [Items -> Data \cup {NULL}]
  /\ \A i \in Items : data[i] = NULL <=> key[i] = NULL
  /\ \A i, j \in Items : key[i] = key[j] /\ key[i] # NULL => i = j

\* m_nCount is the number of items with a text.
CountInv == m_nCount = Cardinality(Hash!Allocated)

HashInv == LinksInv /\ KeysInv /\ CountInv

\* A step that changes one bucket leaves chains.
LEMMA LinksInvChanges ==
  ASSUME LinksInv, NEW CONSTANT c, ChainsAre(c),
         NEW CONSTANT s \in Buckets, NEW CONSTANT e, Changes(s, e), LinksTyped'
  PROVE  LinksInv'
<1>1. LinksTyped
  BY DEF LinksInv
<1>2. ChainsAre([c EXCEPT ![s] = e])'
  BY <1>1, ChainsChange
<1>3. (\E d : ChainsAre(d))'
  BY <1>2
<1>4. \A r \in Hash!Slots \ Buckets : m_aT'[r] = NULL
  BY DEF LinksInv, Changes
<1>5. Buckets' = Buckets
  BY DEF Changes, Buckets
<1> QED BY <1>3, <1>4, <1>5 DEF LinksInv, Hash!Slots

\* The bucket that an item with a text is in.
LEMMA ItsBucket ==
  ASSUME LinksInv, NEW CONSTANT c, ChainsAre(c), NEW i \in Items, key[i] # NULL
  PROVE  /\ Hash!Slot(key[i]) \in Buckets
         /\ \E n \in 1..Len(c[Hash!Slot(key[i])]) : c[Hash!Slot(key[i])][n] = i
<1>1. PICK s \in Buckets : \E n \in 1..Len(c[s]) : c[s][n] = i
  BY DEF ChainsAre
<1>2. key[i] % m_nBuckets = s
  BY <1>1 DEF ChainsAre, Linked
<1> QED BY <1>1, <1>2 DEF Hash!Slot

\* No link changes.
LEMMA ChainsStay ==
  ASSUME NEW CONSTANT c, ChainsAre(c), UNCHANGED <<m_nBuckets, m_aT, key, pNext, pPrev>>
  PROVE  ChainsAre(c)'
<1>1. Buckets' = Buckets
  BY DEF Buckets
<1>2. ASSUME NEW CONSTANT s \in Buckets PROVE Linked(s, c[s])'
  BY DEF ChainsAre, Linked
<1> QED BY <1>1, <1>2 DEF ChainsAre

\* Links that do not change are still those of chains.
LEMMA LinksStay ==
  ASSUME LinksInv, UNCHANGED <<m_nBuckets, m_aT, key, pNext, pPrev>>
  PROVE  LinksInv'
<1>1. PICK c : ChainsAre(c)
  BY DEF LinksInv
<1>2. Buckets' = Buckets /\ Links' = Links /\ (Hash!Slots)' = Hash!Slots
  BY DEF Buckets, Links, Hash!Slots
<1>3. (\E d : ChainsAre(d))'
  BY <1>1, ChainsStay
<1>4. LinksTyped'
  BY <1>2 DEF LinksInv, LinksTyped
<1> QED BY <1>2, <1>3, <1>4 DEF LinksInv

\* An item that is moved to the front of its bucket.
LEMMA ToFrontLinks ==
  ASSUME LinksInv, NEW CONSTANT i \in Items, key[i] # NULL, Hash!ToFront(i),
         key' = key, m_nBuckets' = m_nBuckets
  PROVE  LinksInv'
<1> DEFINE s == Hash!Slot(key[i])
<1>1. PICK c : ChainsAre(c)
  BY DEF LinksInv
<1>2. PICK r \in Buckets : r = s
  BY <1>1, ItsBucket
<1>3. PICK n \in 1..Len(c[r]) : c[r][n] = i
  BY <1>1, <1>2, ItsBucket
<1>4. LinksTyped /\ Linked(r, c[r]) /\ Complete(r, c[r])
  BY <1>1, ChainIsOwn DEF LinksInv
<1>5. CASE n = 1
  <2>1. m_aT[r] = i
    BY <1>3, <1>4, <1>5 DEF Linked
  <2>2. UNCHANGED <<m_aT, pNext, pPrev>>
    BY <1>2, <2>1 DEF Hash!ToFront
  <2> QED BY <2>2, LinksStay
<1>6. CASE n # 1
  <2> DEFINE d == c[r]
  <2>1. Changes(r, Fronted(d, n))
    <3>1. Linked(r, d) /\ Complete(r, d) /\ n \in 1..Len(d) /\ Hash!ToFront(d[n])
      BY <1>3, <1>4
    <3> HIDE DEF d
    <3> QED BY <1>4, <1>6, <3>1, ToFrontChanges
  <2>2. LinksTyped'
    <3>1. m_aT[r] \in Links /\ r \in Hash!Slots
      BY <1>4, HashConstants DEF LinksTyped, Buckets, Hash!Slots
    <3>2. pNext[i] \in Links /\ pPrev[i] \in Links /\ i \in Links
      BY <1>4 DEF LinksTyped, Links
    <3>3. pNext' \in [Items -> Links]
      <4>1. pNext' = pNext \/ pNext' = [pNext EXCEPT ![pPrev[i]] = pNext[i], ![i] = m_aT[s]]
        BY DEF Hash!ToFront
      <4> QED BY <4>1, <3>1, <3>2, <1>2, <1>4 DEF LinksTyped
    <3>4. pPrev' \in [Items -> Links]
      <4>1. \/ pPrev' = pPrev
            \/ pPrev' = [j \in Items |-> IF j = i THEN NULL
                                         ELSE IF j = m_aT[s] THEN i
                                         ELSE IF j = pNext[i] THEN pPrev[i] ELSE pPrev[j]]
        BY DEF Hash!ToFront
      <4> QED BY <4>1, <3>2, <1>4 DEF LinksTyped, Links
    <3>5. m_aT' \in [Hash!Slots -> Links]
      <4>1. m_aT' = m_aT \/ m_aT' = [m_aT EXCEPT ![s] = i]
        BY DEF Hash!ToFront
      <4> QED BY <4>1, <3>2, <1>4 DEF LinksTyped
    <3>6. Links' = Links /\ (Hash!Slots)' = Hash!Slots
      BY DEF Links, Hash!Slots
    <3> QED BY <3>3, <3>4, <3>5, <3>6, <1>4 DEF LinksTyped
  <2> HIDE DEF d
  <2> QED BY <1>1, <2>1, <2>2, LinksInvChanges
<1> QED BY <1>5, <1>6

\* The bucket of a key, if there are buckets.
LEMMA SlotIsBucket ==
  ASSUME LinksTyped, m_nBuckets # 0, NEW k \in Keys
  PROVE  Hash!Slot(k) \in Buckets
<1>1. m_nBuckets \in Nat \ {0} /\ k \in Nat
  BY HashConstants DEF LinksTyped
<1> QED BY <1>1 DEF Hash!Slot, Buckets

\* An item that is put into the bucket of a key.
LEMMA PutFirstLinks ==
  ASSUME LinksInv, m_nBuckets # 0, NEW CONSTANT i \in Items, key[i] = NULL,
         NEW CONSTANT k \in Keys, NEW CONSTANT x, Hash!PutFirst(i, k, x)
  PROVE  LinksInv'
<1> DEFINE s == Hash!Slot(k)
<1>1. PICK c : ChainsAre(c)
  BY DEF LinksInv
<1>2. PICK r \in Buckets : r = s
  BY SlotIsBucket DEF LinksInv
<1>3. LinksTyped /\ Linked(r, c[r]) /\ Complete(r, c[r])
  BY <1>1, ChainIsOwn DEF LinksInv
<1> DEFINE d == c[r]
<1>4. Changes(r, WithFirst(d, i))
  <2>1. Linked(r, d) /\ Complete(r, d) /\ k % m_nBuckets = r
    BY <1>2, <1>3 DEF Hash!Slot
  <2> HIDE DEF d
  <2> QED BY <1>3, <2>1, PutFirstChanges
<1> HIDE DEF d
<1>5. LinksTyped'
  <2>1. m_aT[s] \in Links /\ s \in Hash!Slots
    BY <1>2, <1>3, HashConstants DEF LinksTyped, Buckets, Hash!Slots
  <2>2. Links' = Links /\ (Hash!Slots)' = Hash!Slots
    BY DEF Links, Hash!Slots
  <2>3. key' = [key EXCEPT ![i] = k] /\ m_nBuckets' = m_nBuckets
    BY DEF Hash!PutFirst
  <2>4. pNext' = [pNext EXCEPT ![i] = m_aT[s]] /\ m_aT' = [m_aT EXCEPT ![s] = i]
    BY DEF Hash!PutFirst
  <2>5. pPrev' = [j \in Items |-> IF j = i THEN NULL ELSE IF j = m_aT[s] THEN i ELSE pPrev[j]]
    BY DEF Hash!PutFirst
  <2>6. pPrev' \in [Items -> Links]
    BY <2>5, <1>3 DEF LinksTyped, Links
  <2>7. pNext' \in [Items -> Links] /\ m_aT' \in [Hash!Slots -> Links]
    BY <2>1, <2>4, <1>3 DEF LinksTyped, Links
  <2>8. key' \in [Items -> Keys \cup {NULL}]
    BY <2>3, <1>3 DEF LinksTyped
  <2> QED BY <2>2, <2>3, <2>6, <2>7, <2>8, <1>3 DEF LinksTyped
<1> QED BY <1>1, <1>4, <1>5, LinksInvChanges

\* An item that is taken out of its bucket.
LEMMA UnlinkedLinks ==
  ASSUME LinksInv, NEW CONSTANT i \in Items, key[i] # NULL, Hash!Unlinked(i),
         key' = [key EXCEPT ![i] = NULL], m_nBuckets' = m_nBuckets
  PROVE  LinksInv'
<1> DEFINE s == Hash!Slot(key[i])
<1>1. PICK c : ChainsAre(c)
  BY DEF LinksInv
<1>2. PICK r \in Buckets : r = s
  BY <1>1, ItsBucket
<1>3. PICK n \in 1..Len(c[r]) : c[r][n] = i
  BY <1>1, <1>2, ItsBucket
<1>4. LinksTyped /\ Linked(r, c[r]) /\ Complete(r, c[r])
  BY <1>1, ChainIsOwn DEF LinksInv
<1>5. \A j \in Items : key[j] \in Keys /\ key[j] % m_nBuckets # r => pNext[j] # c[r][n]
  BY <1>1, <1>4, ChainIsOwn
<1> DEFINE d == c[r]
<1>6. Changes(r, Without(d, n))
  <2>1. /\ Linked(r, d) /\ Complete(r, d) /\ n \in 1..Len(d)
        /\ Hash!Unlinked(d[n]) /\ key' = [key EXCEPT ![d[n]] = NULL]
        /\ \A j \in Items : key[j] \in Keys /\ key[j] % m_nBuckets # r => pNext[j] # d[n]
    BY <1>3, <1>4, <1>5
  <2> HIDE DEF d
  <2> QED BY <1>4, <2>1, UnlinkedChanges
<1> HIDE DEF d
<1>7. LinksTyped'
  <2>1. Links' = Links /\ (Hash!Slots)' = Hash!Slots
    BY DEF Links, Hash!Slots
  <2>2. NULL \in Links /\ pNext[i] \in Links /\ pPrev[i] \in Links
    BY <1>4 DEF Links, LinksTyped
  <2>3. pNext' \in [Items -> Links]
    <3>1. \/ pNext' = [pNext EXCEPT ![i] = NULL]
          \/ pNext' = [j \in Items |-> IF j = i THEN NULL
                                       ELSE IF pNext[j] = i THEN pNext[i] ELSE pNext[j]]
      BY DEF Hash!Unlinked
    <3> QED BY <3>1, <2>2, <1>4 DEF LinksTyped
  <2>4. pPrev' \in [Items -> Links]
    <3>1. pPrev' = [j \in Items |-> IF j = i THEN NULL
                                    ELSE IF j = pNext[i] THEN pPrev[i] ELSE pPrev[j]]
      BY DEF Hash!Unlinked
    <3> QED BY <3>1, <2>2, <1>4 DEF LinksTyped
  <2>5. m_aT' \in [Hash!Slots -> Links]
    <3>1. m_aT' = m_aT \/ m_aT' = [m_aT EXCEPT ![s] = pNext[i]]
      BY DEF Hash!Unlinked
    <3> QED BY <3>1, <2>2, <1>4 DEF LinksTyped
  <2>6. key' \in [Items -> Keys \cup {NULL}]
    BY <1>4 DEF LinksTyped
  <2> QED BY <2>1, <2>3, <2>4, <2>5, <2>6, <1>4 DEF LinksTyped
<1> QED BY <1>1, <1>6, <1>7, LinksInvChanges

\* The table holds nothing.
Emptied ==
  /\ m_nBuckets \in 0..MaxBuckets
  /\ m_aT = [s \in Hash!Slots |-> NULL]
  /\ key = [i \in Items |-> NULL] /\ data = [i \in Items |-> NULL]
  /\ pNext = [i \in Items |-> NULL] /\ pPrev = [i \in Items |-> NULL]
  /\ m_nCount = 0

\* A table without items has chains without items.
LEMMA EmptyLinks == Emptied => LinksInv
<1> SUFFICES ASSUME Emptied PROVE LinksInv
  OBVIOUS
<1> DEFINE none == <<>>
           c == [s \in Buckets |-> none]
<1>1. none \in Seq(Items) /\ Len(none) = 0
  BY EmptySeq
<1> HIDE DEF none
<1> USE DEF Emptied
<1>2. ASSUME NEW s \in Buckets PROVE Linked(s, c[s])
  <2>1. m_aT[s] = NULL
    BY HashConstants DEF Buckets, Hash!Slots
  <2>2. c[s] = none /\ \A n \in 1..Len(none) : FALSE
    BY <1>1
  <2> QED BY <1>1, <2>1, <2>2 DEF Linked
<1>3. c \in [Buckets -> Seq(Items)]
  BY <1>1
<1>4. \A i \in Items : key[i] = NULL
  OBVIOUS
<1> HIDE DEF c
<1>5. ChainsAre(c)
  BY <1>2, <1>3, <1>4 DEF ChainsAre
<1>6. LinksTyped
  BY DEF LinksTyped, Links
<1> QED BY <1>5, <1>6 DEF LinksInv

\* i is the item of the text k, or NULL where no item has it.
Finds(k, i) ==
  \/ i \in Items /\ key[i] = k
  \/ i = NULL /\ \A j \in Items : key[j] # k

\* The items with a text are finitely many.
LEMMA AllocatedFinite ==
  /\ Hash!Allocated \subseteq Items /\ IsFiniteSet(Hash!Allocated)
  /\ Cardinality(Hash!Allocated) \in 0..Cardinality(Items)
<1>1. IsFiniteSet(Items) /\ Cardinality(Items) \in Nat
  BY HashConstants
<1>2. Hash!Allocated \subseteq Items
  BY DEF Hash!Allocated
<1>3. IsFiniteSet(Hash!Allocated) /\ Cardinality(Hash!Allocated) <= Cardinality(Items)
  BY <1>1, <1>2, FS_Subset
<1>4. Cardinality(Hash!Allocated) \in Nat
  BY <1>3, FS_CardinalityType
<1> QED BY <1>1, <1>2, <1>3, <1>4

\* A search finds the item of its text wherever it is.
LEMMA LookupFinds == HashInv => \A k \in Keys : Finds(k, Hash!Lookup(k))
<1> SUFFICES ASSUME HashInv, NEW k \in Keys PROVE Finds(k, Hash!Lookup(k))
  OBVIOUS
<1>1. PICK c : ChainsAre(c)
  BY DEF HashInv, LinksInv
<1>2. LinksTyped /\ pNext \in [Items -> Links] /\ k # NULL
  BY HashConstants DEF HashInv, LinksInv, LinksTyped
<1>3. CASE m_nBuckets = 0 \/ m_nCount = 0
  <2>1. Hash!Lookup(k) = NULL
    BY <1>3 DEF Hash!Lookup
  <2>2. ASSUME NEW j \in Items, key[j] = k PROVE FALSE
    <3>1. CASE m_nBuckets = 0
      <4>1. Buckets = {}
        BY <3>1 DEF Buckets
      <4> QED BY <4>1, <2>2, <1>1, <1>2 DEF ChainsAre
    <3>2. CASE m_nCount = 0
      <4>1. Hash!Allocated = {}
        BY <3>2, AllocatedFinite, FS_EmptySet DEF HashInv, CountInv
      <4> QED BY <4>1, <2>2, <1>2 DEF Hash!Allocated
    <3> QED BY <3>1, <3>2, <1>3
  <2> QED BY <2>1, <2>2 DEF Finds
<1>4. CASE m_nBuckets # 0 /\ m_nCount # 0
  <2> DEFINE s == Hash!Slot(k)
             d == c[s]
             i == Hash!Lookup(k)
  <2>1. s \in Buckets
    BY <1>2, <1>4, SlotIsBucket
  <2>2. Linked(s, d) /\ Complete(s, d)
    <3> HIDE DEF s
    <3> QED BY <1>1, <1>2, <2>1, ChainIsOwn
  <2>3. IsFound(i, k, d, 1)
    <3> HIDE DEF d
    <3>1. Linked(Hash!Slot(k), d)
      BY <2>2
    <3> QED BY ONLY <3>1, <1>2, <1>4, LookupIs DEF i
  <2> HIDE DEF i
  <2>4. ASSUME i = NULL, \A q \in 1..Len(d) : key[d[q]] # k, NEW j \in Items, key[j] = k
        PROVE  FALSE
    <3>1. key[j] # NULL /\ key[j] % m_nBuckets = s
      BY <2>4, <1>2 DEF Hash!Slot
    <3>2. \E q \in 1..Len(d) : d[q] = j
      BY <3>1, <2>2 DEF Complete
    <3> QED BY <2>4, <3>2
  <2>5. \A q \in 1..Len(d) : d[q] \in Items
    BY <2>2, ElementOfSeq DEF Linked
  <2>6. Finds(k, i)
    BY <2>3, <2>4, <2>5 DEF IsFound, Finds
  <2> QED BY <2>6 DEF i
<1> QED BY <1>3, <1>4

\* There is one item of a text.
LEMMA FindsOne ==
  ASSUME KeysInv, NEW k \in Keys, NEW i, Finds(k, i), NEW j, Finds(k, j)
  PROVE  i = j
BY HashConstants DEF KeysInv, Finds

\* A new item.
LEMMA PutFirstKeeps ==
  ASSUME HashInv, m_nBuckets # 0, NEW CONSTANT k \in Keys, Finds(k, NULL),
         NEW CONSTANT x \in Data, NEW CONSTANT i \in Items \ Hash!Allocated, Hash!PutFirst(i, k, x)
  PROVE  HashInv'
<1>1. key[i] = NULL /\ i \in Items /\ k # NULL /\ x # NULL /\ \A j \in Items : key[j] # k
  BY HashConstants DEF Hash!Allocated, Finds
<1>2. LinksInv'
  BY <1>1, PutFirstLinks DEF HashInv
<1>3. /\ key' = [key EXCEPT ![i] = k] /\ data' = [data EXCEPT ![i] = x]
      /\ m_nCount' = m_nCount + 1
  BY DEF Hash!PutFirst
<1>4. key \in [Items -> Keys \cup {NULL}] /\ data \in [Items -> Data \cup {NULL}]
  BY DEF HashInv, LinksInv, LinksTyped, KeysInv
<1>5. KeysInv'
  BY <1>1, <1>3, <1>4 DEF HashInv, KeysInv
<1>6. (Hash!Allocated)' = Hash!Allocated \cup {i} /\ i \notin Hash!Allocated
  BY <1>1, <1>3, <1>4 DEF Hash!Allocated
<1>7. Cardinality((Hash!Allocated)') = Cardinality(Hash!Allocated) + 1
  BY <1>6, AllocatedFinite, FS_AddElement
<1>8. CountInv'
  BY <1>3, <1>7 DEF HashInv, CountInv
<1> QED BY <1>2, <1>5, <1>8 DEF HashInv

\* An item that goes.
LEMMA RemoveKeeps ==
  ASSUME HashInv, NEW CONSTANT i \in Items, key[i] # NULL, Hash!Unlinked(i),
         key' = [key EXCEPT ![i] = NULL], data' = [data EXCEPT ![i] = NULL],
         m_nCount' = m_nCount - 1, m_nBuckets' = m_nBuckets
  PROVE  HashInv'
<1>2. LinksInv'
  BY UnlinkedLinks DEF HashInv
<1>4. key \in [Items -> Keys \cup {NULL}] /\ data \in [Items -> Data \cup {NULL}]
  BY DEF HashInv, LinksInv, LinksTyped, KeysInv
<1>5. KeysInv'
  BY <1>4 DEF HashInv, KeysInv
<1>6. (Hash!Allocated)' = Hash!Allocated \ {i} /\ i \in Hash!Allocated
  BY <1>4 DEF Hash!Allocated
<1>7. Cardinality((Hash!Allocated)') = Cardinality(Hash!Allocated) - 1
  BY <1>6, AllocatedFinite, FS_RemoveElement
<1>8. CountInv'
  BY <1>7 DEF HashInv, CountInv
<1> QED BY <1>2, <1>5, <1>8 DEF HashInv

\* An item with another pointer.
LEMMA SetKeeps ==
  ASSUME HashInv, NEW CONSTANT i \in Items, key[i] # NULL, NEW CONSTANT x \in Data,
         data' = [data EXCEPT ![i] = x],
         UNCHANGED <<m_nBuckets, m_nCount, m_aT, key, pNext, pPrev>>
  PROVE  HashInv'
<1>1. x # NULL
  BY HashConstants
<1>2. LinksInv'
  BY LinksStay DEF HashInv
<1>3. KeysInv'
  BY <1>1 DEF HashInv, KeysInv
<1>4. CountInv'
  BY DEF HashInv, CountInv, Hash!Allocated
<1> QED BY <1>2, <1>3, <1>4 DEF HashInv

\* An item in front of its bucket.
LEMMA ToFrontKeeps ==
  ASSUME HashInv, NEW CONSTANT i \in Items, key[i] # NULL, Hash!ToFront(i),
         UNCHANGED <<m_nBuckets, m_nCount, key, data>>
  PROVE  HashInv'
<1>1. LinksInv'
  BY ToFrontLinks DEF HashInv
<1> QED BY <1>1 DEF HashInv, KeysInv, CountInv, Hash!Allocated

\* Nothing changes.
LEMMA SameKeeps ==
  ASSUME HashInv, UNCHANGED Hash!table
  PROVE  HashInv'
<1> USE DEF Hash!table
<1>1. LinksInv'
  BY LinksStay DEF HashInv
<1> QED BY <1>1 DEF HashInv, KeysInv, CountInv, Hash!Allocated

\* A table that is emptied.
LEMMA EmptyKeeps == Emptied => HashInv
<1> SUFFICES ASSUME Emptied PROVE HashInv
  OBVIOUS
<1>1. LinksInv
  BY EmptyLinks
<1>2. KeysInv
  BY HashConstants DEF Emptied, KeysInv
<1>3. Hash!Allocated = {}
  BY DEF Emptied, Hash!Allocated
<1>4. CountInv
  BY <1>3, FS_EmptySet DEF Emptied, CountInv
<1> QED BY <1>1, <1>2, <1>4 DEF HashInv

\* The rounds of the loop in AllItems, over buckets with the items c.
Flattens(f, c, Size) ==
  /\ f \in [0..Size -> Seq(Items)]
  /\ f[0] = <<>>
  /\ \A s \in 1..Size : f[s] = c[s - 1] \o f[s - 1]

\* The loop ends.
LEMMA FlattensExists ==
  ASSUME LinksTyped, NEW c, ChainsAre(c)
  PROVE  \E f : Flattens(f, c, m_nBuckets) /\ Hash!AllItems = f[m_nBuckets]
<1> DEFINE Size == m_nBuckets
           X == Seq(Items)
           none == <<>>
           at(s) == IF s \in 1..Size THEN c[s - 1] ELSE none
           step == [s \in Nat |-> [x \in X |-> at(s) \o x]]
           F(g) == [s \in 0..Size |-> IF s = 0 THEN <<>> ELSE Hash!Chain(s - 1) \o g[s - 1]]
           f == CHOOSE g : g = F(g)
<1>1. Size \in Nat /\ none \in X
  BY HashConstants, EmptySeq DEF LinksTyped
<1>2. ASSUME NEW s \in 1..Size PROVE s - 1 \in Buckets /\ c[s - 1] \in X /\ Hash!Chain(s - 1) = c[s - 1]
  <2>1. s - 1 \in Buckets
    BY <1>1 DEF Buckets
  <2>2. Linked(s - 1, c[s - 1]) /\ c[s - 1] \in Seq(Items)
    BY <2>1 DEF ChainsAre
  <2>3. Hash!Chain(s - 1) = c[s - 1]
    <3> DEFINE r == s - 1
               d == c[r]
    <3>1. Linked(r, d)
      BY <2>2
    <3> HIDE DEF r, d
    <3>2. Hash!Chain(r) = d
      BY ONLY <3>1, LinksTyped, ChainIs DEF LinksTyped
    <3> QED BY <3>2 DEF r, d
  <2> QED BY <2>1, <2>2, <2>3
<1> HIDE DEF none
<1>3. step \in [Nat -> [X -> X]]
  <2>1. ASSUME NEW s \in Nat, NEW x \in X PROVE at(s) \o x \in X
    <3>1. at(s) \in X
      BY <1>1, <1>2
    <3> HIDE DEF at
    <3> QED BY <3>1, ConcatProperties
  <2> HIDE DEF at, X
  <2> QED BY <2>1
<1>4. PICK g : Recurs(g, X, none, step, Size)
  <2> HIDE DEF Size, X, step
  <2>1. \E g : Recurs(g, X, none, step, Size)
    BY ONLY <1>1, <1>3, RecursionExists
  <2> QED BY <2>1
<1>5. g \in [0..Size -> X] /\ g[0] = none
  BY <1>4 DEF Recurs
<1>6. ASSUME NEW s \in 1..Size PROVE g[s] = c[s - 1] \o g[s - 1]
  <2>1. s - 1 \in 0..Size /\ s \in Nat
    BY <1>1
  <2>2. g[s] = step[s][g[s - 1]]
    BY <1>4 DEF Recurs
  <2>3. g[s - 1] \in X
    BY <1>5, <2>1
  <2> QED BY <2>1, <2>2, <2>3
<1>7. g = F(g)
  <2>1. ASSUME NEW s \in 0..Size
        PROVE  g[s] = IF s = 0 THEN <<>> ELSE Hash!Chain(s - 1) \o g[s - 1]
    <3>1. CASE s = 0
      BY <3>1, <1>5 DEF none
    <3>2. CASE s # 0
      <4>1. s \in 1..Size
        BY <3>2, <1>1
      <4> QED BY <3>2, <4>1, <1>2, <1>6
    <3> QED BY <3>1, <3>2
  <2> QED BY <2>1, <1>5
<1>8. f = F(f)
  BY <1>7
<1>9. Hash!AllItems = f[Size]
  BY DEF Hash!AllItems
<1> HIDE DEF f
<1>10. \A s \in 0..Size : f[s] = IF s = 0 THEN <<>> ELSE Hash!Chain(s - 1) \o f[s - 1]
  BY <1>8
<1>11. f[0] = <<>>
  <2>1. 0 \in 0..Size
    BY <1>1
  <2> QED BY ONLY <1>10, <2>1
<1>12. ASSUME NEW s \in 1..Size PROVE f[s] = c[s - 1] \o f[s - 1]
  <2>1. s \in 0..Size /\ s # 0
    BY <1>1
  <2>2. Hash!Chain(s - 1) = c[s - 1]
    BY <1>2
  <2> QED BY ONLY <1>10, <2>1, <2>2
<1>13. f \in [0..Size -> X]
  <2>1. \A s \in 0..Size : f[s] \in X
    <3>1. f[0] \in X
      BY <1>1, <1>11 DEF none
    <3>2. ASSUME NEW s \in 1..Size, f[s - 1] \in X PROVE f[s] \in X
      <4>1. c[s - 1] \in X
        BY <1>2
      <4> QED BY <1>12, <3>2, <4>1, ConcatProperties
    <3> HIDE DEF X, Size
    <3> QED BY ONLY <1>1, <3>1, <3>2, RecursionType
  <2>2. f = [s \in 0..Size |-> IF s = 0 THEN <<>> ELSE Hash!Chain(s - 1) \o f[s - 1]]
    BY <1>8
  <2>3. f = [s \in 0..Size |-> f[s]]
    BY ONLY <2>2
  <2> HIDE DEF X
  <2> QED BY ONLY <2>1, <2>3
<1>14. Flattens(f, c, Size)
  BY <1>11, <1>12, <1>13 DEF Flattens
<1> QED BY <1>9, <1>14

\* q has the items of the buckets before s, each of them once.
Gathers(q, c, s) ==
  /\ q \in Seq(Items)
  /\ \A n \in 1..Len(q) : key[q[n]] \in Keys /\ key[q[n]] % m_nBuckets < s
  /\ \A m, n \in 1..Len(q) : q[m] = q[n] => m = n
  /\ \A r \in 0..(s - 1) : \A n \in 1..Len(c[r]) : \E m \in 1..Len(q) : q[m] = c[r][n]

\* One bucket more.
LEMMA GathersOneMore ==
  ASSUME m_nBuckets \in Nat \ {0},
         NEW s \in Nat, NEW c, NEW q, Gathers(q, c, s), NEW d, d = c[s], Linked(s, d)
  PROVE  Gathers(d \o q, c, s + 1)
<1> DEFINE t == d \o q
           L == Len(d)
           M == Len(q)
<1>1. d \in Seq(Items) /\ q \in Seq(Items) /\ L \in Nat /\ M \in Nat
  BY DEF Linked, Gathers
<1>2. /\ t \in Seq(Items) /\ Len(t) = L + M
      /\ \A n \in 1..(L + M) : t[n] = IF n <= L THEN d[n] ELSE q[n - L]
  BY <1>1, ConcatProperties
<1>3. \A n \in 1..L : key[d[n]] \in Keys /\ key[d[n]] % m_nBuckets = s
  BY DEF Linked
<1>4. \A m, n \in 1..L : d[m] = d[n] => m = n
  BY DEF Linked
<1>5. \A n \in 1..M : key[q[n]] \in Keys /\ key[q[n]] % m_nBuckets < s
  BY DEF Gathers
<1>6. \A m, n \in 1..M : q[m] = q[n] => m = n
  BY DEF Gathers
<1>7. \A r \in 0..(s - 1) : \A n \in 1..Len(c[r]) : \E m \in 1..M : q[m] = c[r][n]
  BY DEF Gathers
<1> HIDE DEF t, L, M
<1>8. \A n \in 1..(L + M) : n \in 1..L \/ (n - L \in 1..M /\ ~(n <= L))
  BY <1>1
<1>8a. \A n \in 1..L : n <= L
  BY <1>1
<1>9. ASSUME NEW n \in 1..(L + M) PROVE key[t[n]] \in Keys /\ key[t[n]] % m_nBuckets < s + 1
  <2>1. CASE n \in 1..L
    <3>1. t[n] = d[n]
      BY <2>1, <1>2, <1>8a
    <3> QED BY <3>1, <2>1, <1>3
  <2>2. CASE n - L \in 1..M /\ ~(n <= L)
    <3>1. t[n] = q[n - L]
      BY <2>2, <1>2
    <3>2. key[t[n]] \in Keys /\ key[t[n]] % m_nBuckets < s
      BY <3>1, <2>2, <1>5
    <3> DEFINE k == key[t[n]]
               x == k % m_nBuckets
    <3>3. k \in Nat
      BY <3>2, HashConstants
    <3> HIDE DEF k
    <3>4. x \in Int
      BY <3>3
    <3>5. x < s
      BY <3>2 DEF k
    <3> HIDE DEF x
    <3>6. x < s + 1
      BY <3>4, <3>5
    <3> QED BY <3>2, <3>6 DEF k, x
  <2> QED BY <2>1, <2>2, <1>8
<1>10. ASSUME NEW m \in 1..(L + M), NEW n \in 1..(L + M), t[m] = t[n] PROVE m = n
  <2>1. \A i \in 1..L, j \in 1..M : d[i] # q[j]
    BY <1>3, <1>5
  <2>2. CASE m \in 1..L /\ n \in 1..L
    BY <2>2, <1>2, <1>4, <1>8a, <1>10
  <2>3. CASE m \in 1..L /\ n \notin 1..L
    BY <2>1, <2>3, <1>2, <1>8, <1>8a, <1>10
  <2>4. CASE m \notin 1..L /\ n \in 1..L
    BY <2>1, <2>4, <1>2, <1>8, <1>8a, <1>10
  <2>5. CASE m \notin 1..L /\ n \notin 1..L
    <3>1. m - L \in 1..M /\ n - L \in 1..M /\ q[m - L] = q[n - L]
      BY <2>5, <1>2, <1>8, <1>10
    <3>2. m - L = n - L
      BY <3>1, <1>6
    <3> QED BY <3>2, <1>1
  <2> QED BY <2>2, <2>3, <2>4, <2>5
<1>11. ASSUME NEW r \in 0..s, NEW n \in 1..Len(c[r]) PROVE \E m \in 1..(L + M) : t[m] = c[r][n]
  <2>1. CASE r = s
    <3>1. n \in 1..L /\ n \in 1..(L + M)
      BY <2>1, <1>1 DEF L
    <3> QED BY <3>1, <2>1, <1>2, <1>8a
  <2>2. CASE r # s
    <3>1. r \in 0..(s - 1)
      BY <2>2
    <3>2. PICK j \in 1..M : q[j] = c[r][n]
      BY <3>1, <1>7
    <3>3. j + L \in 1..(L + M) /\ ~(j + L <= L) /\ (j + L) - L = j
      BY <1>1
    <3> QED BY <3>2, <3>3, <1>2
  <2> QED BY <2>1, <2>2
<1>12. (s + 1) - 1 = s
  OBVIOUS
<1>13. Gathers(t, c, s + 1)
  BY <1>2, <1>9, <1>10, <1>11, <1>12 DEF Gathers
<1> QED BY <1>13 DEF t

\* AllItems has every item with a text, each of them once.
LEMMA AllItemsGathers ==
  ASSUME LinksTyped, NEW c, ChainsAre(c), NEW f, Flattens(f, c, m_nBuckets)
  PROVE  Gathers(f[m_nBuckets], c, m_nBuckets)
<1> DEFINE Size == m_nBuckets
           S == {s \in 0..Size : Gathers(f[s], c, s)}
<1>1. Size \in Nat
  BY HashConstants DEF LinksTyped
<1>2. 0 \in S
  <2>1. f[0] = <<>> /\ 0 \in 0..Size /\ f[0] \in Seq(Items)
    BY <1>1 DEF Flattens
  <2>2. Len(f[0]) = 0
    BY <2>1, EmptySeq
  <2>3. Gathers(f[0], c, 0)
    BY ONLY <2>1, <2>2 DEF Gathers
  <2> QED BY <2>1, <2>3
<1>3. ASSUME NEW s \in 0..(Size - 1), s \in S PROVE s + 1 \in S
  <2>1. s \in Nat /\ s + 1 \in 1..Size /\ s + 1 \in 0..Size /\ (s + 1) - 1 = s /\ s \in Buckets
    BY <1>1 DEF Buckets
  <2>2. f[s + 1] = c[s] \o f[s]
    BY <2>1 DEF Flattens
  <2>3. Gathers(f[s], c, s) /\ Linked(s, c[s])
    BY <1>3, <2>1 DEF ChainsAre
  <2>4. Gathers(c[s] \o f[s], c, s + 1)
    <3>1. m_nBuckets \in Nat \ {0}
      BY <1>1
    <3> QED BY ONLY <2>1, <2>3, <3>1, GathersOneMore
  <2> QED BY <2>1, <2>2, <2>4
<1> HIDE DEF S
<1>4. \A s \in 0..Size : s \in S
  BY ONLY <1>1, <1>2, <1>3, UpTo
<1> QED BY <1>1, <1>4 DEF S

\* AllItems lists the items with a text, m_nCount of them.
ItemsListed ==
  /\ Hash!AllItems \in Seq(Items) /\ Len(Hash!AllItems) = m_nCount
  /\ \A n \in 1..m_nCount : key[Hash!AllItems[n]] \in Keys
  /\ \A m, n \in 1..m_nCount : Hash!AllItems[m] = Hash!AllItems[n] => m = n
  /\ \A i \in Items : key[i] # NULL => \E n \in 1..m_nCount : Hash!AllItems[n] = i

\* The listing is a bijection with the items that have a text.
LEMMA AllItemsListed == HashInv => ItemsListed
<1> SUFFICES ASSUME HashInv PROVE ItemsListed
  OBVIOUS
<1>1. PICK c : ChainsAre(c)
  BY DEF HashInv, LinksInv
<1>2. LinksTyped /\ m_nBuckets \in Nat
  BY HashConstants DEF HashInv, LinksInv, LinksTyped
<1>3. PICK f : Flattens(f, c, m_nBuckets) /\ Hash!AllItems = f[m_nBuckets]
  BY <1>1, <1>2, FlattensExists
<1> DEFINE q == Hash!AllItems
           L == Len(q)
           D == 1..L
           A == Hash!Allocated
<1>4. Gathers(q, c, m_nBuckets)
  BY <1>1, <1>2, <1>3, AllItemsGathers
<1> HIDE DEF q
<1>5. q \in Seq(Items) /\ L \in Nat /\ \A n \in D : q[n] \in Items
  BY <1>4, ElementOfSeq DEF Gathers
<1>6. \A n \in D : key[q[n]] \in Keys
  BY <1>4 DEF Gathers
<1>7. \A m, n \in D : q[m] = q[n] => m = n
  BY <1>4 DEF Gathers
<1>8. ASSUME NEW i \in Items, key[i] # NULL PROVE \E n \in D : q[n] = i
  <2>1. PICK s \in Buckets : \E n \in 1..Len(c[s]) : c[s][n] = i
    BY <1>1, <1>8 DEF ChainsAre
  <2>2. s \in 0..(m_nBuckets - 1)
    BY DEF Buckets
  <2> QED BY <2>1, <2>2, <1>4 DEF Gathers
<1>9. IsFiniteSet(D) /\ Cardinality(D) = L
  BY <1>5, IntervalSize
<1>10. IsFiniteSet(A) /\ A \subseteq Items
  BY AllocatedFinite
<1> DEFINE g == [n \in D |-> q[n]]
<1>11. g \in Bijection(D, A)
  <2>1. \A n \in D : q[n] \in A
    BY <1>5, <1>6, HashConstants DEF Hash!Allocated
  <2>2. \A i \in A : \E n \in D : q[n] = i
    BY <1>8 DEF Hash!Allocated
  <2> HIDE DEF D, A
  <2> QED BY <2>1, <2>2, <1>7 DEF Bijection, Injection, Surjection, IsInjective
<1>12. Cardinality(A) = L
  <2> HIDE DEF D, A, L, g
  <2>1. ExistsBijection(D, A)
    BY ONLY <1>11 DEF ExistsBijection
  <2>2. Cardinality(A) = Cardinality(D)
    BY ONLY <1>9, <2>1, FS_Bijection
  <2> QED BY ONLY <1>9, <2>2
<1>13. m_nCount = L
  BY <1>12 DEF HashInv, CountInv
<1> HIDE DEF L, A
<1>14. Len(q) = m_nCount
  BY <1>13 DEF L
<1> QED BY ONLY <1>5, <1>6, <1>7, <1>8, <1>13, <1>14 DEF ItemsListed, q

\* Order lists the keys of those items.
OrderListed ==
  /\ DOMAIN Hash!Order = 1..m_nCount /\ Len(Hash!Order) = m_nCount
  /\ \A n \in 1..m_nCount : Hash!Order[n] = key[Hash!AllItems[n]]

\* The keys in the order of the items.
LEMMA OrderIs == HashInv => ItemsListed /\ OrderListed /\ m_nCount \in 0..Cardinality(Items)
<1> SUFFICES ASSUME HashInv
             PROVE  ItemsListed /\ OrderListed /\ m_nCount \in 0..Cardinality(Items)
  OBVIOUS
<1>0. ItemsListed /\ m_nCount \in 0..Cardinality(Items)
  BY AllItemsListed, AllocatedFinite DEF HashInv, CountInv
<1>1. DOMAIN Hash!AllItems = 1..m_nCount /\ m_nCount \in Nat
  BY <1>0, LenProperties DEF ItemsListed
<1>2. Hash!Order = [n \in 1..m_nCount |-> key[Hash!AllItems[n]]]
  BY <1>1 DEF Hash!Order
<1>3. Hash!Order \in Seq({key[i] : i \in Items})
  <2>1. \A n \in 1..m_nCount : Hash!AllItems[n] \in Items
    BY <1>0, ElementOfSeq DEF ItemsListed
  <2> QED BY <1>1, <1>2, <2>1
<1>4. Len(Hash!Order) \in Nat /\ 1..Len(Hash!Order) = 1..m_nCount
  BY <1>2, <1>3, LenProperties
<1>5. Len(Hash!Order) = m_nCount
  BY <1>1, <1>4
<1> QED BY <1>0, <1>1, <1>2, <1>5 DEF OrderListed

\* m_nCount counts the items.
LEMMA CountIsRight == HashInv => Hash!CountsItems
<1> SUFFICES ASSUME HashInv PROVE Hash!CountsItems
  OBVIOUS
<1>1. ItemsListed
  BY AllItemsListed
<1>2. /\ DOMAIN Hash!Order = 1..m_nCount /\ Len(Hash!Order) = m_nCount
      /\ \A n \in 1..m_nCount : Hash!Order[n] = key[Hash!AllItems[n]]
  BY OrderIs DEF OrderListed
<1>3. \A n \in 1..m_nCount : Hash!AllItems[n] \in Hash!Allocated
  BY <1>1, ElementOfSeq, HashConstants DEF ItemsListed, Hash!Allocated
<1>4. \A i \in Hash!Allocated : \E n \in 1..m_nCount : Hash!AllItems[n] = i
  BY <1>1 DEF ItemsListed, Hash!Allocated
<1>5. {Hash!Order[n] : n \in DOMAIN Hash!Order} = {key[i] : i \in Hash!Allocated}
  BY <1>2, <1>3, <1>4
<1>6. m_nCount = Hash!Cardinality(Hash!Allocated)
  BY SameSize DEF HashInv, CountInv
<1> QED BY <1>2, <1>5, <1>6 DEF Hash!CountsItems

\* Links back are the mirror of links on.
LEMMA MirrorHolds == HashInv => Hash!LinksMirror
<1> SUFFICES ASSUME HashInv PROVE Hash!LinksMirror
  OBVIOUS
<1>1. PICK c : ChainsAre(c)
  BY DEF HashInv, LinksInv
<1>2. ASSUME NEW i \in Hash!Allocated
      PROVE  /\ pNext[i] # NULL => pNext[i] \in Hash!Allocated /\ pPrev[pNext[i]] = i
             /\ pPrev[i] # NULL => pPrev[i] \in Hash!Allocated /\ pNext[pPrev[i]] = i
  <2>1. PICK s \in Buckets : \E n \in 1..Len(c[s]) : c[s][n] = i
    BY <1>1 DEF ChainsAre, Hash!Allocated
  <2> DEFINE d == c[s]
             L == Len(d)
  <2>2. Linked(s, d)
    BY <1>1 DEF ChainsAre
  <2> HIDE DEF d
  <2>3. PICK n \in 1..L : d[n] = i
    BY <2>1 DEF d
  <2>4. L \in Nat /\ \A m \in 1..L : d[m] \in Items
    BY <2>2, LinkedFacts
  <2>5. \A m \in 1..L : key[d[m]] # NULL
    BY <2>2, HashConstants DEF Linked
  <2>6. \A m \in 1..L : d[m] \in Hash!Allocated
    BY <2>4, <2>5 DEF Hash!Allocated
  <2>7. \A m \in 1..L : pNext[d[m]] = IF m = L THEN NULL ELSE d[m + 1]
    BY <2>2 DEF Linked
  <2>8. \A m \in 1..L : pPrev[d[m]] = IF m = 1 THEN NULL ELSE d[m - 1]
    BY <2>2 DEF Linked
  <2> HIDE DEF L
  <2>9. n # L => n + 1 \in 1..L /\ n + 1 # 1 /\ (n + 1) - 1 = n
    BY <2>4
  <2>10. n # 1 => n - 1 \in 1..L /\ n - 1 # L /\ (n - 1) + 1 = n
    BY <2>4
  <2> QED BY <2>3, <2>6, <2>7, <2>8, <2>9, <2>10
<1>3. ASSUME NEW s \in Hash!Slots, m_aT[s] # NULL
      PROVE  m_aT[s] \in Hash!Allocated /\ pPrev[m_aT[s]] = NULL
  <2>1. s \in Buckets
    BY <1>3 DEF HashInv, LinksInv
  <2> DEFINE d == c[s]
             L == Len(d)
  <2>2. Linked(s, d)
    BY <1>1, <2>1 DEF ChainsAre
  <2> HIDE DEF d
  <2>3. L \in Nat /\ \A m \in 1..L : d[m] \in Items
    BY <2>2, LinkedFacts
  <2>4. m_aT[s] = d[1] /\ 1 \in 1..L
    BY <1>3, <2>2, <2>3 DEF Linked
  <2>5. key[d[1]] # NULL /\ pPrev[d[1]] = NULL
    BY <2>2, <2>4, HashConstants DEF Linked
  <2> QED BY <2>3, <2>4, <2>5 DEF Hash!Allocated
<1> QED BY <1>2, <1>3 DEF Hash!LinksMirror

\* The items c and d of Size buckets differ in those of the bucket r only.
DifferAt(c, d, r, Size) ==
  /\ r \in 0..(Size - 1)
  /\ \A s \in 0..(Size - 1) : c[s] \in Seq(Items) /\ d[s] \in Seq(Items)
  /\ \A s \in 0..(Size - 1) : s # r => d[s] = c[s]

\* u and v are alike but for x and y in their middles.
Alike(u, v, x, y) == \E A, B \in Seq(Items) : u = A \o (x \o B) /\ v = A \o (y \o B)

\* Three sequences joined in either order.
InEitherOrder(s1, s2, s3) == (s1 \o s2) \o s3 = s1 \o (s2 \o s3)

\* It is the same for sequences of items.
LEMMA Regroup ==
  ASSUME NEW s1 \in Seq(Items), NEW s2 \in Seq(Items), NEW s3 \in Seq(Items)
  PROVE  InEitherOrder(s1, s2, s3)
BY ConcatAssociative DEF InEitherOrder

\* Two buckets that differ leave what is before and behind them in AllItems alike.
LEMMA SplitBoth ==
  ASSUME NEW Size \in Nat, NEW f, NEW c, Flattens(f, c, Size), NEW g, NEW d, Flattens(g, d, Size),
         NEW r, DifferAt(c, d, r, Size)
  PROVE  Alike(f[Size], g[Size], c[r], d[r])
<1>0. /\ r \in 0..(Size - 1)
      /\ \A s \in 0..(Size - 1) : c[s] \in Seq(Items) /\ d[s] \in Seq(Items)
      /\ \A s \in 0..(Size - 1) : s # r => d[s] = c[s]
  BY DEF DifferAt
<1> DEFINE S == {s \in 0..r : f[s] = g[s]}
<1>1. ASSUME NEW s \in 0..(Size - 1)
      PROVE  f[s + 1] = c[s] \o f[s] /\ g[s + 1] = d[s] \o g[s]
  <2>1. s + 1 \in 1..Size /\ (s + 1) - 1 = s
    OBVIOUS
  <2> QED BY <2>1 DEF Flattens
<1>2. 0 \in S
  BY <1>0 DEF Flattens
<1>3. ASSUME NEW s \in 0..(r - 1), s \in S PROVE s + 1 \in S
  <2>1. s \in 0..(Size - 1) /\ s # r /\ s + 1 \in 0..r
    BY <1>0
  <2> QED BY <2>1, <1>0, <1>1, <1>3
<1>4. r \in S
  <2> HIDE DEF S
  <2>1. r \in Nat
    BY <1>0
  <2>2. \A s \in 0..r : s \in S
    BY ONLY <1>2, <1>3, <2>1, UpTo
  <2> QED BY <2>1, <2>2
<1> DEFINE B == f[r]
           X == c[r] \o B
           Y == d[r] \o B
           M == Size - r - 1
           R == {s \in 0..M : \E A \in Seq(Items) :
                   f[r + 1 + s] = A \o X /\ g[r + 1 + s] = A \o Y}
<1>5. f[r + 1] = X /\ g[r + 1] = Y
  BY <1>0, <1>1, <1>4
<1>6. B \in Seq(Items) /\ X \in Seq(Items) /\ Y \in Seq(Items) /\ M \in Nat
  <2>1. r \in 0..Size /\ Size - r - 1 \in Nat
    BY <1>0
  <2>2. B \in Seq(Items)
    BY <2>1 DEF Flattens
  <2> QED BY <1>0, <2>1, <2>2, ConcatProperties
<1> HIDE DEF B, X, Y
<1>7. 0 \in R
  <2> DEFINE none == <<>>
  <2>1. none \in Seq(Items) /\ none \o X = X /\ none \o Y = Y
    BY <1>6, EmptySeq, ConcatEmptySeq
  <2> HIDE DEF none
  <2>2. 0 \in 0..M /\ r + 1 + 0 = r + 1
    BY <1>0, <1>6
  <2> QED BY <1>5, <2>1, <2>2
<1>8. ASSUME NEW s \in 0..(M - 1), s \in R PROVE s + 1 \in R
  <2> DEFINE u == r + 1 + s
             C == c[u]
  <2>1. u \in 0..(Size - 1) /\ u # r /\ s + 1 \in 0..M /\ r + 1 + (s + 1) = u + 1
    BY <1>0, <1>6
  <2>2. PICK A \in Seq(Items) : f[u] = A \o X /\ g[u] = A \o Y
    BY <1>8
  <2>3. C \in Seq(Items) /\ d[u] = C
    BY <2>1, <1>0
  <2>4. f[u + 1] = C \o f[u] /\ g[u + 1] = C \o g[u]
    BY <2>1, <2>3, <1>1
  <2> HIDE DEF C, u
  <2>5. C \o A \in Seq(Items)
    BY <2>2, <2>3, ConcatProperties
  <2>6. C \o (A \o X) = (C \o A) \o X /\ C \o (A \o Y) = (C \o A) \o Y
    <3>1. A \in Seq(Items) /\ C \in Seq(Items) /\ X \in Seq(Items) /\ Y \in Seq(Items)
      BY <2>3, <1>6
    <3>2. InEitherOrder(C, A, X) /\ InEitherOrder(C, A, Y)
      BY ONLY <3>1, Regroup
    <3> QED BY ONLY <3>2, Zenon DEF InEitherOrder
  <2>7. f[u + 1] = (C \o A) \o X /\ g[u + 1] = (C \o A) \o Y
    BY <2>2, <2>4, <2>6
  <2> QED BY <2>1, <2>5, <2>7
<1>9. M \in R
  <2> HIDE DEF R, M
  <2>1. \A s \in 0..M : s \in R
    BY ONLY <1>6, <1>7, <1>8, UpTo
  <2> QED BY <1>6, <2>1
<1>10. r + 1 + M = Size
  BY <1>0
<1>11. PICK A \in Seq(Items) : f[Size] = A \o X /\ g[Size] = A \o Y
  BY <1>9, <1>10
<1> QED BY <1>6, <1>11 DEF X, Y, Alike

\* Where the items of a sequence in the middle are.
LEMMA MiddleAt ==
  ASSUME NEW A \in Seq(Items), NEW X \in Seq(Items), NEW B \in Seq(Items), NEW u, u = A \o (X \o B)
  PROVE  /\ \A m \in 1..Len(A) : u[m] = A[m]
         /\ \A j \in 1..Len(X) : u[Len(A) + j] = X[j]
         /\ Len(u) = Len(A) + Len(X) + Len(B)
<1> DEFINE v == X \o B
           LA == Len(A)
           LX == Len(X)
           LB == Len(B)
<1>1. LA \in Nat /\ LX \in Nat /\ LB \in Nat
  OBVIOUS
<1>2. /\ v \in Seq(Items) /\ Len(v) = LX + LB
      /\ \A j \in 1..(LX + LB) : v[j] = IF j <= LX THEN X[j] ELSE B[j - LX]
  BY ConcatProperties
<1> HIDE DEF v
<1>3. /\ Len(u) = LA + (LX + LB)
      /\ \A m \in 1..(LA + Len(v)) : u[m] = IF m <= LA THEN A[m] ELSE v[m - LA]
  <2>1. u = A \o v
    BY DEF v
  <2>2. v \in Seq(Items)
    BY <1>2
  <2>3. /\ Len(A \o v) = Len(A) + Len(v)
        /\ \A m \in 1..(Len(A) + Len(v)) :
             (A \o v)[m] = IF m <= Len(A) THEN A[m] ELSE v[m - Len(A)]
    BY ONLY <2>2, A \in Seq(Items), ConcatProperties
  <2> QED BY <1>2, <2>1, <2>3
<1> HIDE DEF LA, LX, LB
<1>4. ASSUME NEW m \in 1..LA PROVE u[m] = A[m]
  <2>1. m \in 1..(LA + Len(v)) /\ m <= LA
    BY <1>1, <1>2
  <2> QED BY <2>1, <1>3
<1>5. ASSUME NEW j \in 1..LX PROVE u[LA + j] = X[j]
  <2>1. LA + j \in 1..(LA + Len(v)) /\ ~(LA + j <= LA) /\ (LA + j) - LA = j
    BY <1>1, <1>2
  <2>2. j \in 1..(LX + LB) /\ j <= LX
    BY <1>1
  <2> QED BY <2>1, <2>2, <1>2, <1>3
<1>6. Len(u) = LA + LX + LB
  BY <1>1, <1>3
<1> QED BY <1>4, <1>5, <1>6 DEF LA, LX, LB

\* u and v begin with the same p items, in whatever order.
SamePrefix(u, v, p) ==
  /\ \A m \in 1..p : \E q \in 1..p : v[m] = u[q]
  /\ \A m \in 1..p : \E q \in 1..p : u[m] = v[q]

\* What is met up to an item stays what is met up to there, when it goes to the front of its
\* bucket.
LEMMA PrefixStays ==
  ASSUME NEW A \in Seq(Items), NEW B \in Seq(Items), NEW X \in Seq(Items),
         NEW n \in 1..Len(X), n # 1, \A i, j \in 1..Len(X) : X[i] = X[j] => i = j,
         NEW u, u = A \o (X \o B), NEW v, v = A \o (Fronted(X, n) \o B)
  PROVE  SamePrefix(u, v, Len(A) + n)
<1> DEFINE e == Fronted(X, n)
           LA == Len(A)
           p == LA + n
<1>1. /\ e \in Seq(Items) /\ Len(e) = Len(X)
      /\ e[1] = X[n] /\ \A m \in 2..n : e[m] = X[m - 1]
  BY FrontedItems
<1>2. LA \in Nat /\ n \in Nat /\ n \in 2..Len(X) /\ Len(X) \in Nat
  OBVIOUS
<1> HIDE DEF e
<1>3. (\A m \in 1..LA : u[m] = A[m]) /\ (\A j \in 1..n : u[LA + j] = X[j])
  <2>1. (\A m \in 1..LA : u[m] = A[m]) /\ (\A j \in 1..Len(X) : u[LA + j] = X[j])
    BY MiddleAt
  <2>2. \A j \in 1..n : j \in 1..Len(X)
    BY <1>2
  <2> QED BY <2>1, <2>2
<1>4. (\A m \in 1..LA : v[m] = A[m]) /\ (\A j \in 1..n : v[LA + j] = e[j])
  <2>1. v = A \o (e \o B)
    BY DEF e
  <2>2. (\A m \in 1..LA : v[m] = A[m]) /\ (\A j \in 1..Len(e) : v[LA + j] = e[j])
    BY <1>1, <2>1, MiddleAt
  <2>3. \A j \in 1..n : j \in 1..Len(e)
    BY <1>1, <1>2
  <2> QED BY <2>2, <2>3
<1> HIDE DEF LA
<1>5. \A m \in 1..p : m \in 1..LA \/ (m - LA \in 1..n /\ LA + (m - LA) = m)
  BY <1>2
<1>6. \A j \in 1..n : LA + j \in 1..p
  BY <1>2
<1>7. \A m \in 1..LA : m \in 1..p
  BY <1>2
<1>8. \A j \in 1..n : \E k \in 1..n : e[j] = X[k]
  <2> SUFFICES ASSUME NEW j \in 1..n PROVE \E k \in 1..n : e[j] = X[k]
    OBVIOUS
  <2>1. CASE j = 1
    BY <2>1, <1>1, <1>2
  <2>2. CASE j # 1
    <3>1. j \in 2..n /\ j - 1 \in 1..n
      BY <2>2, <1>2
    <3> QED BY <3>1, <1>1
  <2> QED BY <2>1, <2>2
<1>9. \A j \in 1..n : \E k \in 1..n : X[j] = e[k]
  <2> SUFFICES ASSUME NEW j \in 1..n PROVE \E k \in 1..n : X[j] = e[k]
    OBVIOUS
  <2>1. CASE j = n
    <3>1. 1 \in 1..n
      BY <1>2
    <3> QED BY <2>1, <3>1, <1>1
  <2>2. CASE j # n
    <3>1. j + 1 \in 2..n /\ j + 1 \in 1..n /\ (j + 1) - 1 = j
      BY <2>2, <1>2
    <3> QED BY <3>1, <1>1
  <2> QED BY <2>1, <2>2
<1> HIDE DEF p
<1>10. ASSUME NEW m \in 1..p PROVE \E q \in 1..p : v[m] = u[q]
  <2>1. CASE m \in 1..LA
    BY <2>1, <1>3, <1>4
  <2>2. CASE m - LA \in 1..n /\ LA + (m - LA) = m
    <3>1. PICK k \in 1..n : e[m - LA] = X[k]
      BY <2>2, <1>8
    <3>2. v[m] = u[LA + k]
      BY <2>2, <3>1, <1>3, <1>4
    <3> QED BY <3>2, <1>6
  <2> QED BY <2>1, <2>2, <1>5
<1>11. ASSUME NEW m \in 1..p PROVE \E q \in 1..p : u[m] = v[q]
  <2>1. CASE m \in 1..LA
    BY <2>1, <1>3, <1>4
  <2>2. CASE m - LA \in 1..n /\ LA + (m - LA) = m
    <3>1. PICK k \in 1..n : X[m - LA] = e[k]
      BY <2>2, <1>9
    <3>2. u[m] = v[LA + k]
      BY <2>2, <3>1, <1>3, <1>4
    <3> QED BY <3>2, <1>6
  <2> QED BY <2>1, <2>2, <1>5
<1>12. SamePrefix(u, v, p)
  BY <1>10, <1>11 DEF SamePrefix
<1> QED BY <1>12 DEF p, LA

\* The listing over the items of each bucket.
Listing(c, f) == Flattens(f, c, m_nBuckets) /\ Hash!AllItems = f[m_nBuckets]

ListingAlways == \A c : LinksTyped /\ ChainsAre(c) => \E f : Listing(c, f)

\* The listing ends whatever the buckets hold.
LEMMA ListingExists == ListingAlways
<1> SUFFICES ASSUME NEW c, LinksTyped, ChainsAre(c) PROVE \E f : Listing(c, f)
  BY DEF ListingAlways
<1> QED BY FlattensExists DEF Listing

\* A step that changes no link leaves the listing.
LEMMA AllItemsStay ==
  ASSUME HashInv, UNCHANGED <<m_nBuckets, m_aT, key, pNext, pPrev>>
  PROVE  (Hash!AllItems)' = Hash!AllItems
<1> DEFINE Size == m_nBuckets
<1>1. PICK c : ChainsAre(c)
  BY DEF HashInv, LinksInv
<1>2. LinksTyped /\ LinksInv /\ Size \in Nat
  BY HashConstants DEF HashInv, LinksInv, LinksTyped
<1>3. ChainsAre(c)' /\ LinksTyped'
  BY <1>1, <1>2, ChainsStay, LinksStay DEF LinksInv
<1>4. PICK f : Listing(c, f)
  BY <1>1, <1>2, ListingExists DEF ListingAlways
<1>5. PICK g : Listing(c, g)'
  <2>1. ListingAlways'
    BY ListingExists, PTL
  <2> QED BY <1>3, <2>1 DEF ListingAlways
<1>6. Flattens(f, c, Size) /\ Flattens(g, c, Size) /\ Hash!AllItems = f[Size] /\ (Hash!AllItems)' = g[Size]
  BY <1>4, <1>5 DEF Listing
<1>7. CASE Size = 0
  BY <1>6, <1>7 DEF Flattens
<1>8. CASE Size # 0
  <2>1. Size \in Nat /\ Flattens(f, c, Size) /\ Flattens(g, c, Size) /\ DifferAt(c, c, 0, Size)
    BY <1>1, <1>2, <1>6, <1>8 DEF DifferAt, Buckets, ChainsAre
  <2>2. Alike(f[Size], g[Size], c[0], c[0])
    <3> HIDE DEF Size
    <3> QED BY ONLY <2>1, SplitBoth
  <2> QED BY <1>6, <2>2 DEF Alike
<1> QED BY <1>7, <1>8

\* A search that moves the item it finds keeps the items up to there.
LEMMA ToFrontPrefix ==
  ASSUME HashInv, HashInv', NEW CONSTANT p \in 1..m_nCount, NEW CONSTANT i \in Items,
         i = Hash!AllItems[p], Hash!ToFront(i),
         UNCHANGED <<m_nBuckets, m_nCount, key, data>>
  PROVE  SamePrefix(Hash!AllItems, (Hash!AllItems)', p)
<1> DEFINE Size == m_nBuckets
<1>1. PICK c : ChainsAre(c)
  BY DEF HashInv, LinksInv
<1>2. LinksTyped /\ LinksTyped' /\ LinksInv /\ Size \in Nat
  BY HashConstants DEF HashInv, LinksInv, LinksTyped
<1>3. ItemsListed
  BY AllItemsListed
<1>4. key[i] # NULL
  BY <1>3, HashConstants DEF ItemsListed
<1>5. PICK r \in Buckets : r = Hash!Slot(key[i])
  BY <1>1, <1>2, <1>4, ItsBucket
<1>6. PICK n \in 1..Len(c[r]) : c[r][n] = i
  BY <1>1, <1>2, <1>4, <1>5, ItsBucket
<1> DEFINE X == c[r]
<1>7. Linked(r, X) /\ Complete(r, X)
  BY <1>1, <1>2, ChainIsOwn
<1>8. CASE n = 1
  <2>1. m_aT[r] = i
    BY <1>6, <1>7, <1>8 DEF Linked
  <2>2. UNCHANGED <<m_nBuckets, m_aT, key, pNext, pPrev>>
    BY <1>5, <2>1 DEF Hash!ToFront
  <2>3. (Hash!AllItems)' = Hash!AllItems
    BY <2>2, AllItemsStay
  <2> QED BY <2>3 DEF SamePrefix
<1>9. CASE n # 1
  <2> DEFINE e == Fronted(X, n)
             d == [c EXCEPT ![r] = e]
  <2>1. Changes(r, e)
    <3>1. n \in 1..Len(X) /\ Hash!ToFront(X[n])
      BY <1>6
    <3> HIDE DEF X
    <3> QED BY <1>2, <1>7, <1>9, <3>1, ToFrontChanges
  <2>2. ChainsAre(d)'
    <3> HIDE DEF e
    <3> QED BY <1>1, <1>2, <2>1, ChainsChange
  <2>3. PICK f : Listing(c, f)
    BY <1>1, <1>2, ListingExists DEF ListingAlways
  <2>4. PICK g : Listing(d, g)'
    <3>1. ListingAlways'
      BY ListingExists, PTL
    <3> HIDE DEF d
    <3> QED BY <1>2, <2>2, <3>1 DEF ListingAlways
  <2>5. Flattens(f, c, Size) /\ Hash!AllItems = f[Size]
    BY <2>3 DEF Listing
  <2>6. Flattens(g, d, Size) /\ (Hash!AllItems)' = g[Size]
    BY <2>4 DEF Listing
  <2>7. c \in [Buckets -> Seq(Items)] /\ X \in Seq(Items) /\ e \in Seq(Items)
    <3>1. e \in Seq(Items)
      BY <2>1 DEF Changes, Linked
    <3> QED BY <3>1, <1>1 DEF ChainsAre
  <2>8. /\ r \in 0..(Size - 1) /\ d[r] = e
        /\ \A s \in 0..(Size - 1) : c[s] \in Seq(Items) /\ d[s] \in Seq(Items)
        /\ \A s \in 0..(Size - 1) : s # r => d[s] = c[s]
    <3> HIDE DEF e
    <3> QED BY <2>7 DEF Buckets
  <2> HIDE DEF d
  <2>9. PICK A \in Seq(Items), B \in Seq(Items) : f[Size] = A \o (c[r] \o B) /\ g[Size] = A \o (d[r] \o B)
    <3>1. Size \in Nat /\ Flattens(f, c, Size) /\ Flattens(g, d, Size) /\ DifferAt(c, d, r, Size)
      BY <1>2, <2>5, <2>6, <2>8 DEF DifferAt
    <3> HIDE DEF Size
    <3>2. Alike(f[Size], g[Size], c[r], d[r])
      BY ONLY <3>1, SplitBoth
    <3> QED BY <3>2 DEF Alike
  <2>10. Hash!AllItems = A \o (X \o B) /\ (Hash!AllItems)' = A \o (e \o B)
    BY <2>5, <2>6, <2>8, <2>9
  <2>11. \A j, k \in 1..Len(X) : X[j] = X[k] => j = k
    BY <1>7 DEF Linked
  <2>12. n \in 1..Len(X) /\ n # 1 /\ X[n] = i
    BY <1>6, <1>9
  <2> HIDE DEF X
  <2>13. SamePrefix(Hash!AllItems, (Hash!AllItems)', Len(A) + n)
    BY <2>7, <2>10, <2>11, <2>12, PrefixStays
  <2>14. Len(A) + n = p
    <3> DEFINE u == Hash!AllItems
    <3>1. u = A \o (X \o B)
      BY <2>10
    <3> HIDE DEF u
    <3>2. (\A j \in 1..Len(X) : u[Len(A) + j] = X[j]) /\ Len(u) = Len(A) + Len(X) + Len(B)
      BY <2>7, <3>1, MiddleAt
    <3>3. u[Len(A) + n] = i
      BY <2>12, <3>2
    <3>4. Len(A) \in Nat /\ Len(X) \in Nat /\ Len(B) \in Nat
      BY <2>7
    <3>5. Len(u) = m_nCount
      BY <1>3 DEF ItemsListed, u
    <3>6. Len(A) + n \in 1..m_nCount
      BY <2>12, <3>2, <3>4, <3>5
    <3>7. \A j, k \in 1..m_nCount : u[j] = u[k] => j = k
      BY <1>3 DEF ItemsListed, u
    <3>8. u[p] = i
      BY DEF u
    <3> QED BY <3>3, <3>6, <3>7, <3>8
  <2> QED BY <2>13, <2>14
<1> QED BY <1>8, <1>9

\* A walk has seen the keys up to its position.
WalkInv ==
  /\ result \in Data \cup BOOLEAN \cup {NULL}
  /\ walk \in -1..m_nCount /\ seen \subseteq Keys
  /\ walk # -1 => seen = {Hash!Order[n] : n \in 1..walk}

TableInv == HashInv /\ WalkInv

\* A search moves what it finds at most.
LEMMA SearchedKeeps ==
  ASSUME HashInv, NEW CONSTANT k \in Keys, NEW CONSTANT optimize, Hash!Searched(k, optimize)
  PROVE  HashInv'
<1>1. PICK i : i = Hash!Lookup(k)
  OBVIOUS
<1>2. Finds(k, i)
  BY <1>1, LookupFinds
<1>3. UNCHANGED <<m_nBuckets, m_nCount, key, data>>
  BY DEF Hash!Searched
<1>4. CASE i # NULL /\ optimize
  <2>1. i \in Items /\ key[i] # NULL
    BY <1>2, <1>4, HashConstants DEF Finds
  <2>2. Hash!ToFront(i)
    BY <1>1, <1>4 DEF Hash!Searched
  <2> QED BY <1>3, <2>1, <2>2, ToFrontKeeps
<1>5. CASE ~(i # NULL /\ optimize)
  <2>1. UNCHANGED Hash!table
    BY <1>1, <1>3, <1>5 DEF Hash!Searched, Hash!table
  <2> QED BY <2>1, SameKeeps
<1> QED BY <1>4, <1>5

\* A walk meets one more key.
LEMMA WalkOnKeeps ==
  ASSUME TableInv, NEW CONSTANT optimize, Hash!WalkOn(optimize)
  PROVE  TableInv'
<1>1. HashInv /\ WalkInv
  BY DEF TableInv
<1>2. ItemsListed /\ OrderListed /\ m_nCount \in Nat
  BY <1>1, OrderIs, HashConstants
<1>3. PICK p : p = walk + 1
  OBVIOUS
<1>4. walk \in 0..(m_nCount - 1) /\ walk # -1 /\ p \in 1..m_nCount /\ p \in Nat
  BY <1>2, <1>3 DEF Hash!WalkOn
<1>5. PICK i : i = Hash!AllItems[p]
  OBVIOUS
<1>6. PICK k : k = Hash!Order[p]
  OBVIOUS
<1>7. i \in Items /\ key[i] = k /\ k \in Keys
  BY <1>2, <1>4, <1>5, <1>6, ElementOfSeq DEF ItemsListed, OrderListed
<1>8. Hash!Lookup(k) = i /\ i # NULL
  <2>1. Finds(k, Hash!Lookup(k)) /\ Finds(k, i)
    BY <1>1, <1>7, LookupFinds DEF Finds
  <2> QED BY <1>1, <1>7, <2>1, FindsOne, HashConstants DEF HashInv
<1>9. Hash!Find(k, optimize) /\ seen' = seen \cup {k} /\ walk' = p
  BY <1>3, <1>6 DEF Hash!WalkOn
<1>10. Hash!Searched(k, optimize) /\ result' = data[i]
  BY <1>8, <1>9 DEF Hash!Find
<1>11. HashInv'
  BY <1>1, <1>7, <1>10, SearchedKeeps
<1>12. UNCHANGED <<m_nBuckets, m_nCount, key, data>>
  BY <1>10 DEF Hash!Searched
<1>13. SamePrefix(Hash!AllItems, (Hash!AllItems)', p)
  <2>1. CASE optimize
    <3>1. Hash!ToFront(i)
      BY <1>8, <1>10, <2>1 DEF Hash!Searched
    <3> QED BY <1>1, <1>4, <1>5, <1>7, <1>11, <1>12, <3>1, ToFrontPrefix
  <2>2. CASE ~optimize
    <3>1. UNCHANGED <<m_nBuckets, m_aT, key, pNext, pPrev>>
      BY <1>10, <1>12, <2>2 DEF Hash!Searched
    <3>2. (Hash!AllItems)' = Hash!AllItems
      BY <1>1, <3>1, AllItemsStay
    <3> QED BY <3>2 DEF SamePrefix
  <2> QED BY <2>1, <2>2
<1>14. ItemsListed' /\ OrderListed' /\ (m_nCount \in 0..Cardinality(Items))'
  BY <1>11, OrderIs, PTL
<1> DEFINE u == Hash!AllItems
           v == (Hash!AllItems)'
<1>15. seen' = {key[u[n]] : n \in 1..p}
  <2>1. seen = {Hash!Order[n] : n \in 1..walk}
    BY <1>1, <1>4 DEF WalkInv
  <2>2. \A n \in 1..p : n \in 1..walk \/ n = p
    BY <1>3, <1>4
  <2>3. \A n \in 1..walk : n \in 1..p /\ n \in 1..m_nCount
    BY <1>2, <1>3, <1>4
  <2>4. \A n \in 1..m_nCount : Hash!Order[n] = key[u[n]]
    BY <1>2 DEF OrderListed
  <2>5. p \in 1..p
    BY <1>4
  <2> HIDE DEF u
  <2>6. seen = {key[u[n]] : n \in 1..walk}
    BY <2>1, <2>3, <2>4
  <2>7. k = key[u[p]]
    BY <1>4, <1>6, <2>4
  <2>8. seen \cup {k} = {key[u[n]] : n \in 1..p}
    BY <2>2, <2>3, <2>5, <2>6, <2>7
  <2> QED BY <1>9, <2>8
<1>16. \A n \in 1..p : (Hash!Order)'[n] = key[v[n]]
  <2>1. \A n \in 1..m_nCount : (Hash!Order)'[n] = key[v[n]]
    BY <1>12, <1>14 DEF OrderListed
  <2>2. \A n \in 1..p : n \in 1..m_nCount
    BY <1>2, <1>4
  <2> QED BY <2>1, <2>2
<1> HIDE DEF u, v
<1>17. {key[u[n]] : n \in 1..p} = {(Hash!Order)'[n] : n \in 1..p}
  <2>1. SamePrefix(u, v, p)
    BY <1>13 DEF u, v
  <2>2. {key[u[n]] : n \in 1..p} = {key[v[n]] : n \in 1..p}
    BY ONLY <2>1 DEF SamePrefix
  <2> QED BY <1>16, <2>2
<1>18. WalkInv'
  <2>1. seen' \subseteq Keys
    BY <1>1, <1>7, <1>9 DEF WalkInv
  <2>2. result' \in Data \cup BOOLEAN \cup {NULL}
    BY <1>1, <1>7, <1>10 DEF HashInv, KeysInv
  <2>3. walk' \in -1..m_nCount'
    BY <1>2, <1>4, <1>9, <1>12
  <2>4. seen' = {(Hash!Order)'[n] : n \in 1..walk'}
    BY <1>9, <1>15, <1>17
  <2> QED BY <2>1, <2>2, <2>3, <2>4 DEF WalkInv
<1> QED BY <1>11, <1>18 DEF TableInv

\* No call between the rounds of a walk.
LEMMA CallKeeps ==
  ASSUME TableInv, walk = -1, UNCHANGED <<walk, seen>>, HashInv',
         result' \in Data \cup BOOLEAN \cup {NULL}
  PROVE  TableInv'
<1>1. (m_nCount \in 0..Cardinality(Items))'
  BY OrderIs, PTL
<1>2. walk' \in -1..m_nCount'
  BY <1>1, HashConstants
<1> QED BY <1>2 DEF TableInv, WalkInv

\* What is in the table for a key.
LEMMA PointerType ==
  ASSUME HashInv, NEW k \in Keys
  PROVE  Hash!Lookup(k) # NULL => /\ Hash!Lookup(k) \in Items /\ key[Hash!Lookup(k)] = k
                                  /\ key[Hash!Lookup(k)] # NULL
                                  /\ data[Hash!Lookup(k)] \in Data
<1>1. Finds(k, Hash!Lookup(k))
  BY LookupFinds
<1>2. k # NULL
  BY HashConstants
<1> QED BY <1>1, <1>2 DEF Finds, HashInv, KeysInv

\* Every call keeps the invariant.
LEMMA FindKeeps ==
  ASSUME TableInv, walk = -1, UNCHANGED <<walk, seen>>,
         NEW CONSTANT k \in Keys, NEW CONSTANT optimize, Hash!Find(k, optimize)
  PROVE  TableInv'
<1>1. HashInv'
  BY SearchedKeeps DEF TableInv, Hash!Find
<1>2. result' \in Data \cup BOOLEAN \cup {NULL}
  BY PointerType DEF TableInv, Hash!Find
<1> QED BY <1>1, <1>2, CallKeeps

\* Insert finds its key, or puts an item that is free in front.
LEMMA InsertKeeps ==
  ASSUME TableInv, walk = -1, UNCHANGED <<walk, seen>>,
         NEW CONSTANT k \in Keys, NEW CONSTANT d \in Data, Hash!Insert(k, d)
  PROVE  TableInv'
<1>1. CASE m_nBuckets = 0 \/ Hash!Lookup(k) # NULL
  <2>1. Hash!Searched(k, TRUE) /\ result' = FALSE
    BY <1>1 DEF Hash!Insert
  <2>2. HashInv'
    BY <2>1, SearchedKeeps DEF TableInv
  <2> QED BY <2>1, <2>2, CallKeeps
<1>2. CASE ~(m_nBuckets = 0 \/ Hash!Lookup(k) # NULL)
  <2>1. PICK i \in Items \ Hash!Allocated : Hash!PutFirst(i, k, d)
    BY <1>2 DEF Hash!Insert
  <2>2. result' = TRUE
    BY <1>2 DEF Hash!Insert
  <2>3. Finds(k, NULL)
    BY <1>2, LookupFinds DEF TableInv
  <2>4. HashInv'
    BY <1>2, <2>1, <2>3, PutFirstKeeps DEF TableInv
  <2> QED BY <2>2, <2>4, CallKeeps
<1> QED BY <1>1, <1>2

\* Set changes a pointer, or puts an item that is free in front.
LEMMA SetCallKeeps ==
  ASSUME TableInv, walk = -1, UNCHANGED <<walk, seen>>,
         NEW CONSTANT k \in Keys, NEW CONSTANT d \in Data, Hash!Set(k, d)
  PROVE  TableInv'
<1>1. CASE m_nBuckets = 0
  <2>0. Hash!Lookup(k) = NULL
    BY <1>1 DEF Hash!Lookup
  <2>1. UNCHANGED Hash!table /\ result' = d
    BY <1>1, <2>0 DEF Hash!Set
  <2>2. HashInv'
    BY <2>1, SameKeeps DEF TableInv
  <2> QED BY <2>1, <2>2, CallKeeps
<1>2. CASE m_nBuckets # 0 /\ Hash!Lookup(k) # NULL
  <2>1. PICK i : i = Hash!Lookup(k)
    OBVIOUS
  <2>2. i \in Items /\ key[i] # NULL /\ data[i] \in Data
    BY <1>2, <2>1, PointerType DEF TableInv
  <2>3. /\ result' = data[i] /\ data' = [data EXCEPT ![i] = d]
        /\ UNCHANGED <<m_nBuckets, m_nCount, m_aT, key, pNext, pPrev>>
    BY <1>2, <2>1 DEF Hash!Set
  <2>4. HashInv'
    BY <2>2, <2>3, SetKeeps DEF TableInv
  <2> QED BY <2>2, <2>3, <2>4, CallKeeps
<1>3. CASE m_nBuckets # 0 /\ Hash!Lookup(k) = NULL
  <2>1. result' = NULL /\ \E i \in Items \ Hash!Allocated : Hash!PutFirst(i, k, d)
    BY <1>3 DEF Hash!Set
  <2>2. PICK i \in Items \ Hash!Allocated : Hash!PutFirst(i, k, d)
    BY <2>1
  <2>3. Finds(k, NULL)
    BY <1>3, LookupFinds DEF TableInv
  <2>4. HashInv'
    BY <1>3, <2>2, <2>3, PutFirstKeeps DEF TableInv
  <2> QED BY <2>1, <2>4, CallKeeps
<1> QED BY <1>1, <1>2, <1>3

\* Remove frees the item it finds.
LEMMA RemoveCallKeeps ==
  ASSUME TableInv, walk = -1, UNCHANGED <<walk, seen>>,
         NEW CONSTANT k \in Keys, Hash!Remove(k)
  PROVE  TableInv'
<1>1. CASE Hash!Lookup(k) = NULL
  <2>1. UNCHANGED Hash!table /\ result' = FALSE
    BY <1>1 DEF Hash!Remove
  <2>2. HashInv'
    BY <2>1, SameKeeps DEF TableInv
  <2> QED BY <2>1, <2>2, CallKeeps
<1>2. CASE Hash!Lookup(k) # NULL
  <2>1. PICK i : i = Hash!Lookup(k)
    OBVIOUS
  <2>2. i \in Items /\ key[i] # NULL
    BY <1>2, <2>1, PointerType DEF TableInv
  <2>3. /\ result' = TRUE /\ Hash!Unlinked(i)
        /\ key' = [key EXCEPT ![i] = NULL] /\ data' = [data EXCEPT ![i] = NULL]
        /\ m_nCount' = m_nCount - 1 /\ m_nBuckets' = m_nBuckets
    BY <1>2, <2>1 DEF Hash!Remove
  <2>4. HashInv'
    BY <2>2, <2>3, RemoveKeeps DEF TableInv
  <2> QED BY <2>3, <2>4, CallKeeps
<1> QED BY <1>1, <1>2

\* Resize leaves no item.
LEMMA ResizeKeeps ==
  ASSUME TableInv, walk = -1, UNCHANGED <<walk, seen>>,
         NEW CONSTANT n \in 0..MaxBuckets, Hash!Resize(n)
  PROVE  TableInv'
<1>1. Emptied' /\ result' = NULL
  BY DEF Hash!Resize, Emptied, Hash!Slots
<1>2. HashInv'
  BY <1>1, EmptyKeeps, PTL
<1> QED BY <1>1, <1>2, CallKeeps

\* A step that leaves the table leaves what a walk has seen.
LEMMA StutterKeeps ==
  ASSUME TableInv, UNCHANGED <<Hash!table, result>>,
         \/ UNCHANGED <<walk, seen>>
         \/ walk' = 0 /\ seen' = {}
         \/ walk' = -1 /\ seen' = {}
  PROVE  TableInv'
<1>1. HashInv'
  BY SameKeeps DEF TableInv
<1>2. m_nCount \in Nat /\ m_nCount' = m_nCount
  BY OrderIs, HashConstants DEF TableInv, Hash!table
<1>3. CASE UNCHANGED <<walk, seen>>
  <2>1. (Hash!AllItems)' = Hash!AllItems
    BY AllItemsStay DEF TableInv, Hash!table
  <2>2. (Hash!Order)' = Hash!Order
    BY <2>1 DEF Hash!Order, Hash!table
  <2>3. WalkInv'
    BY <1>2, <1>3, <2>2 DEF TableInv, WalkInv
  <2> QED BY <1>1, <2>3 DEF TableInv
<1>4. CASE walk' = 0 /\ seen' = {}
  <2>1. seen' = {(Hash!Order)'[n] : n \in 1..walk'}
    BY <1>4
  <2>2. WalkInv'
    BY <1>2, <1>4, <2>1 DEF TableInv, WalkInv
  <2> QED BY <1>1, <2>2 DEF TableInv
<1>5. CASE walk' = -1 /\ seen' = {}
  <2>1. WalkInv'
    BY <1>2, <1>5 DEF TableInv, WalkInv
  <2> QED BY <1>1, <2>1 DEF TableInv
<1> QED BY <1>3, <1>4, <1>5

\* Every step of the table keeps the invariant.
LEMMA TableNext == TableInv /\ [Hash!Next]_(Hash!vars) => TableInv'
<1> SUFFICES ASSUME TableInv, [Hash!Next]_(Hash!vars) PROVE TableInv'
  OBVIOUS
<1>1. ASSUME walk = -1, UNCHANGED <<walk, seen>>, NEW CONSTANT k \in Keys,
             \/ Hash!Remove(k)
             \/ \E optimize \in BOOLEAN : Hash!Find(k, optimize)
             \/ \E d \in Data : Hash!Insert(k, d) \/ Hash!Set(k, d)
      PROVE  TableInv'
  BY <1>1, RemoveCallKeeps, FindKeeps, InsertKeeps, SetCallKeeps
<1>2. ASSUME walk = -1, UNCHANGED <<walk, seen>>, NEW CONSTANT n \in 0..MaxBuckets, Hash!Resize(n)
      PROVE  TableInv'
  BY <1>2, ResizeKeeps
<1>3. ASSUME UNCHANGED <<Hash!table, result>>,
             (walk' = 0 /\ seen' = {}) \/ (walk' = -1 /\ seen' = {})
      PROVE  TableInv'
  BY <1>3, StutterKeeps
<1>4. ASSUME NEW CONSTANT optimize \in BOOLEAN, Hash!WalkOn(optimize)
      PROVE  TableInv'
  BY <1>4, WalkOnKeeps
<1>5. CASE UNCHANGED Hash!vars
  BY <1>5, StutterKeeps DEF Hash!vars
<1> QED BY <1>1, <1>2, <1>3, <1>4, <1>5 DEF Hash!Next

\* The table as it is created.
LEMMA TableInit == Hash!Init => TableInv
<1> SUFFICES ASSUME Hash!Init PROVE TableInv
  OBVIOUS
<1>1. Emptied
  BY HashConstants DEF Hash!Init, Emptied
<1>2. HashInv
  BY <1>1, EmptyKeeps
<1>3. WalkInv
  BY DEF Hash!Init, WalkInv
<1> QED BY <1>2, <1>3 DEF TableInv

-----------------------------------------------------------------------------
(* The table is a map.                                                     *)

\* What a search for k answers with.
Pointer(k) == IF Hash!Lookup(k) = NULL THEN NULL ELSE data[Hash!Lookup(k)]

\* The map that the table stands for.
HashMap == [k \in Keys |-> Pointer(k)]

\* x is the pointer of the item with the text k, or NULL where no item has it.
Entry(k, x) ==
  \/ x = NULL /\ \A j \in Items : key[j] # k
  \/ \E j \in Items : key[j] = k /\ data[j] = x

\* The map has what the items hold.
EntriesRight == \A k \in Keys : Entry(k, Pointer(k))

\* The map shows what the items hold.
LEMMA EntriesAre == HashInv => EntriesRight
<1> SUFFICES ASSUME HashInv, NEW k \in Keys PROVE Entry(k, Pointer(k))
  BY DEF EntriesRight
<1>1. Finds(k, Hash!Lookup(k))
  BY LookupFinds
<1>2. NULL \notin Items
  BY HashConstants
<1> QED BY <1>1, <1>2 DEF Finds, Entry, Pointer

\* Where no text and no pointer changes, the map does not change.
LEMMA SameMap ==
  ASSUME HashInv, HashInv', UNCHANGED <<key, data>>
  PROVE  HashMap' = HashMap
<1>1. EntriesRight'
  BY EntriesAre, PTL
<1>2. EntriesRight
  BY EntriesAre
<1>3. ASSUME NEW CONSTANT k \in Keys PROVE Pointer(k)' = Pointer(k)
  <2>1. Entry(k, Pointer(k)) /\ Entry(k, Pointer(k))'
    BY <1>1, <1>2 DEF EntriesRight
  <2>2. k # NULL
    BY HashConstants
  <2> HIDE DEF Pointer
  <2> QED BY <2>1, <2>2 DEF Entry, HashInv, KeysInv
<1> HIDE DEF Pointer
<1> QED BY <1>3 DEF HashMap

\* Where one item changes, the map changes for its key.
LEMMA OneMap ==
  ASSUME HashInv, HashInv', NEW CONSTANT k \in Keys, NEW CONSTANT i \in Items, NEW CONSTANT x,
         \A j \in Items \ {i} : key[j] # k /\ key'[j] = key[j] /\ data'[j] = data[j],
         key[i] = k \/ key[i] = NULL,
         \/ key'[i] = k /\ data'[i] = x
         \/ key'[i] = NULL /\ x = NULL
  PROVE  HashMap' = [HashMap EXCEPT ![k] = x]
<1>1. EntriesRight'
  BY EntriesAre, PTL
<1>2. EntriesRight
  BY EntriesAre
<1>3. ASSUME NEW CONSTANT m \in Keys \ {k} PROVE Pointer(m)' = Pointer(m)
  <2>1. Entry(m, Pointer(m)) /\ Entry(m, Pointer(m))'
    BY <1>1, <1>2 DEF EntriesRight
  <2>2. m # NULL /\ m # k
    BY HashConstants
  <2>3. key[i] # m /\ key'[i] # m
    BY <2>2
  <2>4. \A j \in Items : key[j] = m => j # i /\ key'[j] = m /\ data'[j] = data[j]
    BY <2>3
  <2>5. \A j \in Items : key'[j] = m => j # i /\ key[j] = m /\ data'[j] = data[j]
    BY <2>3
  <2> HIDE DEF Pointer
  <2> QED BY <2>1, <2>2, <2>4, <2>5 DEF Entry, HashInv, KeysInv
<1>4. Pointer(k)' = x
  <2>1. Entry(k, Pointer(k))'
    BY <1>1 DEF EntriesRight
  <2>2. k # NULL
    BY HashConstants
  <2>3. \A j \in Items \ {i} : key'[j] # k
    OBVIOUS
  <2> HIDE DEF Pointer
  <2> QED BY <2>1, <2>2, <2>3 DEF Entry
<1> HIDE DEF Pointer
<1> QED BY <1>3, <1>4 DEF HashMap

\* The pointer of a key is NULL just when the search finds nothing.
LEMMA PointerNull ==
  ASSUME HashInv, NEW k \in Keys
  PROVE  HashMap[k] = Pointer(k) /\ (Pointer(k) = NULL <=> Hash!Lookup(k) = NULL)
<1>1. Hash!Lookup(k) # NULL => data[Hash!Lookup(k)] \in Data
  BY PointerType
<1> QED BY <1>1, HashConstants DEF HashMap, Pointer

\* A new item is a new entry of the map.
LEMMA PutFirstMap ==
  ASSUME HashInv, HashInv', NEW CONSTANT k \in Keys, Hash!Lookup(k) = NULL, NEW CONSTANT x,
         NEW CONSTANT i \in Items \ Hash!Allocated, Hash!PutFirst(i, k, x)
  PROVE  HashMap' = [HashMap EXCEPT ![k] = x]
<1>1. \A j \in Items : key[j] # k
  BY LookupFinds, HashConstants DEF Finds
<1>2. key[i] = NULL
  BY DEF Hash!Allocated
<1>3. key' = [key EXCEPT ![i] = k] /\ data' = [data EXCEPT ![i] = x]
  BY DEF Hash!PutFirst
<1>4. key \in [Items -> Keys \cup {NULL}] /\ data \in [Items -> Data \cup {NULL}]
  BY DEF HashInv, LinksInv, LinksTyped, KeysInv
<1>5. /\ key'[i] = k /\ data'[i] = x
      /\ \A j \in Items \ {i} : key'[j] = key[j] /\ data'[j] = data[j]
  BY <1>3, <1>4
<1> QED BY <1>1, <1>2, <1>5, OneMap

\* The item of a key is the only one.
LEMMA OthersDiffer ==
  ASSUME HashInv, NEW k \in Keys, NEW i \in Items, key[i] = k
  PROVE  \A j \in Items \ {i} : key[j] # k
BY HashConstants DEF HashInv, KeysInv

\* The calls of the table are the calls of the map.
LEMMA FindMaps ==
  ASSUME HashInv, HashInv', NEW CONSTANT k \in Keys, NEW CONSTANT optimize, Hash!Find(k, optimize)
  PROVE  Hash!Map!Find(k)
<1>1. HashMap' = HashMap /\ (m_nBuckets > 0)' = (m_nBuckets > 0)
  <2>1. UNCHANGED <<key, data, m_nBuckets>>
    BY DEF Hash!Find, Hash!Searched
  <2> QED BY <2>1, SameMap
<1>2. result' = HashMap[k]
  BY PointerNull DEF Hash!Find, Pointer
<1> QED BY <1>1, <1>2 DEF Hash!Map!Find, HashMap, Pointer

\* Insert is Insert of the map.
LEMMA InsertMaps ==
  ASSUME HashInv, HashInv', NEW CONSTANT k \in Keys, NEW CONSTANT d \in Data, Hash!Insert(k, d)
  PROVE  Hash!Map!Insert(k, d)
<1>1. m_nBuckets \in Nat
  BY HashConstants DEF HashInv, LinksInv, LinksTyped
<1>2. CASE m_nBuckets = 0 \/ Hash!Lookup(k) # NULL
  <2>1. result' = FALSE /\ Hash!Searched(k, TRUE)
    BY <1>2 DEF Hash!Insert
  <2>2. UNCHANGED <<key, data, m_nBuckets>>
    BY <2>1 DEF Hash!Searched
  <2>3. HashMap' = HashMap /\ (m_nBuckets > 0)' = (m_nBuckets > 0)
    BY <2>2, SameMap
  <2>4. ~(m_nBuckets > 0 /\ HashMap[k] = NULL)
    BY <1>1, <1>2, PointerNull
  <2> QED BY <2>1, <2>3, <2>4 DEF Hash!Map!Insert, HashMap, Pointer
<1>3. CASE ~(m_nBuckets = 0 \/ Hash!Lookup(k) # NULL)
  <2>1. result' = TRUE /\ \E i \in Items \ Hash!Allocated : Hash!PutFirst(i, k, d)
    BY <1>3 DEF Hash!Insert
  <2>2. PICK i \in Items \ Hash!Allocated : Hash!PutFirst(i, k, d)
    BY <2>1
  <2>3. HashMap' = [HashMap EXCEPT ![k] = d]
    BY <1>3, <2>2, PutFirstMap
  <2>4. (m_nBuckets > 0)' = (m_nBuckets > 0)
    BY <2>2 DEF Hash!PutFirst
  <2>5. m_nBuckets > 0 /\ HashMap[k] = NULL
    BY <1>1, <1>3, PointerNull
  <2> QED BY <2>1, <2>3, <2>4, <2>5 DEF Hash!Map!Insert, HashMap, Pointer
<1> QED BY <1>2, <1>3

\* Set is Set of the map.
LEMMA SetMaps ==
  ASSUME HashInv, HashInv', NEW CONSTANT k \in Keys, NEW CONSTANT d \in Data, Hash!Set(k, d)
  PROVE  Hash!Map!Set(k, d)
<1>1. m_nBuckets \in Nat
  BY HashConstants DEF HashInv, LinksInv, LinksTyped
<1>2. CASE m_nBuckets = 0
  <2>1. Hash!Lookup(k) = NULL
    BY <1>2 DEF Hash!Lookup
  <2>2. result' = d /\ UNCHANGED <<key, data, m_nBuckets>>
    BY <1>2, <2>1 DEF Hash!Set, Hash!table
  <2>3. HashMap' = HashMap /\ (m_nBuckets > 0)' = (m_nBuckets > 0)
    BY <2>2, SameMap
  <2> QED BY <1>2, <2>2, <2>3 DEF Hash!Map!Set, HashMap, Pointer
<1>3. CASE m_nBuckets # 0 /\ Hash!Lookup(k) # NULL
  <2>1. PICK i : i = Hash!Lookup(k)
    OBVIOUS
  <2>2. i \in Items /\ key[i] = k
    BY <1>3, <2>1, PointerType
  <2>3. result' = data[i] /\ data' = [data EXCEPT ![i] = d] /\ UNCHANGED <<key, m_nBuckets>>
    BY <1>3, <2>1 DEF Hash!Set
  <2>4. data'[i] = d /\ \A j \in Items \ {i} : key[j] # k /\ key'[j] = key[j] /\ data'[j] = data[j]
    BY <2>2, <2>3, OthersDiffer DEF HashInv, KeysInv
  <2>5. HashMap' = [HashMap EXCEPT ![k] = d]
    BY <2>2, <2>3, <2>4, OneMap
  <2>6. m_nBuckets > 0 /\ HashMap[k] = data[i]
    BY <1>1, <1>3, <2>1, PointerNull DEF Pointer
  <2>7. (m_nBuckets > 0)' = (m_nBuckets > 0)
    BY <2>3
  <2> QED BY <2>3, <2>5, <2>6, <2>7 DEF Hash!Map!Set, HashMap, Pointer
<1>4. CASE m_nBuckets # 0 /\ Hash!Lookup(k) = NULL
  <2>1. result' = NULL /\ \E i \in Items \ Hash!Allocated : Hash!PutFirst(i, k, d)
    BY <1>4 DEF Hash!Set
  <2>2. PICK i \in Items \ Hash!Allocated : Hash!PutFirst(i, k, d)
    BY <2>1
  <2>3. HashMap' = [HashMap EXCEPT ![k] = d]
    BY <1>4, <2>2, PutFirstMap
  <2>4. (m_nBuckets > 0)' = (m_nBuckets > 0)
    BY <2>2 DEF Hash!PutFirst
  <2>5. m_nBuckets > 0 /\ HashMap[k] = NULL
    BY <1>1, <1>4, PointerNull
  <2> QED BY <2>1, <2>3, <2>4, <2>5 DEF Hash!Map!Set, HashMap, Pointer
<1> QED BY <1>2, <1>3, <1>4

\* Remove is Remove of the map.
LEMMA RemoveMaps ==
  ASSUME HashInv, HashInv', NEW CONSTANT k \in Keys, Hash!Remove(k)
  PROVE  Hash!Map!Remove(k)
<1>1. (m_nBuckets > 0)' = (m_nBuckets > 0)
  BY DEF Hash!Remove, Hash!table
<1>2. CASE Hash!Lookup(k) = NULL
  <2>1. result' = FALSE /\ UNCHANGED <<key, data>>
    BY <1>2 DEF Hash!Remove, Hash!table
  <2>2. HashMap' = HashMap
    BY <2>1, SameMap
  <2>3. HashMap[k] = NULL
    BY <1>2, PointerNull
  <2>4. HashMap' = [HashMap EXCEPT ![k] = NULL]
    <3>1. HashMap = [m \in Keys |-> Pointer(m)]
      BY DEF HashMap
    <3> HIDE DEF HashMap, Pointer
    <3> QED BY <2>2, <2>3, <3>1
  <2>5. result' = (HashMap[k] # NULL)
    BY <2>1, <2>3
  <2> QED BY <1>1, <2>4, <2>5 DEF Hash!Map!Remove, HashMap, Pointer
<1>3. CASE Hash!Lookup(k) # NULL
  <2>1. PICK i : i = Hash!Lookup(k)
    OBVIOUS
  <2>2. i \in Items /\ key[i] = k
    BY <1>3, <2>1, PointerType
  <2>3. /\ result' = TRUE /\ key' = [key EXCEPT ![i] = NULL] /\ data' = [data EXCEPT ![i] = NULL]
    BY <1>3, <2>1 DEF Hash!Remove
  <2>4. key \in [Items -> Keys \cup {NULL}] /\ data \in [Items -> Data \cup {NULL}]
    BY DEF HashInv, LinksInv, LinksTyped, KeysInv
  <2>5. /\ key'[i] = NULL
        /\ \A j \in Items \ {i} : key[j] # k /\ key'[j] = key[j] /\ data'[j] = data[j]
    BY <2>2, <2>3, <2>4, OthersDiffer
  <2>6. HashMap' = [HashMap EXCEPT ![k] = NULL]
    BY <2>2, <2>5, OneMap
  <2>7. HashMap[k] # NULL
    BY <1>3, PointerNull
  <2>8. result' = (HashMap[k] # NULL)
    BY <2>3, <2>7
  <2> QED BY <1>1, <2>6, <2>8 DEF Hash!Map!Remove, HashMap, Pointer
<1> QED BY <1>2, <1>3

\* Resize leaves the empty map.
LEMMA ResizeMaps ==
  ASSUME HashInv', NEW CONSTANT n \in 0..MaxBuckets, Hash!Resize(n)
  PROVE  \E b \in {0, 1} : Hash!Map!Resize(b)
<1>1. result' = NULL /\ m_nBuckets' = n /\ key' = [i \in Items |-> NULL]
  BY DEF Hash!Resize
<1>2. EntriesRight'
  BY EntriesAre, PTL
<1>3. ASSUME NEW CONSTANT k \in Keys PROVE Pointer(k)' = NULL
  <2>1. Entry(k, Pointer(k))'
    BY <1>2 DEF EntriesRight
  <2>2. \A j \in Items : key'[j] # k
    BY <1>1, HashConstants
  <2> HIDE DEF Pointer
  <2> QED BY <2>1, <2>2 DEF Entry
<1>4. HashMap' = [k \in Keys |-> NULL]
  <2> HIDE DEF Pointer
  <2> QED BY <1>3 DEF HashMap
<1>5. PICK b \in {0, 1} : (b > 0) = (n > 0)
  <2>1. CASE n > 0
    <3>1. (1 > 0) = (n > 0)
      BY <2>1
    <3> QED BY <3>1
  <2>2. CASE ~(n > 0)
    <3>1. (0 > 0) = (n > 0)
      BY <2>2
    <3> QED BY <3>1
  <2> QED BY <2>1, <2>2
<1>6. (m_nBuckets > 0)' = (b > 0)
  BY <1>1, <1>5
<1>7. Hash!Map!Resize(b)
  BY <1>1, <1>4, <1>6 DEF Hash!Map!Resize, HashMap, Pointer
<1> QED BY <1>7

\* A step of a walk that is no search leaves the map as it is.
LEMMA StutterMaps ==
  ASSUME HashInv, HashInv', UNCHANGED <<Hash!table, result>>
  PROVE  UNCHANGED Hash!Map!vars
<1>1. UNCHANGED <<key, data, m_nBuckets, result>>
  BY DEF Hash!table
<1>2. HashMap' = HashMap /\ (m_nBuckets > 0)' = (m_nBuckets > 0)
  BY <1>1, SameMap
<1> QED BY <1>1, <1>2 DEF Hash!Map!vars, HashMap, Pointer

\* Every step of the table is a step of the map, or one that it does not show.
LEMMA MapNext ==
  TableInv /\ TableInv' /\ [Hash!Next]_(Hash!vars) => [Hash!Map!Next]_(Hash!Map!vars)
<1> SUFFICES ASSUME HashInv, HashInv', TableInv, [Hash!Next]_(Hash!vars)
             PROVE  [Hash!Map!Next]_(Hash!Map!vars)
  BY DEF TableInv
<1>1. ASSUME NEW CONSTANT k \in Keys, Hash!Remove(k) PROVE Hash!Map!Next
  BY <1>1, RemoveMaps DEF Hash!Map!Next
<1>2. ASSUME NEW CONSTANT k \in Keys, NEW CONSTANT optimize, Hash!Find(k, optimize)
      PROVE  Hash!Map!Next
  BY <1>2, FindMaps DEF Hash!Map!Next
<1>3. ASSUME NEW CONSTANT k \in Keys, NEW CONSTANT d \in Data, Hash!Insert(k, d)
      PROVE  Hash!Map!Next
  BY <1>3, InsertMaps DEF Hash!Map!Next
<1>4. ASSUME NEW CONSTANT k \in Keys, NEW CONSTANT d \in Data, Hash!Set(k, d)
      PROVE  Hash!Map!Next
  BY <1>4, SetMaps DEF Hash!Map!Next
<1>5. ASSUME NEW CONSTANT n \in 0..MaxBuckets, Hash!Resize(n) PROVE Hash!Map!Next
  BY <1>5, ResizeMaps DEF Hash!Map!Next
<1>6. ASSUME NEW CONSTANT optimize \in BOOLEAN, Hash!WalkOn(optimize) PROVE Hash!Map!Next
  <2>1. ItemsListed /\ OrderListed /\ m_nCount \in Nat
    BY OrderIs, HashConstants
  <2>2. PICK k : k = Hash!Order[walk + 1]
    OBVIOUS
  <2>3. walk \in 0..(m_nCount - 1) /\ Hash!Find(k, optimize)
    BY <1>6, <2>2 DEF Hash!WalkOn
  <2>4. walk + 1 \in 1..m_nCount
    BY <2>1, <2>3
  <2>5. k \in Keys
    BY <2>1, <2>2, <2>4 DEF ItemsListed, OrderListed
  <2> QED BY <1>2, <2>3, <2>5
<1>7. ASSUME UNCHANGED <<Hash!table, result>> PROVE UNCHANGED Hash!Map!vars
  BY <1>7, StutterMaps
<1>8. CASE UNCHANGED Hash!vars
  BY <1>7, <1>8 DEF Hash!vars
<1>9. CASE Hash!Next
  BY <1>1, <1>2, <1>3, <1>4, <1>5, <1>6, <1>7, <1>9 DEF Hash!Next
<1> QED BY <1>8, <1>9

\* The table begins as the map does.
LEMMA MapInit == Hash!Init => Hash!Map!Init
<1> SUFFICES ASSUME Hash!Init PROVE Hash!Map!Init
  OBVIOUS
<1>1. \A k \in Keys : Pointer(k) = NULL
  BY DEF Hash!Init, Pointer, Hash!Lookup
<1>2. HashMap = [k \in Keys |-> NULL]
  <2> HIDE DEF Pointer
  <2> QED BY <1>1 DEF HashMap
<1>3. (m_nBuckets > 0) = TRUE /\ result = NULL
  BY HashConstants DEF Hash!Init
<1> QED BY <1>2, <1>3 DEF Hash!Map!Init, HashMap, Pointer

-----------------------------------------------------------------------------
(* The theorems.                                                           *)

\* The table's step in a step of a part.
LEMMA HashPart == [PartsNext]_<<part, partVars>> => [Hash!Next]_(Hash!vars)
BY DEF PartsNext, partVars, hashVars, Hash!vars, Hash!table

\* The links back mirror the links on, m_nCount counts the items, and a walk that searches as
\* it goes meets every key, for any number of buckets and items.
THEOREM TableAlwaysIntact == PartsSpec => []TableIntact
<1>1. PartsInit => TableInv
  BY TableInit DEF PartsInit
<1>2. TableInv /\ [PartsNext]_<<part, partVars>> => TableInv'
  BY HashPart, TableNext
<1>3. TableInv => TableIntact
  <2> SUFFICES ASSUME TableInv PROVE TableIntact
    OBVIOUS
  <2>1. Hash!LinksMirror /\ Hash!CountsItems
    BY MirrorHolds, CountIsRight DEF TableInv
  <2>2. ASSUME walk = m_nCount PROVE seen = {key[i] : i \in Hash!Allocated}
    <3>1. DOMAIN Hash!Order = 1..m_nCount /\ m_nCount # -1
      BY OrderIs, HashConstants DEF TableInv, OrderListed
    <3>2. seen = {Hash!Order[n] : n \in 1..m_nCount}
      BY <2>2, <3>1 DEF TableInv, WalkInv
    <3> QED BY <2>1, <3>1, <3>2 DEF Hash!CountsItems
  <2> QED BY <2>1, <2>2 DEF TableIntact, Hash!WalkSeesAll
<1> QED BY <1>1, <1>2, <1>3, PTL DEF PartsSpec

\* The hash table implements the map: each call answers with what the map has, whatever
\* buckets the keys share and whichever items are in front.
THEOREM TableIsMap == PartsSpec => ImplementsMap
<1>1. PartsInit => TableInv /\ Hash!Map!Init
  BY TableInit, MapInit DEF PartsInit
<1>2. TableInv /\ [PartsNext]_<<part, partVars>> => TableInv'
  BY HashPart, TableNext
<1>3. TableInv /\ TableInv' /\ [PartsNext]_<<part, partVars>> => [Hash!Map!Next]_(Hash!Map!vars)
  BY HashPart, MapNext
<1>4. ImplementsMap <=> Hash!Map!Init /\ [][Hash!Map!Next]_(Hash!Map!vars)
  BY DEF ImplementsMap, Hash!ImplementsMap, Hash!Map!Spec
<1> QED BY <1>1, <1>2, <1>3, <1>4, PTL DEF PartsSpec

-----------------------------------------------------------------------------
(* The list and the combo: the types, the indices of the items and the     *)
(* current item are one inductive invariant.  The items are pairwise       *)
(* different because their indices are.                                    *)

\* t is s with e at i, and s without the item at i.
IsInserted(t, s, i, e) ==
  \A k \in 1..(Len(s) + 1) : t[k] = IF k < i THEN s[k] ELSE IF k = i THEN e ELSE s[k - 1]

IsRemoved(t, s, i) == \A k \in 1..(Len(s) - 1) : t[k] = IF k < i THEN s[k] ELSE s[k + 1]

\* InsertAt of the community modules, item by item.
LEMMA InsertAtItems ==
  ASSUME NEW S, NEW s \in Seq(S), NEW i \in 1..(Len(s) + 1), NEW e \in S
  PROVE  /\ InsertAt(s, i, e) \in Seq(S)
         /\ Len(InsertAt(s, i, e)) = Len(s) + 1
         /\ IsInserted(InsertAt(s, i, e), s, i, e)
<1> DEFINE a == SubSeq(s, 1, i - 1)
           b == SubSeq(s, i, Len(s))
           m == <<e>>
<1>1. Len(s) \in Nat /\ \A k \in 1..Len(s) : s[k] \in S
  OBVIOUS
<1>2. a \in Seq(S) /\ Len(a) = i - 1 /\ \A k \in 1..(i - 1) : a[k] = s[k]
  BY <1>1, SubSeqProperties
<1>3. b \in Seq(S) /\ Len(b) = Len(s) - i + 1 /\ \A k \in 1..(Len(s) - i + 1) : b[k] = s[i + k - 1]
  BY <1>1, SubSeqProperties
<1>4. m \in Seq(S) /\ Len(m) = 1 /\ m[1] = e
  <2>1. m = [k \in 1..1 |-> e]
    OBVIOUS
  <2>2. m = Append(<<>>, e)
    OBVIOUS
  <2> QED BY <2>2, EmptySeq, AppendProperties
<1>5. InsertAt(s, i, e) = (a \o m) \o b
  BY DEF InsertAt
<1> HIDE DEF a, b, m
<1>6. /\ a \o m \in Seq(S) /\ Len(a \o m) = i
      /\ \A k \in 1..i : (a \o m)[k] = IF k < i THEN s[k] ELSE e
  <2>1. /\ a \o m \in Seq(S) /\ Len(a \o m) = Len(a) + Len(m)
        /\ \A k \in 1..(Len(a) + Len(m)) :
             (a \o m)[k] = IF k <= Len(a) THEN a[k] ELSE m[k - Len(a)]
    BY <1>2, <1>4, ConcatProperties
  <2> QED BY <2>1, <1>1, <1>2, <1>4
<1> DEFINE c == a \o m
<1> HIDE DEF c
<1>7. /\ c \in Seq(S) /\ Len(c) = i
      /\ \A k \in 1..i : c[k] = IF k < i THEN s[k] ELSE e
  BY <1>6 DEF c
<1> DEFINE d == c \o b
<1>8. /\ d \in Seq(S) /\ Len(d) = Len(s) + 1
      /\ \A k \in 1..(Len(s) + 1) : d[k] = IF k <= i THEN c[k] ELSE b[k - i]
  <2>1. /\ d \in Seq(S) /\ Len(d) = Len(c) + Len(b)
        /\ \A k \in 1..(Len(c) + Len(b)) :
             d[k] = IF k <= Len(c) THEN c[k] ELSE b[k - Len(c)]
    BY <1>3, <1>7, ConcatProperties
  <2> QED BY <2>1, <1>1, <1>3, <1>7
<1> HIDE DEF d
<1>9. \A k \in 1..(Len(s) + 1) :
        d[k] = IF k < i THEN s[k] ELSE IF k = i THEN e ELSE s[k - 1]
  <2> SUFFICES ASSUME NEW k \in 1..(Len(s) + 1)
               PROVE  d[k] = IF k < i THEN s[k] ELSE IF k = i THEN e ELSE s[k - 1]
    OBVIOUS
  <2>1. CASE k <= i
    BY <2>1, <1>1, <1>7, <1>8
  <2>2. CASE k > i
    <3>1. k - i \in 1..(Len(s) - i + 1) /\ i + (k - i) - 1 = k - 1
      BY <2>2, <1>1
    <3> QED BY <3>1, <1>1, <1>3, <1>8, <2>2
  <2> QED BY <2>1, <2>2, <1>1
<1> QED BY <1>5, <1>8, <1>9 DEF c, d, IsInserted

\* RemoveAt of the community modules, item by item.
LEMMA RemoveAtItems ==
  ASSUME NEW S, NEW s \in Seq(S), NEW i \in 1..Len(s)
  PROVE  /\ RemoveAt(s, i) \in Seq(S)
         /\ Len(RemoveAt(s, i)) = Len(s) - 1
         /\ IsRemoved(RemoveAt(s, i), s, i)
<1> DEFINE a == SubSeq(s, 1, i - 1)
           b == SubSeq(s, i + 1, Len(s))
<1>1. Len(s) \in Nat /\ \A k \in 1..Len(s) : s[k] \in S
  OBVIOUS
<1>2. a \in Seq(S) /\ Len(a) = i - 1 /\ \A k \in 1..(i - 1) : a[k] = s[k]
  BY <1>1, SubSeqProperties
<1>3. b \in Seq(S) /\ Len(b) = Len(s) - i /\ \A k \in 1..(Len(s) - i) : b[k] = s[i + k]
  <2>1. \A k \in (i + 1)..Len(s) : s[k] \in S
    BY <1>1
  <2>2. /\ b \in Seq(S)
        /\ Len(b) = IF i + 1 <= Len(s) THEN Len(s) - (i + 1) + 1 ELSE 0
        /\ \A k \in 1..(Len(s) - (i + 1) + 1) : b[k] = s[i + 1 + k - 1]
    BY <2>1, <1>1, SubSeqProperties
  <2> QED BY <2>2, <1>1
<1>4. RemoveAt(s, i) = a \o b
  BY DEF RemoveAt
<1> HIDE DEF a, b
<1> DEFINE d == a \o b
<1>5. /\ d \in Seq(S) /\ Len(d) = Len(s) - 1
      /\ \A k \in 1..(Len(s) - 1) : d[k] = IF k <= i - 1 THEN a[k] ELSE b[k - (i - 1)]
  <2>1. /\ d \in Seq(S) /\ Len(d) = Len(a) + Len(b)
        /\ \A k \in 1..(Len(a) + Len(b)) :
             d[k] = IF k <= Len(a) THEN a[k] ELSE b[k - Len(a)]
    BY <1>2, <1>3, ConcatProperties
  <2> QED BY <2>1, <1>1, <1>2, <1>3
<1> HIDE DEF d
<1>6. \A k \in 1..(Len(s) - 1) : d[k] = IF k < i THEN s[k] ELSE s[k + 1]
  <2> SUFFICES ASSUME NEW k \in 1..(Len(s) - 1)
               PROVE  d[k] = IF k < i THEN s[k] ELSE s[k + 1]
    OBVIOUS
  <2>1. CASE k < i
    BY <2>1, <1>1, <1>2, <1>5, SMTT(40)
  <2>2. CASE k >= i
    <3>1. k - (i - 1) \in 1..(Len(s) - i) /\ i + (k - (i - 1)) = k + 1
      BY <2>2, <1>1
    <3>2. ~(k <= i - 1)
      BY <1>1, <2>2
    <3>3. d[k] = b[k - (i - 1)]
      BY <1>5, <3>2
    <3>4. b[k - (i - 1)] = s[i + (k - (i - 1))]
      BY <3>1, <1>3
    <3> QED BY <3>1, <3>3, <3>4, <2>2
  <2> QED BY <2>1, <2>2, <1>1
<1> QED BY <1>4, <1>5, <1>6 DEF d, IsRemoved

\* Items that are pairwise different, in one sequence.
Different(items) ==
  \A j, k \in 1..Len(items) : items[j] = items[k] => j = k

\* An insertion of something new keeps the items different and the others where
\* they were, or one further.
LEMMA Inserted ==
  ASSUME NEW S, NEW s \in Seq(S), Different(s), NEW i \in 1..(Len(s) + 1),
         NEW e \in S, \A k \in 1..Len(s) : s[k] # e,
         NEW t, t = InsertAt(s, i, e)
  PROVE  /\ t \in Seq(S) /\ Len(t) = Len(s) + 1 /\ Different(t)
         /\ \A k \in 1..(i - 1) : t[k] = s[k]
         /\ \A k \in i..Len(s) : t[k + 1] = s[k]
         /\ t[i] = e
<1>1. /\ t \in Seq(S) /\ Len(t) = Len(s) + 1
      /\ \A k \in 1..(Len(s) + 1) :
           t[k] = IF k < i THEN s[k] ELSE IF k = i THEN e ELSE s[k - 1]
  <2>1. InsertAt(s, i, e) \in Seq(S) /\ Len(InsertAt(s, i, e)) = Len(s) + 1
    BY InsertAtItems
  <2>2. IsInserted(InsertAt(s, i, e), s, i, e)
    BY InsertAtItems
  <2> QED BY <2>1, <2>2 DEF IsInserted
<1>2. Len(s) \in Nat
  OBVIOUS
<1>3. ASSUME NEW j \in 1..(Len(s) + 1), NEW k \in 1..(Len(s) + 1), j < k
      PROVE  t[j] # t[k]
  <2> DEFINE p(l) == IF l < i THEN l ELSE l - 1
  <2>1. ASSUME NEW l \in 1..(Len(s) + 1), l # i
        PROVE  p(l) \in 1..Len(s) /\ t[l] = s[p(l)]
    <3>1. CASE l < i
      BY <3>1, <1>1, <1>2
    <3>2. CASE l > i
      <4>1. ~(l < i) /\ l - 1 \in 1..Len(s)
        BY <3>2, <1>2
      <4> QED BY <4>1, <2>1, <1>1
    <3> QED BY <3>1, <3>2, <2>1, <1>2
  <2>2. t[i] = e
    BY <1>1, <1>2
  <2>3. CASE j = i \/ k = i
    BY <2>1, <2>2, <2>3, <1>3, <1>2
  <2>4. CASE j # i /\ k # i
    <3>1. p(j) # p(k)
      BY <2>4, <1>2, <1>3
    <3> QED BY <3>1, <2>1, <2>4 DEF Different
  <2> QED BY <2>3, <2>4
<1>4. Different(t)
  <2> SUFFICES ASSUME NEW j \in 1..(Len(s) + 1), NEW k \in 1..(Len(s) + 1), j # k
               PROVE  t[j] # t[k]
    BY <1>1 DEF Different
  <2> QED BY <1>2, <1>3
<1>5. \A k \in 1..(i - 1) : t[k] = s[k]
  BY <1>1, <1>2
<1>6. ASSUME NEW k \in i..Len(s) PROVE t[k + 1] = s[k]
  <2>1. k + 1 \in 1..(Len(s) + 1) /\ ~(k + 1 < i) /\ k + 1 # i /\ (k + 1) - 1 = k
    BY <1>2
  <2> QED BY <2>1, <1>1
<1>7. t[i] = e
  BY <1>1, <1>2
<1> QED BY <1>1, <1>4, <1>5, <1>6, <1>7

\* The first n items of t are not x.
Lacks(t, x, n) == \A k \in 1..n : t[k] # x

\* A removal keeps the other items, where they were or one before.
LEMMA Removed ==
  ASSUME NEW S, NEW s \in Seq(S), Different(s), NEW i \in 1..Len(s),
         NEW t, t = RemoveAt(s, i)
  PROVE  /\ t \in Seq(S) /\ Len(t) = Len(s) - 1 /\ Different(t)
         /\ \A k \in 1..(i - 1) : t[k] = s[k]
         /\ \A k \in (i + 1)..Len(s) : t[k - 1] = s[k]
         /\ Lacks(t, s[i], Len(s) - 1)
<1>1. /\ t \in Seq(S) /\ Len(t) = Len(s) - 1
      /\ \A k \in 1..(Len(s) - 1) : t[k] = IF k < i THEN s[k] ELSE s[k + 1]
  <2>1. t \in Seq(S) /\ Len(t) = Len(s) - 1 /\ IsRemoved(t, s, i)
    BY RemoveAtItems
  <2> QED BY ONLY <2>1 DEF IsRemoved
<1>2. Len(s) \in Nat
  OBVIOUS
<1> DEFINE p(l) == IF l < i THEN l ELSE l + 1
<1>3. ASSUME NEW l \in 1..(Len(s) - 1)
      PROVE  p(l) \in 1..Len(s) /\ p(l) # i /\ t[l] = s[p(l)]
  <2>1. p(l) \in 1..Len(s) /\ p(l) # i
    BY <1>2
  <2>2. t[l] = s[p(l)]
    BY <1>1
  <2> QED BY <2>1, <2>2
<1>4. ASSUME NEW j \in 1..(Len(s) - 1), NEW k \in 1..(Len(s) - 1), t[j] = t[k]
      PROVE  j = k
  <2>1. p(j) = p(k)
    BY <1>3, <1>4 DEF Different
  <2> QED BY <2>1, <1>2
<1>5. Different(t)
  BY <1>1, <1>4 DEF Different
<1>6. \A k \in 1..(i - 1) : t[k] = s[k]
  BY <1>1, <1>2
<1>7. ASSUME NEW k \in (i + 1)..Len(s) PROVE t[k - 1] = s[k]
  <2>1. k - 1 \in 1..(Len(s) - 1) /\ ~(k - 1 < i) /\ (k - 1) + 1 = k
    BY <1>2
  <2> QED BY <2>1, <1>1
<1>8. \A k \in 1..(Len(s) - 1) : t[k] # s[i]
  BY <1>3 DEF Different
<1> QED BY <1>1, <1>5, <1>6, <1>7, <1>8 DEF Lacks

\* What a move from p to q leaves in place, and that it loses nothing.
Rest(s, t, p, q) ==
  /\ \A k \in 1..Len(s) : (k < p /\ k < q) \/ (k > p /\ k > q) => t[k] = s[k]
  /\ \A k \in 1..Len(s) : \E l \in 1..Len(s) : t[l] = s[k]

\* A move keeps all items, and those outside the two places where they were.
LEMMA Moved ==
  ASSUME NEW s \in Seq(Elements), Different(s), NEW p \in 1..Len(s), NEW q \in 1..Len(s),
         NEW t, t = InsertAt(RemoveAt(s, p), q, s[p])
  PROVE  t \in Seq(Elements) /\ Len(t) = Len(s) /\ Different(t) /\ Rest(s, t, p, q)
<1> DEFINE r == RemoveAt(s, p)
<1>1. Len(s) \in Nat /\ s[p] \in Elements
  OBVIOUS
<1>2. /\ r \in Seq(Elements) /\ Len(r) = Len(s) - 1 /\ Different(r)
      /\ \A k \in 1..(p - 1) : r[k] = s[k]
      /\ \A k \in (p + 1)..Len(s) : r[k - 1] = s[k]
      /\ \A k \in 1..(Len(s) - 1) : r[k] # s[p]
  <2>1. /\ r \in Seq(Elements) /\ Len(r) = Len(s) - 1 /\ Different(r)
        /\ \A k \in 1..(p - 1) : r[k] = s[k]
        /\ \A k \in (p + 1)..Len(s) : r[k - 1] = s[k]
        /\ Lacks(r, s[p], Len(s) - 1)
    BY Removed
  <2> QED BY <2>1 DEF Lacks
<1> HIDE DEF r
<1>3. t = InsertAt(r, q, s[p])
  BY DEF r
<1>4. /\ t \in Seq(Elements) /\ Len(t) = Len(r) + 1 /\ Different(t)
      /\ \A k \in 1..(q - 1) : t[k] = r[k]
      /\ \A k \in q..Len(r) : t[k + 1] = r[k]
      /\ t[q] = s[p]
  <2> DEFINE e == s[p]
  <2>1. q \in 1..(Len(r) + 1)
    BY <1>1, <1>2
  <2>2. \A k \in 1..Len(r) : r[k] # e
    BY <1>1, <1>2
  <2>3. e \in Elements /\ t = InsertAt(r, q, e)
    BY <1>1, <1>3
  <2>4. r \in Seq(Elements) /\ Different(r)
    BY <1>2
  <2> HIDE DEF e
  <2>5. /\ t \in Seq(Elements) /\ Len(t) = Len(r) + 1 /\ Different(t)
        /\ \A k \in 1..(q - 1) : t[k] = r[k]
        /\ \A k \in q..Len(r) : t[k + 1] = r[k]
        /\ t[q] = e
    BY ONLY <2>1, <2>2, <2>3, <2>4, Inserted
  <2> QED BY <2>5 DEF e
<1>5. Len(t) = Len(s)
  BY <1>1, <1>2, <1>4
<1>6. ASSUME NEW k \in 1..Len(s), k < p, k < q PROVE t[k] = s[k]
  BY <1>1, <1>2, <1>4, <1>6
<1>7. ASSUME NEW k \in 1..Len(s), k > p, k > q PROVE t[k] = s[k]
  <2>1. k - 1 \in q..Len(r) /\ (k - 1) + 1 = k
    BY <1>1, <1>2, <1>7
  <2>2. r[k - 1] = s[k]
    BY <1>1, <1>2, <1>7
  <2> QED BY <2>1, <2>2, <1>4
<1>8. ASSUME NEW l \in 1..Len(r) PROVE \E m \in 1..Len(s) : t[m] = r[l]
  <2>1. CASE l < q
    <3>1. l \in 1..Len(s) /\ l \in 1..(q - 1)
      BY <2>1, <1>1, <1>2
    <3>2. t[l] = r[l]
      BY <3>1, <1>4
    <3> QED BY <3>1, <3>2
  <2>2. CASE l >= q
    <3>1. l + 1 \in 1..Len(s) /\ t[l + 1] = r[l]
      BY <2>2, <1>1, <1>2, <1>4
    <3> QED BY <3>1
  <2> QED BY <2>1, <2>2, <1>1, <1>2
<1>9. ASSUME NEW k \in 1..Len(s) PROVE \E m \in 1..Len(s) : t[m] = s[k]
  <2>1. CASE k = p
    BY <2>1, <1>4
  <2>2. CASE k < p
    <3>1. k \in 1..Len(r) /\ r[k] = s[k]
      BY <2>2, <1>1, <1>2
    <3> QED BY <3>1, <1>8
  <2>3. CASE k > p
    <3>1. k - 1 \in 1..Len(r) /\ r[k - 1] = s[k]
      BY <2>3, <1>1, <1>2
    <3> QED BY <3>1, <1>8
  <2> QED BY <2>1, <2>2, <2>3, <1>1
<1> QED BY <1>4, <1>5, <1>6, <1>7, <1>9 DEF Rest

\* Numbered gives the items it walks over their index, and leaves the others.
LEMMA NumberedItems ==
  ASSUME NEW items \in Seq(Elements), Different(items),
         m_iIndex \in [Elements -> Int],
         NEW p \in Nat, NEW q \in Int, q < Len(items)
  PROVE  /\ Numbered(items, p, q) \in [Elements -> Int]
         /\ \A k \in 1..Len(items) :
              Numbered(items, p, q)[items[k]]
                = IF k - 1 \in p..q THEN k - 1 ELSE m_iIndex[items[k]]
<1> DEFINE At(e, i) == i \in p..q /\ items[i + 1] = e
<1>1. Len(items) \in Nat /\ \A k \in 1..Len(items) : items[k] \in Elements
  OBVIOUS
<1>2. ASSUME NEW i \in p..q PROVE i + 1 \in 1..Len(items)
  BY <1>1
<1>3. ASSUME NEW e \in Elements, NEW i \in p..q, items[i + 1] = e
      PROVE  (CHOOSE j \in p..q : items[j + 1] = e) = i
  <2>1. \A j \in p..q : items[j + 1] = e => j = i
    BY <1>2, <1>3 DEF Different
  <2>2. \E j \in p..q : items[j + 1] = e
    BY <1>3
  <2>3. LET c == CHOOSE j \in p..q : items[j + 1] = e
        IN c \in p..q /\ items[c + 1] = e
    BY <2>2, Zenon
  <2> QED BY <2>1, <2>3
<1>4. ASSUME NEW e \in Elements PROVE Numbered(items, p, q)[e] \in Int
  <2>1. CASE \E i \in p..q : items[i + 1] = e
    <3>1. PICK i \in p..q : items[i + 1] = e
      BY <2>1
    <3>2. Numbered(items, p, q)[e] = i
      BY <2>1, <3>1, <1>3 DEF Numbered
    <3> QED BY <3>2
  <2>2. CASE ~ \E i \in p..q : items[i + 1] = e
    BY <2>2 DEF Numbered
  <2> QED BY <2>1, <2>2
<1>5. Numbered(items, p, q) \in [Elements -> Int]
  BY <1>4 DEF Numbered
<1>6. ASSUME NEW k \in 1..Len(items)
      PROVE  Numbered(items, p, q)[items[k]]
               = IF k - 1 \in p..q THEN k - 1 ELSE m_iIndex[items[k]]
  <2>1. CASE k - 1 \in p..q
    <3>1. items[(k - 1) + 1] = items[k] /\ items[k] \in Elements
      BY <1>1
    <3>2. (CHOOSE j \in p..q : items[j + 1] = items[k]) = k - 1
      BY <2>1, <3>1, <1>3
    <3> QED BY <2>1, <3>1, <3>2 DEF Numbered
  <2>2. CASE k - 1 \notin p..q
    <3>1. ~ \E i \in p..q : items[i + 1] = items[k]
      <4> SUFFICES ASSUME NEW i \in p..q, items[i + 1] = items[k] PROVE FALSE
        OBVIOUS
      <4>1. i + 1 = k
        BY <1>2 DEF Different
      <4> QED BY <4>1, <2>2
    <3> QED BY <2>2, <3>1, <1>1 DEF Numbered
  <2> QED BY <2>1, <2>2
<1> QED BY <1>5, <1>6

\* One index replaced by another integer.
LEMMA ExceptIndex ==
  ASSUME NEW f \in [Elements -> Int], NEW x, NEW v \in Int
  PROVE  [f EXCEPT ![x] = v] \in [Elements -> Int]
OBVIOUS

\* SelectItem: nothing is current, or an item of the list that is selected.
LEMMA SelectItemCurrent ==
  ASSUME NEW items \in Seq(Elements), NEW i,
         NEW S, \A k \in 1..Len(items) : items[k] \in S,
         NEW sel, sel \subseteq S, NEW cur \in -1..(Len(items) - 1),
         cur >= 0 => items[cur + 1] \in sel,
         Selects(i, items, sel, cur)
  PROVE  /\ m_bSelected' \subseteq S
         /\ m_iCurSel' \in -1..(Len(items) - 1)
         /\ m_iCurSel' >= 0 => items[m_iCurSel' + 1] \in m_bSelected'
<1> DEFINE j == Target(items, i)
<1>1. Len(items) \in Nat
  OBVIOUS
<1>2. j \in -1..(Len(items) - 1)
  BY <1>1 DEF Target
<1> HIDE DEF j
<1>3. CASE i = cur
  BY <1>3 DEF Selects, SelectItem
<1>4. CASE i # cur
  <2>1. /\ m_bSelected' = IF j = -1 THEN Unselected(items, sel, cur)
                          ELSE Unselected(items, sel, cur) \cup {items[j + 1]}
        /\ m_iCurSel' = j
    BY <1>4 DEF Selects, SelectItem, j
  <2>2. Unselected(items, sel, cur) \subseteq S
    BY DEF Unselected
  <2>3. j # -1 => j + 1 \in 1..Len(items)
    BY <1>1, <1>2
  <2> QED BY <1>2, <2>1, <2>2, <2>3
<1> QED BY <1>3, <1>4

\* SelectItem(-1): nothing is current and nothing new is selected.
LEMMA SelectNone ==
  ASSUME NEW items, NEW sel, NEW cur \in Int, cur >= -1, Selects(-1, items, sel, cur)
  PROVE  m_bSelected' \subseteq sel /\ m_iCurSel' = -1
<1>1. Target(items, -1) = -1
  BY DEF Target
<1>2. Unselected(items, sel, cur) \subseteq sel
  BY DEF Unselected
<1>3. CASE cur = -1
  BY <1>3 DEF Selects, SelectItem
<1>4. CASE cur # -1
  BY <1>1, <1>2, <1>4 DEF Selects, SelectItem
<1> QED BY <1>3, <1>4

ListInv == TypeOK /\ Different(m_items) /\ IndicesFollow /\ CurrentIsSelected

\* What the invariant says in terms of positions, while no item was lost.
LEMMA ListFacts ==
  ASSUME ListInv, ~lost
  PROVE  /\ m_items \in Seq(Elements) /\ Len(m_items) \in Nat
         /\ DOMAIN m_items = 1..Len(m_items)
         /\ \A k \in 1..Len(m_items) : m_items[k] \in In /\ m_items[k] \in Elements
         /\ \A k \in 1..Len(m_items) : m_iIndex[m_items[k]] = k - 1
         /\ Different(m_items)
         /\ m_iIndex \in [Elements -> Int] /\ m_bSelected \subseteq Elements
         /\ m_iCurSel \in -1..(Len(m_items) - 1)
         /\ m_iCurSel >= 0 => m_iCurSel + 1 \in 1..Len(m_items)
                              /\ m_items[m_iCurSel + 1] \in m_bSelected
                              /\ Current = m_items[m_iCurSel + 1]
         /\ m_iCurSel < 0 => Current = NULL
<1>1. m_items \in Seq(Elements) /\ Len(m_items) \in Nat /\ DOMAIN m_items = 1..Len(m_items)
  BY DEF ListInv, TypeOK
<1>2. \A k \in 1..Len(m_items) : m_iIndex[m_items[k]] = k - 1
  BY <1>1 DEF ListInv, IndicesFollow
<1>3. Different(m_items)
  BY DEF ListInv
<1>4. \A k \in 1..Len(m_items) : m_items[k] \in In /\ m_items[k] \in Elements
  BY <1>1 DEF In
<1>5. m_iCurSel \in -1..(Len(m_items) - 1)
  <2>1. m_iCurSel \in -1..Len(m_items) /\ m_iCurSel < Len(m_items)
    BY DEF ListInv, TypeOK
  <2> QED BY <2>1, <1>1
<1>6. m_iCurSel < 0 => Current = NULL
  BY <1>5 DEF Current, Positions
<1>7. ASSUME m_iCurSel >= 0
      PROVE  /\ m_iCurSel + 1 \in 1..Len(m_items) /\ Current = m_items[m_iCurSel + 1]
             /\ m_items[m_iCurSel + 1] \in m_bSelected
  <2>1. m_iCurSel \in Positions /\ m_iCurSel + 1 \in 1..Len(m_items)
    BY <1>1, <1>5, <1>7 DEF Positions
  <2>2. Current = m_items[m_iCurSel + 1]
    BY <2>1 DEF Current
  <2>3. Current \in m_bSelected
    BY <1>7 DEF ListInv, CurrentIsSelected
  <2> QED BY <2>1, <2>2, <2>3
<1>8. m_iIndex \in [Elements -> Int] /\ m_bSelected \subseteq Elements
  BY DEF ListInv, TypeOK
<1> QED BY <1>1, <1>2, <1>3, <1>4, <1>5, <1>6, <1>7, <1>8

\* A step that says nothing of it loses no item.
LEMMA StillNotLost ==
  ASSUME ListInv, ~lost, lost' = lost
  PROVE  lost' = FALSE
<1>1. lost \in BOOLEAN
  BY DEF ListInv, TypeOK
<1> QED BY <1>1, Zenon

\* The invariant from its parts after a step, and what is current then.
LEMMA ListInvNext ==
  ASSUME ListInv, lost' = FALSE,
         m_items' \in Seq(Elements), m_iIndex' \in [Elements -> Int],
         \A k \in 1..Len(m_items') : m_iIndex'[m_items'[k]] = k - 1,
         m_bSelected' \subseteq Elements,
         m_iCurSel' \in -1..(Len(m_items') - 1),
         m_iCurSel' >= 0 => m_items'[m_iCurSel' + 1] \in m_bSelected',
         isCombo' = isCombo, m_bEnabled' \subseteq Elements, m_bVisible' \subseteq Elements
  PROVE  /\ ListInv'
         /\ m_iCurSel' >= 0 => Current' = m_items'[m_iCurSel' + 1]
         /\ m_iCurSel' < 0 => Current' = NULL
<1>1. DOMAIN m_items' = 1..Len(m_items') /\ Len(m_items') \in Nat
  OBVIOUS
<1>2. TypeOK'
  <2>1. m_iCurSel' \in -1..Len(m_items') /\ m_iCurSel' < Len(m_items')
    BY <1>1
  <2>2. lost' \in BOOLEAN /\ isCombo' \in BOOLEAN
    <3>1. isCombo \in BOOLEAN
      BY DEF ListInv, TypeOK
    <3> QED BY <3>1, Zenon
  <2> QED BY <2>1, <2>2 DEF TypeOK
<1>3. Different(m_items)'
  <2> SUFFICES ASSUME NEW j \in 1..Len(m_items'), NEW k \in 1..Len(m_items'),
                      m_items'[j] = m_items'[k]
               PROVE  j = k
    BY DEF Different
  <2>1. j - 1 = k - 1
    OBVIOUS
  <2> QED BY <2>1, <1>1
<1>4. IndicesFollow'
  BY <1>1 DEF IndicesFollow
<1>5. ASSUME m_iCurSel' >= 0 PROVE Current' = m_items'[m_iCurSel' + 1]
  <2>1. (m_iCurSel \in Positions)'
    BY <1>1, <1>5 DEF Positions
  <2> QED BY <2>1 DEF Current
<1>6. m_iCurSel' < 0 => Current' = NULL
  BY DEF Current, Positions
<1>7. CurrentIsSelected'
  BY <1>5 DEF CurrentIsSelected
<1> QED BY <1>2, <1>3, <1>4, <1>5, <1>6, <1>7 DEF ListInv

\* An insertion keeps the invariant, and the current item.
LEMMA AddAtKeeps ==
  ASSUME ListInv, ~lost, NEW e \in Elements, NEW i \in 0..Len(m_items), AddAt(e, i)
  PROVE  /\ ListInv'
         /\ m_iCurSel >= 0 => Current' = m_items[m_iCurSel + 1]
<1> DEFINE n == Len(m_items)
           t == m_items'
<1>0. n \in Nat
  BY ListFacts
<1>1. /\ t \in Seq(Elements) /\ Len(t) = n + 1 /\ Different(t)
      /\ \A k \in 1..i : t[k] = m_items[k]
      /\ \A k \in (i + 1)..n : t[k + 1] = m_items[k]
      /\ t[i + 1] = e
  <2>1. i + 1 \in 1..(n + 1) /\ (i + 1) - 1 = i
    BY <1>0
  <2>2. t = InsertAt(m_items, i + 1, e)
    BY DEF AddAt
  <2>3. \A k \in 1..n : m_items[k] # e
    BY ListFacts DEF AddAt
  <2>4. m_items \in Seq(Elements) /\ Different(m_items)
    BY ListFacts
  <2> HIDE DEF t
  <2> QED BY <2>1, <2>2, <2>3, <2>4, Inserted, SMTT(40)
<1>2. /\ m_iIndex' \in [Elements -> Int]
      /\ \A k \in 1..(n + 1) :
           m_iIndex'[t[k]] = IF k - 1 \in i..n THEN k - 1 ELSE m_iIndex[t[k]]
  <2>1. m_iIndex' = Numbered(t, i, n)
    BY DEF AddAt
  <2>2. m_iIndex \in [Elements -> Int]
    BY ListFacts
  <2>3. t \in Seq(Elements)
    BY <1>1
  <2>4. Different(t)
    BY <1>1
  <2>5. i \in Nat
    BY <1>0
  <2>6. n \in Int /\ n < Len(t)
    BY <1>0, <1>1
  <2> HIDE DEF t, n
  <2>7. /\ Numbered(t, i, n) \in [Elements -> Int]
        /\ \A k \in 1..Len(t) :
             Numbered(t, i, n)[t[k]] = IF k - 1 \in i..n THEN k - 1 ELSE m_iIndex[t[k]]
    BY ONLY <2>2, <2>3, <2>4, <2>5, <2>6, NumberedItems
  <2>8. Len(t) = n + 1
    BY <1>1
  <2> QED BY <2>1, <2>7, <2>8
<1> HIDE DEF t
<1>3. \A k \in 1..(n + 1) : m_iIndex'[t[k]] = k - 1
  <2> SUFFICES ASSUME NEW k \in 1..(n + 1), k - 1 \notin i..n
               PROVE  m_iIndex'[t[k]] = k - 1
    BY <1>2
  <2>1. k \in 1..i /\ k \in 1..n
    BY <1>0
  <2>2. m_iIndex[m_items[k]] = k - 1
    BY <2>1, ListFacts
  <2> QED BY <1>1, <1>2, <2>1, <2>2
<1>5. m_bSelected' \subseteq Elements
  BY ListFacts DEF AddAt
<1>6. /\ m_iCurSel' \in -1..n /\ m_bSelected' = m_bSelected
      /\ m_iCurSel' >= 0 => t[m_iCurSel' + 1] \in m_bSelected
      /\ m_iCurSel >= 0 => m_iCurSel' >= 0 /\ t[m_iCurSel' + 1] = m_items[m_iCurSel + 1]
  <2>1. m_iCurSel' = (IF m_iCurSel >= i THEN m_iCurSel + 1 ELSE m_iCurSel)
        /\ m_bSelected' = m_bSelected
    BY DEF AddAt
  <2>2. /\ m_iCurSel \in -1..(n - 1)
        /\ m_iCurSel >= 0 => m_items[m_iCurSel + 1] \in m_bSelected
    BY ListFacts
  <2>3. CASE m_iCurSel >= i
    <3>1. m_iCurSel + 1 \in (i + 1)..n
      BY <2>2, <2>3, <1>0
    <3>2. t[(m_iCurSel + 1) + 1] = m_items[m_iCurSel + 1]
      BY <3>1, <1>1
    <3> QED BY <3>1, <3>2, <2>1, <2>2, <2>3, <1>0
  <2>4. CASE m_iCurSel < i /\ m_iCurSel >= 0
    <3>1. m_iCurSel + 1 \in 1..i
      BY <2>2, <2>4, <1>0
    <3>2. t[m_iCurSel + 1] = m_items[m_iCurSel + 1]
      BY <3>1, <1>1
    <3> QED BY <3>2, <2>1, <2>2, <2>4, <1>0
  <2>5. CASE m_iCurSel = -1
    BY <2>1, <2>2, <2>5, <1>0
  <2> QED BY <2>2, <2>3, <2>4, <2>5, <1>0
<1>7. /\ isCombo' = isCombo /\ m_bEnabled' \subseteq Elements /\ m_bVisible' \subseteq Elements
      /\ lost' = FALSE
  <2>1. lost' = lost
    BY DEF AddAt
  <2>2. isCombo' = isCombo /\ m_bEnabled' \subseteq Elements /\ m_bVisible' \subseteq Elements
    BY DEF AddAt, ListInv, TypeOK
  <2> QED BY <2>1, <2>2, StillNotLost
<1>8. ListInv' /\ (m_iCurSel' >= 0 => Current' = t[m_iCurSel' + 1])
  <2>1. m_iCurSel' \in -1..(Len(m_items') - 1)
    BY <1>0, <1>1, <1>6 DEF t
  <2> QED BY <2>1, <1>1, <1>2, <1>3, <1>5, <1>6, <1>7, ListInvNext DEF t
<1> QED BY <1>6, <1>8 DEF t

\* A removal keeps the invariant, and the current item if it is another one.
LEMMA RemoveItemKeeps ==
  ASSUME ListInv, ~lost, NEW p \in Positions, RemoveItem(p)
  PROVE  /\ ListInv'
         /\ m_iCurSel >= 0 /\ m_iCurSel # p => Current' = m_items[m_iCurSel + 1]
         /\ m_items[p + 1] \notin In'
<1> DEFINE n == Len(m_items)
           t == m_items'
           e == m_items[p + 1]
           sel == m_bSelected \ {e}
<1>0. n \in Nat /\ p + 1 \in 1..n /\ p \in Nat
  BY ListFacts DEF Positions
<1>1. /\ t \in Seq(Elements) /\ Len(t) = n - 1 /\ Different(t)
      /\ \A k \in 1..p : t[k] = m_items[k]
      /\ \A k \in (p + 2)..n : t[k - 1] = m_items[k]
      /\ \A k \in 1..(n - 1) : t[k] # e
  <2>1. (p + 1) - 1 = p /\ (p + 1) + 1 = p + 2
    BY <1>0
  <2>2. t = RemoveAt(m_items, p + 1)
    BY DEF RemoveItem
  <2>3. m_items \in Seq(Elements)
    BY ListFacts
  <2>4. Different(m_items)
    BY ListFacts
  <2>5. p + 1 \in 1..Len(m_items)
    BY <1>0
  <2> DEFINE i == p + 1
  <2> HIDE DEF t, i
  <2>6. /\ t \in Seq(Elements) /\ Len(t) = Len(m_items) - 1 /\ Different(t)
        /\ \A k \in 1..(i - 1) : t[k] = m_items[k]
        /\ \A k \in (i + 1)..Len(m_items) : t[k - 1] = m_items[k]
        /\ \A k \in 1..(Len(m_items) - 1) : t[k] # m_items[i]
    <3>1. i \in 1..Len(m_items)
      BY <2>5 DEF i
    <3>2. t = RemoveAt(m_items, i)
      BY <2>2 DEF i
    <3>3. t \in Seq(Elements)
      BY ONLY <2>3, <2>4, <3>1, <3>2, Removed
    <3>4. Len(t) = Len(m_items) - 1
      BY ONLY <2>3, <2>4, <3>1, <3>2, Removed
    <3>5. Different(t)
      BY ONLY <2>3, <2>4, <3>1, <3>2, Removed
    <3>6. \A k \in 1..(i - 1) : t[k] = m_items[k]
      BY ONLY <2>3, <2>4, <3>1, <3>2, Removed
    <3>7. ASSUME NEW k \in (i + 1)..Len(m_items) PROVE t[k - 1] = m_items[k]
      <4>1. \A l \in 1..(Len(m_items) - 1) : t[l] = IF l < i THEN m_items[l] ELSE m_items[l + 1]
        <5>1. IsRemoved(RemoveAt(m_items, i), m_items, i)
          BY ONLY <2>3, <3>1, RemoveAtItems
        <5> QED BY ONLY <3>2, <5>1 DEF IsRemoved
      <4>2. k - 1 \in 1..(Len(m_items) - 1) /\ ~(k - 1 < i) /\ (k - 1) + 1 = k
        BY <2>3, <3>1, <3>7, <1>0
      <4> QED BY <4>1, <4>2
    <3>8. ASSUME NEW k \in 1..(Len(m_items) - 1) PROVE t[k] # m_items[i]
      <4>1. Lacks(t, m_items[i], Len(m_items) - 1)
        BY ONLY <2>3, <2>4, <3>1, <3>2, Removed
      <4> QED BY <4>1 DEF Lacks
    <3> QED BY <3>3, <3>4, <3>5, <3>6, <3>7, <3>8
  <2> QED BY <2>6, <2>1 DEF i
<1> DEFINE num == Numbered(t, p, n - 2)
<1>2. /\ num \in [Elements -> Int]
      /\ \A k \in 1..(n - 1) :
           num[t[k]] = IF k - 1 \in p..(n - 2) THEN k - 1 ELSE m_iIndex[t[k]]
  <2>1. m_iIndex \in [Elements -> Int]
    BY ListFacts
  <2> DEFINE q == n - 2
  <2>2. p \in Nat /\ q \in Int /\ q < Len(t)
    BY <1>0, <1>1
  <2>3. t \in Seq(Elements)
    BY <1>1
  <2>4. Different(t)
    BY <1>1
  <2> HIDE DEF t, q, num
  <2>5. /\ Numbered(t, p, q) \in [Elements -> Int]
        /\ \A k \in 1..Len(t) :
             Numbered(t, p, q)[t[k]] = IF k - 1 \in p..q THEN k - 1 ELSE m_iIndex[t[k]]
    BY ONLY <2>1, <2>2, <2>3, <2>4, NumberedItems
  <2>6. Len(t) = n - 1
    BY <1>1
  <2>7. num = Numbered(t, p, q)
    BY DEF num, q
  <2> QED BY <2>5, <2>6, <2>7 DEF q
<1>3. m_iIndex' = [num EXCEPT ![e] = -1]
  BY DEF RemoveItem
<1> HIDE DEF t, num
<1>4. \A k \in 1..(n - 1) : num[t[k]] = k - 1
  <2> SUFFICES ASSUME NEW k \in 1..(n - 1), k - 1 \notin p..(n - 2)
               PROVE  num[t[k]] = k - 1
    BY <1>2
  <2>1. k \in 1..p /\ k \in 1..n
    BY <1>0
  <2>2. m_iIndex[m_items[k]] = k - 1
    BY <2>1, ListFacts
  <2> QED BY <1>1, <1>2, <2>1, <2>2
<1>5. /\ m_iIndex' \in [Elements -> Int]
      /\ \A k \in 1..(n - 1) : m_iIndex'[t[k]] = k - 1
  <2>1. \A k \in 1..(n - 1) : t[k] # e /\ t[k] \in Elements
    BY <1>0, <1>1
  <2>2. m_iIndex' \in [Elements -> Int]
    <3>1. num \in [Elements -> Int]
      BY <1>2
    <3> HIDE DEF e
    <3>2. -1 \in Int
      OBVIOUS
    <3> QED BY ONLY <3>1, <3>2, <1>3, ExceptIndex
  <2>3. \A x \in Elements : x # e => m_iIndex'[x] = num[x]
    BY <1>2, <1>3
  <2> QED BY <2>1, <2>2, <2>3, <1>4
<1> DEFINE S == Elements
<1>8. /\ m_bSelected' \subseteq S
      /\ m_iCurSel' \in -1..(n - 2)
      /\ m_iCurSel' >= 0 => t[m_iCurSel' + 1] \in m_bSelected'
      /\ m_iCurSel >= 0 /\ m_iCurSel # p
           => m_iCurSel' >= 0 /\ t[m_iCurSel' + 1] = m_items[m_iCurSel + 1]
  <2>0. sel \subseteq S
    BY ListFacts
  <2>1. CASE p = m_iCurSel
    <3>1. Selects(FindSelectable(p, t), t, sel, -1)
      BY <2>1 DEF RemoveItem, t
    <3>2. \A k \in 1..Len(t) : t[k] \in S
      BY <1>1
    <3>3. -1 \in -1..(Len(t) - 1) /\ (-1 >= 0 => t[-1 + 1] \in sel)
      BY <1>0, <1>1
    <3> HIDE DEF S, sel
    <3>4. /\ m_bSelected' \subseteq S
          /\ m_iCurSel' \in -1..(Len(t) - 1)
          /\ m_iCurSel' >= 0 => t[m_iCurSel' + 1] \in m_bSelected'
      BY <2>0, <3>1, <3>2, <3>3, <1>1, SelectItemCurrent
    <3> QED BY <3>4, <2>1, <1>0, <1>1
  <2>2. CASE p # m_iCurSel
    <3>1. /\ m_bSelected' = sel
          /\ m_iCurSel' = IF p < m_iCurSel THEN m_iCurSel - 1 ELSE m_iCurSel
      BY <2>2 DEF RemoveItem
    <3>2. /\ m_iCurSel \in -1..(n - 1)
          /\ m_iCurSel >= 0 => m_items[m_iCurSel + 1] \in sel
      <4>1. m_iCurSel \in -1..(n - 1)
        BY ListFacts
      <4>2. ASSUME m_iCurSel >= 0 PROVE m_items[m_iCurSel + 1] \in sel
        <5>1. m_iCurSel + 1 \in 1..n /\ m_items[m_iCurSel + 1] \in m_bSelected
          BY <4>2, ListFacts
        <5>2. m_items[m_iCurSel + 1] # e
          <6>1. m_iCurSel + 1 # p + 1
            BY <4>1, <1>0, <2>2
          <6> QED BY <6>1, <5>1, <1>0, ListFacts DEF Different
        <5> QED BY <5>1, <5>2
      <4> QED BY <4>1, <4>2
    <3>3. CASE p < m_iCurSel
      <4>1. m_iCurSel + 1 \in (p + 2)..n /\ (m_iCurSel + 1) - 1 = m_iCurSel
        BY <3>2, <3>3, <1>0
      <4>2. t[m_iCurSel] = m_items[m_iCurSel + 1]
        BY <4>1, <1>1
      <4>3. m_iCurSel' = m_iCurSel - 1 /\ m_iCurSel' + 1 = m_iCurSel
        BY <3>1, <3>2, <3>3
      <4> QED BY <4>2, <4>3, <2>0, <3>1, <3>2, <3>3, <1>0
    <3>4. CASE ~(p < m_iCurSel) /\ m_iCurSel >= 0
      <4>1. m_iCurSel + 1 \in 1..p /\ m_iCurSel \in -1..(n - 2)
        BY <3>2, <3>4, <2>2, <1>0
      <4>2. t[m_iCurSel + 1] = m_items[m_iCurSel + 1]
        BY <4>1, <1>1
      <4> QED BY <4>1, <4>2, <2>0, <3>1, <3>2, <3>4, <1>0
    <3>5. CASE m_iCurSel = -1
      BY <3>1, <3>2, <3>5, <2>0, <1>0
    <3> QED BY <3>2, <3>3, <3>4, <3>5, <1>0
  <2> QED BY <2>1, <2>2
<1>9. /\ isCombo' = isCombo /\ m_bEnabled' \subseteq Elements /\ m_bVisible' \subseteq Elements
      /\ lost' = FALSE
  <2>1. lost' = lost
    BY DEF RemoveItem
  <2>2. isCombo' = isCombo /\ m_bEnabled' \subseteq Elements /\ m_bVisible' \subseteq Elements
    BY DEF RemoveItem, ListInv, TypeOK
  <2> QED BY <2>1, <2>2, StillNotLost
<1>10. ListInv' /\ (m_iCurSel' >= 0 => Current' = t[m_iCurSel' + 1])
  <2>1. m_iCurSel' \in -1..(Len(m_items') - 1) /\ Len(m_items') = n - 1
    BY <1>0, <1>1, <1>8 DEF t
  <2> QED BY <2>1, <1>1, <1>5, <1>8, <1>9, ListInvNext DEF t
<1>11. m_items[p + 1] \notin In'
  BY <1>0, <1>1 DEF t, In
<1> QED BY <1>8, <1>10, <1>11 DEF t

\* An item added at the end leaves the others and the current one alone.
LEMMA AddKeeps ==
  ASSUME ListInv, ~lost, NEW e \in Elements, Add(e)
  PROVE  /\ ListInv'
         /\ m_iCurSel >= 0 => Current' = m_items[m_iCurSel + 1]
<1> DEFINE n == Len(m_items)
           t == m_items'
<1>0. n \in Nat
  BY ListFacts
<1>1. /\ t \in Seq(Elements) /\ Len(t) = n + 1 /\ t[n + 1] = e
      /\ \A k \in 1..n : t[k] = m_items[k]
  <2>1. m_items \in Seq(Elements) /\ t = Append(m_items, e)
    BY ListFacts DEF Add
  <2> HIDE DEF t
  <2> QED BY <2>1
<1>2. m_iIndex' = [m_iIndex EXCEPT ![e] = n] /\ m_iIndex \in [Elements -> Int]
  BY ListFacts DEF Add
<1>3. \A k \in 1..n : m_items[k] # e /\ m_items[k] \in Elements /\ m_iIndex[m_items[k]] = k - 1
  BY ListFacts DEF Add
<1> HIDE DEF t
<1>4. m_iIndex' \in [Elements -> Int]
  BY ONLY <1>0, <1>2, ExceptIndex
<1>5. \A k \in 1..(n + 1) : m_iIndex'[t[k]] = k - 1
  <2>1. m_iIndex'[e] = n /\ \A x \in Elements : x # e => m_iIndex'[x] = m_iIndex[x]
    BY <1>2
  <2> SUFFICES ASSUME NEW k \in 1..(n + 1) PROVE m_iIndex'[t[k]] = k - 1
    OBVIOUS
  <2>2. CASE k = n + 1
    BY <2>1, <2>2, <1>0, <1>1
  <2>3. CASE k # n + 1
    <3>1. k \in 1..n
      BY <2>3, <1>0
    <3> QED BY <3>1, <2>1, <1>1, <1>3
  <2> QED BY <2>2, <2>3
<1>6. /\ m_iCurSel' = m_iCurSel /\ m_bSelected' = m_bSelected
      /\ m_iCurSel \in -1..(n - 1)
      /\ m_iCurSel >= 0 => m_iCurSel + 1 \in 1..n /\ m_items[m_iCurSel + 1] \in m_bSelected
  BY ListFacts DEF Add
<1>7. m_bSelected' \subseteq Elements
  BY <1>6, ListFacts
<1>8. /\ isCombo' = isCombo /\ m_bEnabled' \subseteq Elements /\ m_bVisible' \subseteq Elements
      /\ lost' = FALSE
  <2>1. lost' = lost
    BY DEF Add
  <2>2. isCombo' = isCombo /\ m_bEnabled' \subseteq Elements /\ m_bVisible' \subseteq Elements
    BY DEF Add, ListInv, TypeOK
  <2> QED BY <2>1, <2>2, StillNotLost
<1>9. ListInv' /\ (m_iCurSel' >= 0 => Current' = t[m_iCurSel' + 1])
  <2>1. m_iCurSel' \in -1..(Len(m_items') - 1) /\ Len(m_items') = n + 1
    BY <1>0, <1>1, <1>6 DEF t
  <2>2. m_iCurSel' >= 0 => m_items'[m_iCurSel' + 1] \in m_bSelected'
    BY <1>1, <1>6 DEF t
  <2> QED BY <2>1, <2>2, <1>1, <1>4, <1>5, <1>7, <1>8, ListInvNext DEF t
<1> QED BY <1>1, <1>6, <1>9 DEF t

\* A move keeps the invariant and the current item.
LEMMA SetItemIndexKeeps ==
  ASSUME ListInv, ~lost, NEW p \in Positions, NEW q \in Positions, SetItemIndex(p, q)
  PROVE  /\ ListInv'
         /\ m_iCurSel >= 0 => Current' = m_items[m_iCurSel + 1]
<1> DEFINE n == Len(m_items)
           t == m_items'
           lo == Lower(p, q)
           hi == Upper(p, q)
<1>0. /\ n \in Nat /\ p \in Nat /\ q \in Nat /\ p + 1 \in 1..n /\ q + 1 \in 1..n
      /\ lo \in Nat /\ hi \in Int /\ hi < n /\ lo <= p /\ lo <= q /\ hi >= p /\ hi >= q
      /\ lo \in {p, q} /\ hi \in {p, q}
  BY ListFacts, SMTT(40) DEF Positions, Lower, Upper
<1>1. /\ t \in Seq(Elements) /\ Len(t) = n /\ Different(t)
      /\ \A k \in 1..n : (k < p + 1 /\ k < q + 1) \/ (k > p + 1 /\ k > q + 1) => t[k] = m_items[k]
      /\ \A k \in 1..n : \E l \in 1..n : t[l] = m_items[k]
  <2> DEFINE i == p + 1
             j == q + 1
  <2>1. t = InsertAt(RemoveAt(m_items, i), j, m_items[i])
    BY DEF SetItemIndex
  <2>2. m_items \in Seq(Elements)
    BY ListFacts
  <2>3. Different(m_items)
    BY ListFacts
  <2>4. i \in 1..Len(m_items)
    BY <1>0
  <2>5. j \in 1..Len(m_items)
    BY <1>0
  <2> HIDE DEF t, i, j
  <2>6. /\ t \in Seq(Elements) /\ Len(t) = Len(m_items) /\ Different(t)
        /\ \A k \in 1..Len(m_items) : (k < i /\ k < j) \/ (k > i /\ k > j) => t[k] = m_items[k]
        /\ \A k \in 1..Len(m_items) : \E l \in 1..Len(m_items) : t[l] = m_items[k]
    <3>1. t \in Seq(Elements) /\ Len(t) = Len(m_items) /\ Different(t) /\ Rest(m_items, t, i, j)
      BY ONLY <2>1, <2>2, <2>3, <2>4, <2>5, Moved
    <3> QED BY <3>1 DEF Rest
  <2> QED BY <2>6 DEF i, j
<1>2. /\ m_iIndex' \in [Elements -> Int]
      /\ \A k \in 1..n :
           m_iIndex'[t[k]] = IF k - 1 \in lo..hi THEN k - 1 ELSE m_iIndex[t[k]]
  <2>1. m_iIndex' = Numbered(t, lo, hi)
    BY DEF SetItemIndex
  <2>2. m_iIndex \in [Elements -> Int]
    BY ListFacts
  <2>3. t \in Seq(Elements)
    BY <1>1
  <2>4. Different(t)
    BY <1>1
  <2>5. lo \in Nat
    BY <1>0
  <2>6. hi \in Int /\ hi < Len(t)
    BY <1>0, <1>1
  <2> HIDE DEF t, lo, hi
  <2>7. /\ Numbered(t, lo, hi) \in [Elements -> Int]
        /\ \A k \in 1..Len(t) :
             Numbered(t, lo, hi)[t[k]] = IF k - 1 \in lo..hi THEN k - 1 ELSE m_iIndex[t[k]]
    BY ONLY <2>2, <2>3, <2>4, <2>5, <2>6, NumberedItems
  <2>8. Len(t) = n
    BY <1>1
  <2> QED BY <2>1, <2>7, <2>8
<1> HIDE DEF t, lo, hi
<1>3. \A k \in 1..n : m_iIndex'[t[k]] = k - 1
  <2> SUFFICES ASSUME NEW k \in 1..n, k - 1 \notin lo..hi PROVE m_iIndex'[t[k]] = k - 1
    BY <1>2
  <2>1. (k < p + 1 /\ k < q + 1) \/ (k > p + 1 /\ k > q + 1)
    BY <1>0
  <2>2. t[k] = m_items[k]
    BY <2>1, <1>1
  <2>3. m_iIndex[m_items[k]] = k - 1
    BY ListFacts
  <2> QED BY <1>2, <2>2, <2>3
<1>4. /\ m_bSelected' = m_bSelected
      /\ m_iCurSel' = (IF m_iCurSel >= 0 THEN m_iIndex'[m_items[m_iCurSel + 1]] ELSE m_iCurSel)
      /\ m_iCurSel \in -1..(n - 1)
      /\ m_iCurSel >= 0 => m_iCurSel + 1 \in 1..n /\ m_items[m_iCurSel + 1] \in m_bSelected
  BY ListFacts DEF SetItemIndex
<1>5. /\ m_iCurSel' \in -1..(n - 1)
      /\ m_iCurSel' >= 0 => t[m_iCurSel' + 1] \in m_bSelected
      /\ m_iCurSel >= 0 => m_iCurSel' >= 0 /\ t[m_iCurSel' + 1] = m_items[m_iCurSel + 1]
  <2>1. CASE m_iCurSel >= 0
    <3>1. PICK l \in 1..n : t[l] = m_items[m_iCurSel + 1]
      BY <2>1, <1>1, <1>4
    <3>2. m_iCurSel' = l - 1
      BY <2>1, <3>1, <1>3, <1>4
    <3>3. m_iCurSel' + 1 = l /\ m_iCurSel' \in 0..(n - 1)
      BY <3>2, <1>0
    <3> QED BY <3>1, <3>3, <2>1, <1>0, <1>4
  <2>2. CASE m_iCurSel = -1
    BY <2>2, <1>0, <1>4
  <2> QED BY <2>1, <2>2, <1>0, <1>4
<1>6. m_bSelected' \subseteq Elements
  BY <1>4, ListFacts
<1>7. /\ isCombo' = isCombo /\ m_bEnabled' \subseteq Elements /\ m_bVisible' \subseteq Elements
      /\ lost' = FALSE
  <2>1. lost' = lost
    BY DEF SetItemIndex
  <2>2. isCombo' = isCombo /\ m_bEnabled' \subseteq Elements /\ m_bVisible' \subseteq Elements
    BY DEF SetItemIndex, ListInv, TypeOK
  <2> QED BY <2>1, <2>2, StillNotLost
<1>8. ListInv' /\ (m_iCurSel' >= 0 => Current' = t[m_iCurSel' + 1])
  <2>1. m_iCurSel' \in -1..(Len(m_items') - 1) /\ Len(m_items') = n
    BY <1>0, <1>1, <1>5 DEF t
  <2>2. m_iCurSel' >= 0 => m_items'[m_iCurSel' + 1] \in m_bSelected'
    BY <1>4, <1>5 DEF t
  <2> QED BY <2>1, <2>2, <1>1, <1>2, <1>3, <1>6, <1>7, ListInvNext DEF t
<1> QED BY <1>5, <1>8 DEF t

\* A sort keeps the invariant and leaves nothing current.
LEMMA SortItemsKeeps ==
  ASSUME ListInv, NEW f \in Orders, SortItems(f)
  PROVE  /\ ListInv' /\ Current' = NULL /\ ~isCombo /\ In' = In
         /\ m_bSelected' \cap m_bEnabled \cap In = {}
<1> DEFINE n == Len(m_items)
           t == m_items'
<1>0. n \in Nat /\ n - 1 \in Int /\ DOMAIN m_items = 1..n /\ m_items \in [1..n -> Elements]
  BY DEF ListInv, TypeOK
<1>types. /\ m_iIndex \in [Elements -> Int] /\ m_bSelected \subseteq Elements
          /\ m_iCurSel \in Int /\ m_iCurSel >= -1 /\ Different(m_items)
  BY <1>0 DEF ListInv, TypeOK
<1>1. /\ f \in [1..n -> 1..n]
      /\ \A j, k \in 1..n : f[j] = f[k] => j = k
      /\ \A l \in 1..n : \E k \in 1..n : f[k] = l
  BY <1>0 DEF Orders, Bijection, Injection, Surjection, IsInjective
<1>2. t = [k \in 1..n |-> m_items[f[k]]]
  BY <1>0 DEF SortItems
<1> HIDE DEF t
<1>3. t \in [1..n -> Elements] /\ t \in Seq(Elements) /\ Len(t) = n
  BY <1>0, <1>1, <1>2
<1>4. Different(t)
  <2> SUFFICES ASSUME NEW j \in 1..n, NEW k \in 1..n, t[j] = t[k] PROVE j = k
    BY <1>3 DEF Different
  <2>1. f[j] \in 1..n /\ f[k] \in 1..n /\ m_items[f[j]] = m_items[f[k]]
    BY <1>1, <1>2
  <2>2. f[j] = f[k]
    BY <2>1, <1>0, <1>types, SMTT(40) DEF Different
  <2> QED BY <2>2, <1>1
<1>5. /\ m_iIndex' \in [Elements -> Int]
      /\ \A k \in 1..n : m_iIndex'[t[k]] = k - 1
  <2> DEFINE q == n - 1
  <2>1. m_iIndex' = Numbered(t, 0, q)
    BY DEF SortItems, t
  <2>2. m_iIndex \in [Elements -> Int]
    BY <1>types
  <2>3. t \in Seq(Elements)
    BY <1>3
  <2>4. 0 \in Nat
    OBVIOUS
  <2>5. q \in Int /\ q < Len(t)
    BY <1>0, <1>3
  <2>6. \A k \in 1..n : k - 1 \in 0..q
    BY <1>0
  <2> HIDE DEF q
  <2>7. /\ Numbered(t, 0, q) \in [Elements -> Int]
        /\ \A k \in 1..Len(t) :
             Numbered(t, 0, q)[t[k]] = IF k - 1 \in 0..q THEN k - 1 ELSE m_iIndex[t[k]]
    BY ONLY <2>2, <2>3, <1>4, <2>4, <2>5, NumberedItems
  <2> QED BY <2>1, <2>6, <2>7, <1>3
<1> DEFINE sel == m_bSelected \ (In \cap m_bEnabled)
<1>6. m_bSelected' \subseteq sel /\ m_iCurSel' = -1
  <2>1. Selects(-1, t, sel, m_iCurSel)
    BY DEF SortItems, t
  <2>2. m_iCurSel \in Int /\ m_iCurSel >= -1
    BY <1>types
  <2> HIDE DEF sel
  <2> QED BY <2>1, <2>2, SelectNone
<1>7. In' = In
  <2>1. In' = {t[k] : k \in 1..n} /\ In = {m_items[k] : k \in 1..n}
    BY <1>0, <1>3 DEF In, t
  <2>2. \A k \in 1..n : t[k] = m_items[f[k]] /\ f[k] \in 1..n
    BY <1>1, <1>2
  <2>3. \A x \in In' : x \in In
    BY <2>1, <2>2
  <2>4. ASSUME NEW l \in 1..n PROVE m_items[l] \in In'
    <3>1. PICK k \in 1..n : f[k] = l
      BY <1>1
    <3>2. t[k] = m_items[l]
      BY <3>1, <2>2
    <3> QED BY <3>2, <2>1
  <2> QED BY <2>1, <2>3, <2>4
<1>8. /\ isCombo' = isCombo /\ m_bEnabled' \subseteq Elements /\ m_bVisible' \subseteq Elements
      /\ lost' = FALSE /\ ~isCombo
  BY DEF SortItems, ListInv, TypeOK
<1>9. ListInv' /\ Current' = NULL
  <2>1. m_iCurSel' \in -1..(Len(m_items') - 1) /\ Len(m_items') = n /\ ~(m_iCurSel' >= 0) /\ m_iCurSel' < 0
    BY <1>0, <1>3, <1>6 DEF t
  <2>2. m_bSelected' \subseteq Elements
    BY <1>types, <1>6
  <2> QED BY <2>1, <2>2, <1>3, <1>5, <1>8, ListInvNext DEF t
<1>10. m_bSelected' \cap m_bEnabled \cap In = {}
  BY <1>6
<1> QED BY <1>7, <1>8, <1>9, <1>10 DEF t

\* A step that changes neither the items nor their indices keeps the invariant
\* if the current item is selected after it.
LEMMA SameItems ==
  ASSUME ListInv, ~lost, UNCHANGED <<isCombo, m_items, m_iIndex, lost>>,
         m_bSelected' \subseteq Elements, m_iCurSel' \in -1..(Len(m_items) - 1),
         m_iCurSel' >= 0 => m_items[m_iCurSel' + 1] \in m_bSelected',
         m_bEnabled' \subseteq Elements, m_bVisible' \subseteq Elements
  PROVE  ListInv'
<1>1. lost' = FALSE
  BY StillNotLost
<1>2. /\ m_items' \in Seq(Elements) /\ m_iIndex' \in [Elements -> Int]
      /\ \A k \in 1..Len(m_items') : m_iIndex'[m_items'[k]] = k - 1
  BY ListFacts
<1> QED BY <1>1, <1>2, ListInvNext

\* SelectItem with a set of items already selected.
LEMMA SelectsKeeps ==
  ASSUME ListInv, ~lost, UNCHANGED <<isCombo, m_items, m_iIndex, lost>>,
         NEW i, NEW sel, m_bSelected \subseteq sel, sel \subseteq Elements,
         Selects(i, m_items, sel, m_iCurSel),
         m_bEnabled' \subseteq Elements, m_bVisible' \subseteq Elements
  PROVE  ListInv'
<1>1. m_items \in Seq(Elements)
  BY ListFacts
<1>2. \A k \in 1..Len(m_items) : m_items[k] \in Elements
  BY ListFacts
<1>3. m_iCurSel \in -1..(Len(m_items) - 1)
  BY ListFacts
<1>4. m_iCurSel >= 0 => m_items[m_iCurSel + 1] \in sel
  BY ListFacts
<1> DEFINE S == Elements
<1> HIDE DEF S
<1>5. /\ m_bSelected' \subseteq S
      /\ m_iCurSel' \in -1..(Len(m_items) - 1)
      /\ m_iCurSel' >= 0 => m_items[m_iCurSel' + 1] \in m_bSelected'
  <2>1. sel \subseteq S /\ \A k \in 1..Len(m_items) : m_items[k] \in S
    BY <1>2 DEF S
  <2> QED BY <1>1, <2>1, <1>3, <1>4, SelectItemCurrent
<1> QED BY <1>5, SameItems DEF S

\* The steps that leave the items alone keep the invariant.
LEMMA StateKeeps ==
  ASSUME ListInv, ~lost,
         \/ \E i \in -1..Len(m_items) : SelectIndex(i)
         \/ \E e \in Elements : Select(e) \/ SetEnabled(e) \/ \E b \in BOOLEAN : SetVisible(e, b)
  PROVE  ListInv' /\ m_items' = m_items
<1>0. m_bEnabled \subseteq Elements /\ m_bVisible \subseteq Elements /\ m_bSelected \subseteq Elements
  BY DEF ListInv, TypeOK
<1>1. ASSUME NEW i \in -1..Len(m_items), SelectIndex(i) PROVE ListInv' /\ m_items' = m_items
  BY <1>0, <1>1, SelectsKeeps DEF SelectIndex
<1>2. ASSUME NEW e \in Elements, Select(e) PROVE ListInv' /\ m_items' = m_items
  <2> DEFINE sel == m_bSelected \cup {e}
             i == m_iIndex[e]
  <2>1. m_bSelected \subseteq sel /\ sel \subseteq Elements
    BY <1>0, <1>2
  <2>2. Selects(i, m_items, sel, m_iCurSel)
    BY <1>2 DEF Select
  <2>3. UNCHANGED <<isCombo, m_items, m_iIndex, m_bEnabled, m_bVisible, lost>>
    BY <1>2 DEF Select
  <2> HIDE DEF sel, i
  <2> QED BY <1>0, <2>1, <2>2, <2>3, SelectsKeeps
<1>3. ASSUME NEW e \in Elements, SetEnabled(e) PROVE ListInv' /\ m_items' = m_items
  <2>1. m_bEnabled' \subseteq Elements
    BY <1>0, <1>3 DEF SetEnabled
  <2>2. UNCHANGED <<isCombo, m_items, m_iIndex, m_bSelected, m_bVisible, m_iCurSel, lost>>
    BY <1>3 DEF SetEnabled
  <2> QED BY <1>0, <2>1, <2>2, SameItems, ListFacts
<1>4. ASSUME NEW e \in Elements, NEW b \in BOOLEAN, SetVisible(e, b)
      PROVE  ListInv' /\ m_items' = m_items
  <2>1. m_bVisible' \subseteq Elements /\ m_bEnabled' \subseteq Elements
    BY <1>0, <1>4 DEF SetVisible
  <2>2. UNCHANGED <<isCombo, m_items, m_iIndex, lost>>
    BY <1>4 DEF SetVisible
  <2>3. CASE ~b /\ e \in m_bSelected
    <3> DEFINE sel == m_bSelected \ {e}
    <3>1. Selects(-1, m_items, sel, m_iCurSel)
      BY <2>3, <1>4 DEF SetVisible
    <3>2. sel \subseteq Elements
      BY <1>0
    <3>3. m_iCurSel \in Int /\ m_iCurSel >= -1 /\ -1 \in -1..(Len(m_items) - 1)
      BY ListFacts
    <3> HIDE DEF sel
    <3>4. m_bSelected' \subseteq sel /\ m_iCurSel' = -1
      BY <3>1, <3>3, SelectNone
    <3> QED BY <3>2, <3>3, <3>4, <2>1, <2>2, SameItems
  <2>4. CASE ~(~b /\ e \in m_bSelected)
    <3>1. UNCHANGED <<m_bSelected, m_iCurSel>>
      BY <2>4, <1>4 DEF SetVisible
    <3> QED BY <3>1, <1>0, <2>1, <2>2, SameItems, ListFacts
  <2> QED BY <2>3, <2>4
<1> QED BY <1>1, <1>2, <1>3, <1>4

\* An item that leaves the list unnoticed leaves no two alike.
LEMMA OutsideKeeps ==
  ASSUME ListInv, ~lost, NEW p \in Positions, SetItemIndexOutside(p)
  PROVE  ListInv' /\ lost' = TRUE
<1>1. /\ m_items' = RemoveAt(m_items, p + 1) /\ lost' = TRUE
      /\ UNCHANGED <<isCombo, m_iIndex, m_bSelected, m_bEnabled, m_bVisible, m_iCurSel>>
  BY DEF SetItemIndexOutside
<1> DEFINE i == p + 1
           t == m_items'
<1>2. i \in 1..Len(m_items) /\ m_items \in Seq(Elements) /\ Different(m_items)
  BY ListFacts DEF Positions
<1>3. t = RemoveAt(m_items, i)
  BY <1>1
<1> HIDE DEF i, t
<1>4. t \in Seq(Elements) /\ Len(t) = Len(m_items) - 1 /\ Different(t)
  BY ONLY <1>2, <1>3, Removed
<1>5. TypeOK'
  <2>1. m_iCurSel' \in -1..Len(m_items')
    BY <1>1, <1>4, ListFacts DEF t
  <2>2. lost' \in BOOLEAN /\ (~lost' => m_iCurSel' < Len(m_items'))
    BY <1>1, Zenon
  <2>3. /\ isCombo' \in BOOLEAN /\ m_items' \in Seq(Elements) /\ m_iIndex' \in [Elements -> Int]
        /\ m_bSelected' \subseteq Elements /\ m_bEnabled' \subseteq Elements
        /\ m_bVisible' \subseteq Elements
    BY <1>1, <1>4 DEF t, ListInv, TypeOK
  <2> QED BY <2>1, <2>2, <2>3, Zenon DEF TypeOK
<1>6. IndicesFollow' /\ CurrentIsSelected'
  BY <1>1 DEF IndicesFollow, CurrentIsSelected
<1>7. Different(m_items)'
  BY <1>4 DEF t, Different
<1> QED BY <1>1, <1>5, <1>6, <1>7 DEF ListInv

\* An emptied list.
LEMMA RemoveAllKeeps ==
  ASSUME ListInv, RemoveAll
  PROVE  ListInv' /\ In' = {}
<1>1. /\ m_items' = <<>> /\ m_iIndex' = [e \in Elements |-> IF e \in In THEN -1 ELSE m_iIndex[e]]
      /\ m_bSelected' \subseteq Elements /\ m_iCurSel' = -1 /\ lost' = FALSE
      /\ isCombo' = isCombo /\ m_bEnabled' \subseteq Elements /\ m_bVisible' \subseteq Elements
      /\ m_iIndex \in [Elements -> Int]
  BY DEF RemoveAll, ListInv, TypeOK
<1>2. m_items' \in Seq(Elements) /\ Len(m_items') = 0 /\ DOMAIN m_items' = {}
  BY <1>1
<1>3. m_iIndex' \in [Elements -> Int]
  BY <1>1
<1>4. -1 \in -1..(0 - 1) /\ ~(-1 >= 0) /\ 1..0 = {}
  OBVIOUS
<1>5. ListInv'
  BY <1>1, <1>2, <1>3, <1>4, ListInvNext
<1> QED BY <1>2, <1>5 DEF In

\* The invariant holds at first: a list is built empty.
LEMMA InitKeeps == Init => ListInv
<1> SUFFICES ASSUME Init PROVE ListInv
  OBVIOUS
<1>1. m_items \in Seq(Elements) /\ Len(m_items) = 0 /\ DOMAIN m_items = {}
  BY DEF Init
<1>2. m_iIndex \in [Elements -> Int]
  BY DEF Init
<1>3. isCombo \in BOOLEAN /\ lost \in BOOLEAN
  BY DEF Init
<1>4. m_bSelected = {} /\ m_bEnabled \subseteq Elements /\ m_bVisible \subseteq Elements
  BY DEF Init
<1>5. m_iCurSel = -1 /\ m_iCurSel \in -1..0 /\ ~(m_iCurSel >= 0) /\ m_iCurSel < 0
  BY DEF Init
<1>6. TypeOK
  BY <1>1, <1>2, <1>3, <1>4, <1>5 DEF TypeOK
<1>7. Different(m_items)
  BY <1>1 DEF Different
<1> QED BY <1>1, <1>5, <1>6, <1>7 DEF ListInv, IndicesFollow, CurrentIsSelected

\* Every step keeps the invariant, and the current item with the items.
LEMMA NextKeeps == ListInv /\ [Next]_vars => ListInv' /\ (StaysCurrent \/ UNCHANGED vars)
<1> SUFFICES ASSUME ListInv, [Next]_vars PROVE ListInv' /\ (StaysCurrent \/ UNCHANGED vars)
  OBVIOUS
<1>0. ASSUME ~lost, Current # NULL
      PROVE  m_iCurSel >= 0 /\ Current = m_items[m_iCurSel + 1] /\ m_iCurSel \in Int
  BY <1>0, ListFacts
<1>1. ASSUME ~lost, NEW e \in Elements, Add(e) PROVE ListInv' /\ StaysCurrent
  BY <1>0, <1>1, AddKeeps DEF StaysCurrent
<1>2. ASSUME ~lost, NEW e \in Elements, NEW i \in 0..Len(m_items), AddAt(e, i)
      PROVE  ListInv' /\ StaysCurrent
  BY <1>0, <1>2, AddAtKeeps DEF StaysCurrent
<1>3. ASSUME ~lost, NEW p \in Positions, RemoveItem(p) PROVE ListInv' /\ StaysCurrent
  BY <1>0, <1>3, RemoveItemKeeps DEF StaysCurrent
<1>4. ASSUME ~lost, NEW p \in Positions, NEW q \in Positions, SetItemIndex(p, q)
      PROVE  ListInv' /\ StaysCurrent
  BY <1>0, <1>4, SetItemIndexKeeps DEF StaysCurrent
<1>5. ASSUME ~lost, NEW p \in Positions, SetItemIndexOutside(p) PROVE ListInv' /\ StaysCurrent
  BY <1>5, OutsideKeeps DEF StaysCurrent
<1>6. ASSUME NEW f \in Orders, SortItems(f) PROVE ListInv' /\ StaysCurrent
  BY <1>6, SortItemsKeeps DEF StaysCurrent
<1>7. CASE RemoveAll
  BY <1>7, RemoveAllKeeps DEF StaysCurrent
<1>8. ASSUME ~lost,
             \/ \E i \in -1..Len(m_items) : SelectIndex(i)
             \/ \E e \in Elements : Select(e) \/ SetEnabled(e) \/ \E b \in BOOLEAN : SetVisible(e, b)
      PROVE  ListInv' /\ StaysCurrent
  BY <1>8, StateKeeps DEF StaysCurrent
<1>9. CASE UNCHANGED vars
  BY <1>9 DEF vars, ListInv, TypeOK, IndicesFollow, CurrentIsSelected, Current, Positions, In, Different
<1> QED BY <1>1, <1>2, <1>3, <1>4, <1>5, <1>6, <1>7, <1>8, <1>9 DEF Next

\* UIList.cpp and UICombo.cpp: whatever a list goes through, each variable has its type.
THEOREM TypeCorrect == Spec => []TypeOK
<1>1. Spec => []ListInv
  BY InitKeeps, NextKeeps, PTL DEF Spec
<1>2. ListInv => TypeOK
  BY DEF ListInv
<1> QED BY <1>1, <1>2, PTL

\* The index an item tells its list when it is clicked is the one it has there, for any number
\* of items, until one is moved to an index outside the list, which loses it: from there until
\* all are removed or sorted nothing is promised.
THEOREM ItemsKnowTheirIndex == Spec => []IndicesFollow
<1>1. Spec => []ListInv
  BY InitKeeps, NextKeeps, PTL DEF Spec
<1>2. ListInv => IndicesFollow
  BY DEF ListInv
<1> QED BY <1>1, <1>2, PTL

\* The current item is one of the list and drawn as selected.
THEOREM CurrentAlwaysSelected == Spec => []CurrentIsSelected
<1>1. Spec => []ListInv
  BY InitKeeps, NextKeeps, PTL DEF Spec
<1>2. ListInv => CurrentIsSelected
  BY DEF ListInv
<1> QED BY <1>1, <1>2, PTL

\* The current item stays the current one when others are inserted, removed or moved inside the
\* list.  A sort leaves none current; nor is anything promised of a step of a list that has lost
\* an item, or of the one that loses it.
THEOREM SelectionAlwaysFollows == Spec => SelectionFollows
<1>1. Spec => []ListInv
  BY InitKeeps, NextKeeps, PTL DEF Spec
<1>2. ListInv /\ [Next]_vars => [StaysCurrent]_vars
  BY NextKeeps
<1> QED BY <1>1, <1>2, PTL DEF Spec, SelectionFollows

-----------------------------------------------------------------------------
(* Option groups.                                                          *)

\* Nobody has dropped a name that it has.
StraysApart == \A g \in Groups : \A o \in attached : m_sGroupName[o] = g => o \notin strays[g]

OptionsInv == O!TypeOK /\ O!MembersMatch /\ O!OneSelected /\ StraysApart

\* The attached options named g are members of its group.
InGroup(groups, names, g) ==
  g \in Groups => \A p \in attached : names[p] = g => p \in groups[g]

\* No two options of the window in sel have the same group, but those of twice.
GroupsApart(sel, names, twice) ==
  \A p, q \in sel \cap attached : names[p] = names[q] /\ names[p] \notin twice \cup {NONE} => p = q

\* The types, and what the invariant says.
LEMMA OptionFacts ==
  ASSUME OptionsInv
  PROVE  /\ m_mOptionGroup \in [Groups -> SUBSET Options] /\ strays \in [Groups -> SUBSET Options]
         /\ m_sGroupName \in [Options -> Groups \cup {NONE}]
         /\ optionsSelected \subseteq aliveOptions /\ attached \subseteq aliveOptions
         /\ aliveOptions \subseteq Options /\ doubled \subseteq Groups
         /\ \A g \in Groups : \A p \in Options :
              p \in m_mOptionGroup[g] <=> (p \in attached /\ m_sGroupName[p] = g) \/ p \in strays[g]
         /\ GroupsApart(optionsSelected, m_sGroupName, doubled)
         /\ \A g \in Groups : \A o \in attached : m_sGroupName[o] = g => o \notin strays[g]
BY DEF OptionsInv, O!TypeOK, O!MembersMatch, O!OneSelected, StraysApart, GroupsApart

\* The invariant from its parts after a step.
LEMMA OptionsInvNext ==
  ASSUME m_mOptionGroup' \in [Groups -> SUBSET Options], strays' \in [Groups -> SUBSET Options],
         m_sGroupName' \in [Options -> Groups \cup {NONE}],
         optionsSelected' \subseteq aliveOptions', attached' \subseteq aliveOptions',
         aliveOptions' \subseteq Options, doubled' \subseteq Groups,
         \A g \in Groups : \A p \in Options :
           p \in m_mOptionGroup'[g] <=> (p \in attached' /\ m_sGroupName'[p] = g) \/ p \in strays'[g],
         \A p, q \in optionsSelected' \cap attached' :
           m_sGroupName'[p] = m_sGroupName'[q] /\ m_sGroupName'[p] \notin doubled' \cup {NONE} => p = q,
         \A g \in Groups : \A o \in attached' : m_sGroupName'[o] = g => o \notin strays'[g]
  PROVE  OptionsInv'
<1>1. O!TypeOK'
  BY DEF O!TypeOK
<1>2. O!MembersMatch'
  <2> SUFFICES ASSUME NEW g \in Groups
               PROVE  m_mOptionGroup'[g] = {o \in attached' : m_sGroupName'[o] = g} \cup strays'[g]
    BY DEF O!MembersMatch
  <2>1. m_mOptionGroup'[g] \subseteq Options /\ strays'[g] \subseteq Options /\ attached' \subseteq Options
    OBVIOUS
  <2> QED BY <2>1
<1>3. O!OneSelected' /\ StraysApart'
  BY DEF O!OneSelected, StraysApart
<1> QED BY <1>1, <1>2, <1>3 DEF OptionsInv

\* A selection in a group whose members are known leaves at most one selected.
LEMMA ChosenOneOption ==
  ASSUME OptionsInv, NEW o \in aliveOptions, NEW g \in Groups \cup {NONE},
         NEW groups, NEW names \in [Options -> Groups \cup {NONE}],
         names = [m_sGroupName EXCEPT ![o] = g],
         InGroup(groups, names, g),
         NEW b \in BOOLEAN, ~b => o \notin optionsSelected \/ names = m_sGroupName,
         NEW sel, sel = O!Chosen(o, g, groups, b),
         NEW twice, twice = O!Single(o, g, b)
  PROVE  sel \subseteq aliveOptions /\ twice \subseteq Groups /\ GroupsApart(sel, names, twice)
<1>0. /\ optionsSelected \subseteq aliveOptions /\ aliveOptions \subseteq Options
      /\ attached \subseteq aliveOptions /\ doubled \subseteq Groups
      /\ m_sGroupName \in [Options -> Groups \cup {NONE}]
      /\ \A p, q \in optionsSelected \cap attached :
           m_sGroupName[p] = m_sGroupName[q] /\ m_sGroupName[p] \notin doubled \cup {NONE} => p = q
  BY OptionFacts DEF GroupsApart
<1>1. names[o] = g /\ \A p \in Options : p # o => names[p] = m_sGroupName[p]
  BY <1>0
<1>2. sel \subseteq optionsSelected \cup {o} /\ (o \in sel => b)
  BY DEF O!Chosen
<1>3. ASSUME NEW r \in sel, r # o, b, o \in attached, r \in attached, names[r] = g, g # NONE
      PROVE  FALSE
  <2>1. g \in Groups /\ r \in groups[g]
    BY <1>3 DEF InGroup
  <2>2. r \notin groups[g]
    BY <1>3 DEF O!Chosen
  <2> QED BY <2>1, <2>2
<1>4. ASSUME NEW p \in sel \cap attached, NEW q \in sel \cap attached,
             names[p] = names[q], names[p] \notin twice \cup {NONE}
      PROVE  p = q
  <2>1. CASE p # o /\ q # o
    <3>1. /\ p \in optionsSelected /\ q \in optionsSelected
          /\ m_sGroupName[p] = names[p] /\ m_sGroupName[q] = names[q]
      BY <2>1, <1>0, <1>1, <1>2, <1>4
    <3>2. CASE names[p] \notin doubled
      BY <3>1, <3>2, <1>0, <1>4
    <3>3. CASE names[p] \in doubled
      <4>1. b /\ o \in attached /\ names[p] = g
        BY <3>3, <1>4 DEF O!Single
      <4> QED BY <4>1, <2>1, <1>3, <1>4
    <3> QED BY <3>2, <3>3
  <2>2. CASE p = o /\ q # o
    BY <2>2, <1>1, <1>2, <1>3, <1>4
  <2>3. CASE q = o /\ p # o
    BY <2>3, <1>1, <1>2, <1>3, <1>4
  <2> QED BY <2>1, <2>2, <2>3
<1>5. sel \subseteq aliveOptions /\ twice \subseteq Groups
  BY <1>0, <1>2 DEF O!Single
<1> QED BY <1>4, <1>5 DEF GroupsApart

\* An option is made, put into the window, or destroyed.
LEMMA OptionComesOrGoes ==
  ASSUME O!ConstantsAssumption, OptionsInv,
         NEW o \in Options, O!New(o) \/ O!SetManager(o) \/ O!Destroy(o)
  PROVE  OptionsInv'
<1> DEFINE g == m_sGroupName[o]
<1>0. /\ m_mOptionGroup \in [Groups -> SUBSET Options] /\ strays \in [Groups -> SUBSET Options]
      /\ m_sGroupName \in [Options -> Groups \cup {NONE}] /\ g \in Groups \cup {NONE}
      /\ optionsSelected \subseteq aliveOptions /\ attached \subseteq aliveOptions
      /\ aliveOptions \subseteq Options /\ doubled \subseteq Groups
  BY OptionFacts
<1>members. \A h \in Groups : \A p \in Options :
              p \in m_mOptionGroup[h] <=> (p \in attached /\ m_sGroupName[p] = h) \/ p \in strays[h]
  BY OptionFacts
<1>apart. /\ \A p, q \in optionsSelected \cap attached :
               m_sGroupName[p] = m_sGroupName[q] /\ m_sGroupName[p] \notin doubled \cup {NONE} => p = q
          /\ \A h \in Groups : \A p \in attached : m_sGroupName[p] = h => p \notin strays[h]
  BY OptionFacts DEF GroupsApart
<1>none. NONE \notin Groups
  BY DEF O!ConstantsAssumption
<1>1. CASE O!New(o)
  <2>1. /\ m_sGroupName' = [m_sGroupName EXCEPT ![o] = NONE] /\ o \notin attached
        /\ aliveOptions' = aliveOptions \cup {o}
        /\ UNCHANGED <<m_mOptionGroup, optionsSelected, attached, strays, doubled>>
    BY <1>0, <1>1 DEF O!New
  <2>2. /\ m_sGroupName' \in [Options -> Groups \cup {NONE}]
        /\ \A p \in attached : m_sGroupName'[p] = m_sGroupName[p]
    BY <1>0, <2>1
  <2>3. \A h \in Groups : \A p \in Options :
          p \in m_mOptionGroup'[h] <=> (p \in attached' /\ m_sGroupName'[p] = h) \/ p \in strays'[h]
    BY <1>0, <1>members, <2>1, <2>2
  <2>4. \A p, q \in optionsSelected' \cap attached' :
          m_sGroupName'[p] = m_sGroupName'[q] /\ m_sGroupName'[p] \notin doubled' \cup {NONE} => p = q
    BY <1>0, <1>apart, <2>1, <2>2
  <2>5. \A h \in Groups : \A p \in attached' : m_sGroupName'[p] = h => p \notin strays'[h]
    BY <1>0, <1>apart, <2>1, <2>2
  <2> QED BY <1>0, <2>1, <2>2, <2>3, <2>4, <2>5, OptionsInvNext
<1>2. CASE O!SetManager(o)
  <2>1. /\ m_mOptionGroup' = O!Joined(m_mOptionGroup, o, g) /\ strays' = O!Left(strays, o, g)
        /\ attached' = attached \cup {o} /\ o \in aliveOptions \ attached
        /\ doubled' = IF o \in optionsSelected THEN doubled \cup ({g} \ {NONE}) ELSE doubled
        /\ UNCHANGED <<m_sGroupName, optionsSelected, aliveOptions>>
    BY <1>2 DEF O!SetManager
  <2>2. g \in Groups \cup {NONE}
    BY <1>0
  <2> HIDE DEF g
  <2>3. /\ m_mOptionGroup' \in [Groups -> SUBSET Options]
        /\ \A h \in Groups : m_mOptionGroup'[h]
              = IF h = g THEN m_mOptionGroup[h] \cup {o} ELSE m_mOptionGroup[h]
    BY <1>0, <2>1, <2>2, <1>none DEF O!Joined, O!Left
  <2>4. /\ strays' \in [Groups -> SUBSET Options]
        /\ \A h \in Groups : strays'[h] = IF h = g THEN strays[h] \ {o} ELSE strays[h]
    BY <1>0, <2>1, <2>2, <1>none DEF O!Joined, O!Left
  <2>5. ASSUME NEW h \in Groups, NEW p \in Options
        PROVE  p \in m_mOptionGroup'[h] <=> (p \in attached' /\ m_sGroupName'[p] = h) \/ p \in strays'[h]
    <3>0. p \in m_mOptionGroup[h] <=> (p \in attached /\ m_sGroupName[p] = h) \/ p \in strays[h]
      BY <1>members
    <3>1. CASE p = o
      BY <3>0, <3>1, <1>0, <2>1, <2>3, <2>4 DEF g
    <3>2. CASE p # o
      BY <3>0, <3>2, <1>0, <2>1, <2>3, <2>4
    <3> QED BY <3>1, <3>2
  <2>6. ASSUME NEW p \in optionsSelected' \cap attached', NEW q \in optionsSelected' \cap attached',
               m_sGroupName'[p] = m_sGroupName'[q], m_sGroupName'[p] \notin doubled' \cup {NONE}
        PROVE  p = q
    <3>1. CASE p = o \/ q = o
      BY <3>1, <2>1, <2>6 DEF g
    <3>2. CASE p # o /\ q # o
      BY <3>2, <1>0, <1>apart, <2>1, <2>6
    <3> QED BY <3>1, <3>2
  <2>7. ASSUME NEW h \in Groups, NEW p \in attached', m_sGroupName'[p] = h
        PROVE  p \notin strays'[h]
    BY <1>0, <1>apart, <2>1, <2>4, <2>7 DEF g
  <2>8. /\ doubled' \subseteq Groups /\ attached' \subseteq aliveOptions'
        /\ optionsSelected' \subseteq aliveOptions' /\ aliveOptions' \subseteq Options
        /\ m_sGroupName' \in [Options -> Groups \cup {NONE}]
    BY <1>0, <2>1, <2>2
  <2> QED BY <2>3, <2>4, <2>5, <2>6, <2>7, <2>8, OptionsInvNext
<1>3. CASE O!Destroy(o)
  <2>1. /\ m_mOptionGroup' = IF o \in attached THEN O!Left(m_mOptionGroup, o, g) ELSE m_mOptionGroup
        /\ aliveOptions' = aliveOptions \ {o} /\ attached' = attached \ {o}
        /\ optionsSelected' = optionsSelected \ {o}
        /\ m_sGroupName' = [m_sGroupName EXCEPT ![o] = NONE]
        /\ strays' = strays /\ doubled' = doubled
    BY <1>3 DEF O!Destroy
  <2>2. g \in Groups \cup {NONE}
    BY <1>0
  <2> HIDE DEF g
  <2>3. /\ m_mOptionGroup' \in [Groups -> SUBSET Options]
        /\ \A h \in Groups : m_mOptionGroup'[h]
              = IF h = g /\ o \in attached THEN m_mOptionGroup[h] \ {o} ELSE m_mOptionGroup[h]
    <3>1. CASE o \in attached
      BY <3>1, <1>0, <2>1, <2>2, <1>none DEF O!Joined, O!Left
    <3>2. CASE o \notin attached
      BY <3>2, <1>0, <2>1
    <3> QED BY <3>1, <3>2
  <2>4. /\ m_sGroupName' \in [Options -> Groups \cup {NONE}]
        /\ \A p \in Options : p # o => m_sGroupName'[p] = m_sGroupName[p]
    BY <1>0, <2>1
  <2>5. ASSUME NEW h \in Groups, NEW p \in Options
        PROVE  p \in m_mOptionGroup'[h] <=> (p \in attached' /\ m_sGroupName'[p] = h) \/ p \in strays'[h]
    <3>0. p \in m_mOptionGroup[h] <=> (p \in attached /\ m_sGroupName[p] = h) \/ p \in strays[h]
      BY <1>members
    <3>1. CASE p = o
      <4>1. CASE h = g /\ o \in attached
        <5>1. o \notin strays[h]
          BY <4>1, <1>apart DEF g
        <5> QED BY <5>1, <4>1, <3>1, <2>1, <2>3
      <4>2. CASE ~(h = g /\ o \in attached)
        BY <4>2, <3>0, <3>1, <2>1, <2>3 DEF g
      <4> QED BY <4>1, <4>2
    <3>2. CASE p # o
      BY <3>0, <3>2, <1>0, <2>1, <2>3, <2>4
    <3> QED BY <3>1, <3>2
  <2>6. \A p, q \in optionsSelected' \cap attached' :
          m_sGroupName'[p] = m_sGroupName'[q] /\ m_sGroupName'[p] \notin doubled' \cup {NONE} => p = q
    BY <1>0, <1>apart, <2>1, <2>4
  <2>7. \A h \in Groups : \A p \in attached' : m_sGroupName'[p] = h => p \notin strays'[h]
    BY <1>0, <1>apart, <2>1, <2>4
  <2>8. /\ doubled' \subseteq Groups /\ attached' \subseteq aliveOptions'
        /\ optionsSelected' \subseteq aliveOptions' /\ aliveOptions' \subseteq Options
        /\ strays' \in [Groups -> SUBSET Options]
    BY <1>0, <2>1
  <2> QED BY <2>3, <2>4, <2>5, <2>6, <2>7, <2>8, OptionsInvNext
<1> QED BY <1>1, <1>2, <1>3

\* An option changes its group, or gives it up by SetGroup(NULL).
LEMMA OptionRegroups ==
  ASSUME O!ConstantsAssumption, OptionsInv, NEW o \in Options,
         O!SetGroupNull(o) \/ \E g \in Groups \cup {NONE} : O!SetGroup(o, g)
  PROVE  OptionsInv'
<1> DEFINE f == m_sGroupName[o]
<1>0. /\ m_mOptionGroup \in [Groups -> SUBSET Options] /\ strays \in [Groups -> SUBSET Options]
      /\ m_sGroupName \in [Options -> Groups \cup {NONE}] /\ f \in Groups \cup {NONE}
      /\ optionsSelected \subseteq aliveOptions /\ attached \subseteq aliveOptions
      /\ aliveOptions \subseteq Options /\ doubled \subseteq Groups
  BY OptionFacts
<1>members. \A h \in Groups : \A p \in Options :
              p \in m_mOptionGroup[h] <=> (p \in attached /\ m_sGroupName[p] = h) \/ p \in strays[h]
  BY OptionFacts
<1>apart. \A h \in Groups : \A p \in attached : m_sGroupName[p] = h => p \notin strays[h]
  BY OptionFacts
<1>1. NONE \notin Groups
  BY DEF O!ConstantsAssumption
<1>2. CASE O!SetGroupNull(o)
  <2>1. /\ m_sGroupName' = [m_sGroupName EXCEPT ![o] = NONE] /\ f # NONE
        /\ strays' = IF o \in attached THEN O!Joined(strays, o, f) ELSE strays
        /\ UNCHANGED <<m_mOptionGroup, optionsSelected, attached, aliveOptions, doubled>>
    BY <1>2 DEF O!SetGroupNull
  <2>2. /\ m_sGroupName' \in [Options -> Groups \cup {NONE}] /\ m_sGroupName'[o] = NONE
        /\ \A p \in Options : p # o => m_sGroupName'[p] = m_sGroupName[p]
    BY <1>0, <2>1
  <2>3. f \in Groups \cup {NONE}
    BY <1>0
  <2> HIDE DEF f
  <2>4. /\ strays' \in [Groups -> SUBSET Options]
        /\ \A h \in Groups : strays'[h]
             = IF h = f /\ o \in attached THEN strays[h] \cup {o} ELSE strays[h]
    <3>1. CASE o \in attached
      BY <3>1, <1>0, <2>1, <2>3, <1>1 DEF O!Joined, O!Left
    <3>2. CASE o \notin attached
      BY <3>2, <1>0, <2>1
    <3> QED BY <3>1, <3>2
  <2>5. ASSUME NEW h \in Groups, NEW p \in Options
        PROVE  p \in m_mOptionGroup'[h] <=> (p \in attached' /\ m_sGroupName'[p] = h) \/ p \in strays'[h]
    <3>0. p \in m_mOptionGroup[h] <=> (p \in attached /\ m_sGroupName[p] = h) \/ p \in strays[h]
      BY <1>members
    <3>1. CASE p = o
      BY <3>0, <3>1, <1>0, <1>1, <2>1, <2>2, <2>4 DEF f
    <3>2. CASE p # o
      <4>1. p \in strays'[h] <=> p \in strays[h]
        BY ONLY <3>2, <2>4
      <4>2. m_sGroupName'[p] = m_sGroupName[p]
        BY <3>2, <2>2
      <4> QED BY <3>0, <4>1, <4>2, <2>1
    <3> QED BY <3>1, <3>2
  <2>6. ASSUME NEW p \in optionsSelected' \cap attached', NEW q \in optionsSelected' \cap attached',
               m_sGroupName'[p] = m_sGroupName'[q], m_sGroupName'[p] \notin doubled' \cup {NONE}
        PROVE  p = q
    <3>1. p # o /\ q # o
      BY <2>2, <2>6
    <3> QED BY <3>1, <1>0, <2>1, <2>2, <2>6, OptionFacts DEF GroupsApart
  <2>7. ASSUME NEW h \in Groups, NEW p \in attached', m_sGroupName'[p] = h
        PROVE  p \notin strays'[h]
    <3>1. p # o /\ p \in attached
      BY <1>1, <2>1, <2>2, <2>7
    <3>2. m_sGroupName[p] = h /\ p \notin strays[h]
      BY <3>1, <1>0, <1>apart, <2>2, <2>7
    <3>3. strays'[h] \subseteq strays[h] \cup {o}
      BY <2>4
    <3> QED BY <3>1, <3>2, <3>3
  <2>8. /\ m_mOptionGroup' \in [Groups -> SUBSET Options]
        /\ doubled' \subseteq Groups /\ attached' \subseteq aliveOptions'
        /\ optionsSelected' \subseteq aliveOptions' /\ aliveOptions' \subseteq Options
    BY <1>0, <2>1
  <2> QED BY <2>2, <2>4, <2>5, <2>6, <2>7, <2>8, OptionsInvNext
<1>3. ASSUME NEW g \in Groups \cup {NONE}, O!SetGroup(o, g) PROVE OptionsInv'
  <2> DEFINE b == o \in optionsSelected
             names == m_sGroupName'
             groups == m_mOptionGroup'
             sel == optionsSelected'
             twice == doubled'
             left == O!Left(m_mOptionGroup, o, f)
  <2>1. /\ names = [m_sGroupName EXCEPT ![o] = g] /\ o \in aliveOptions /\ f # g
        /\ groups = IF o \in attached THEN O!Joined(left, o, g) ELSE m_mOptionGroup
        /\ sel = O!Chosen(o, g, groups, b) /\ twice = O!Single(o, g, b)
        /\ strays' = IF o \in attached THEN O!Left(strays, o, g) ELSE strays
        /\ attached' = attached /\ aliveOptions' = aliveOptions
    BY <1>3 DEF O!SetGroup, O!Regrouped
  <2>2. /\ names \in [Options -> Groups \cup {NONE}] /\ names[o] = g
        /\ \A p \in Options : p # o => names[p] = m_sGroupName[p]
    BY <1>0, <2>1
  <2>3. b \in BOOLEAN /\ (~b => o \notin optionsSelected) /\ f \in Groups \cup {NONE}
    BY <1>0
  <2>4. /\ left \in [Groups -> SUBSET Options]
        /\ \A h \in Groups : left[h] = IF h = f THEN m_mOptionGroup[h] \ {o} ELSE m_mOptionGroup[h]
    <3>1. f \in Groups \cup {NONE} /\ m_mOptionGroup \in [Groups -> SUBSET Options]
      BY <1>0
    <3> HIDE DEF f
    <3> QED BY ONLY <1>1, <3>1 DEF O!Left
  <2> HIDE DEF b, names, groups, sel, twice, left
  <2>5. /\ groups \in [Groups -> SUBSET Options]
        /\ \A h \in Groups : groups[h] =
             IF o \notin attached THEN m_mOptionGroup[h]
             ELSE IF h = g THEN left[h] \cup {o} ELSE left[h]
    <3>1. CASE o \in attached
      BY <3>1, <2>1, <2>4, <1>1 DEF O!Joined, O!Left
    <3>2. CASE o \notin attached
      BY <3>2, <1>0, <2>1
    <3> QED BY <3>1, <3>2
  <2>6. /\ strays' \in [Groups -> SUBSET Options]
        /\ \A h \in Groups : strays'[h]
             = IF h = g /\ o \in attached THEN strays[h] \ {o} ELSE strays[h]
    <3>1. CASE o \in attached
      BY <3>1, <1>0, <2>1, <1>1 DEF O!Joined, O!Left
    <3>2. CASE o \notin attached
      BY <3>2, <1>0, <2>1
    <3> QED BY <3>1, <3>2
  <2>7. ASSUME NEW h \in Groups, NEW p \in Options
        PROVE  p \in groups[h] <=> (p \in attached /\ names[p] = h) \/ p \in strays'[h]
    <3>0. p \in m_mOptionGroup[h] <=> (p \in attached /\ m_sGroupName[p] = h) \/ p \in strays[h]
      BY <1>members
    <3>1. CASE p = o /\ o \in attached
      <4>1. CASE h = g
        BY <3>1, <4>1, <2>2, <2>5, <2>6
      <4>2. CASE h # g /\ h = f
        <5>1. p \notin strays[h]
          BY <3>1, <4>2, <1>apart
        <5>2. p \notin groups[h]
          BY <3>1, <4>2, <2>4, <2>5
        <5> QED BY <3>1, <4>2, <5>1, <5>2, <2>2, <2>6
      <4>3. CASE h # g /\ h # f
        BY <3>0, <3>1, <4>3, <1>0, <2>2, <2>4, <2>5, <2>6
      <4> QED BY <4>1, <4>2, <4>3
    <3>2. CASE p = o /\ o \notin attached
      BY <3>0, <3>2, <1>0, <2>5, <2>6
    <3>3. CASE p # o
      BY <3>0, <3>3, <1>0, <2>2, <2>4, <2>5, <2>6
    <3> QED BY <3>1, <3>2, <3>3
  <2>8. InGroup(groups, names, g)
    BY <2>7, <1>0 DEF InGroup
  <2>9. sel \subseteq aliveOptions /\ twice \subseteq Groups /\ GroupsApart(sel, names, twice)
    BY <2>1, <2>2, <2>3, <2>8, ChosenOneOption
  <2>10. ASSUME NEW h \in Groups, NEW p \in attached', names[p] = h PROVE p \notin strays'[h]
    <3>1. strays'[h] \subseteq strays[h] /\ (p = o => o \notin strays'[h])
      <4>1. strays'[h] = IF h = g /\ o \in attached THEN strays[h] \ {o} ELSE strays[h]
        BY <2>6
      <4>2. p = o => h = g /\ o \in attached
        BY <1>0, <2>1, <2>2, <2>10
      <4> QED BY <4>1, <4>2
    <3>2. p # o => p \notin strays[h]
      BY <1>0, <1>apart, <2>1, <2>2, <2>10
    <3> QED BY <3>1, <3>2
  <2> QED BY <1>0, <2>1, <2>2, <2>5, <2>6, <2>7, <2>9, <2>10, OptionsInvNext
          DEF names, groups, sel, twice, GroupsApart
<1> QED BY <1>2, <1>3

\* An option is selected or not.
LEMMA OptionChosen ==
  ASSUME OptionsInv, NEW o \in Options, NEW b \in BOOLEAN, O!Selected(o, b)
  PROVE  OptionsInv'
<1> DEFINE g == m_sGroupName[o]
           sel == optionsSelected'
           twice == doubled'
<1>0. /\ o \in aliveOptions /\ sel = O!Chosen(o, g, m_mOptionGroup, b) /\ twice = O!Single(o, g, b)
      /\ UNCHANGED <<m_mOptionGroup, m_sGroupName, attached, aliveOptions, strays>>
  BY DEF O!Selected
<1>1. g \in Groups \cup {NONE} /\ m_sGroupName = [m_sGroupName EXCEPT ![o] = g]
      /\ m_sGroupName \in [Options -> Groups \cup {NONE}]
  BY OptionFacts
<1>2. InGroup(m_mOptionGroup, m_sGroupName, g)
  BY OptionFacts DEF InGroup
<1> HIDE DEF g, sel, twice
<1>3. sel \subseteq aliveOptions /\ twice \subseteq Groups /\ GroupsApart(sel, m_sGroupName, twice)
  BY <1>0, <1>1, <1>2, ChosenOneOption
<1> QED BY <1>0, <1>3, OptionFacts, OptionsInvNext DEF sel, twice, GroupsApart

\* Each step keeps the invariant.
LEMMA OptionsNextKeeps == O!ConstantsAssumption => (OptionsInv /\ [O!Next]_(O!vars) => OptionsInv')
<1> SUFFICES ASSUME O!ConstantsAssumption, OptionsInv, [O!Next]_(O!vars) PROVE OptionsInv'
  OBVIOUS
<1>1. ASSUME NEW o \in Options, O!Activate(o) PROVE OptionsInv'
  <2> DEFINE b == m_sGroupName[o] # NONE \/ o \notin optionsSelected
  <2>1. b \in BOOLEAN
    OBVIOUS
  <2>2. O!Selected(o, b)
    BY <1>1 DEF O!Activate
  <2> HIDE DEF b
  <2> QED BY <2>1, <2>2, OptionChosen
<1>2. CASE UNCHANGED O!vars
  BY <1>2 DEF O!vars, OptionsInv, O!TypeOK, O!MembersMatch, O!OneSelected, StraysApart
<1> QED BY <1>1, <1>2, OptionComesOrGoes, OptionRegroups, OptionChosen DEF O!Next

\* At first there is no option.
LEMMA OptionsInitKeeps == O!Init => OptionsInv
BY DEF O!Init, OptionsInv, O!TypeOK, O!MembersMatch, O!OneSelected, StraysApart

\* UIOption.cpp: for any sets of options and groups, the members of a group are the options
\* of the window with its name and those whose name SetGroup(NULL) has emptied since; and at
\* most one is selected, but for options that joined a group already selected.
THEOREM GroupsAlwaysMatch == PartsSpec => []GroupsMatch
<1>1. PartsInit => OptionsInv
  BY OptionsInitKeeps DEF PartsInit
<1>2. OptionsInv /\ [PartsNext]_<<part, partVars>> => OptionsInv'
  <2>1. [PartsNext]_<<part, partVars>> => [O!Next]_(O!vars)
    BY DEF PartsNext, partVars, optionVars, O!vars
  <2> QED BY <2>1, OptionsNextKeeps, ContainersAssumption
<1>3. OptionsInv => GroupsMatch
  BY DEF OptionsInv, GroupsMatch
<1> QED BY <1>1, <1>2, <1>3, PTL DEF PartsSpec

-----------------------------------------------------------------------------
(* The tab layout.                                                         *)

TabInv == Tab!TypeOK /\ Different(pages) /\ Tab!CurrentShown

\* What a step of the tab layout must not do to the current page.
TabStep == TabInv' /\ Tab!StaysCurrent

\* The pages by their positions.
LEMMA TabFacts ==
  ASSUME TabInv
  PROVE  /\ pages \in Seq(Pages) /\ Len(pages) \in Nat /\ DOMAIN pages = 1..Len(pages)
         /\ curPage \in Int /\ curPage >= -1 /\ curPage < Len(pages)
         /\ \A k \in 1..Len(pages) : pages[k] \in Pages
         /\ visiblePages \subseteq Pages
         /\ curPage # -1 => pages[curPage + 1] \in visiblePages
         /\ \A p : p \in Tab!In <=> \E k \in 1..Len(pages) : pages[k] = p
<1>1. pages \in Seq(Pages) /\ visiblePages \subseteq Pages /\ curPage \in -1..(Len(pages) - 1)
  BY DEF TabInv, Tab!TypeOK
<1>2. Len(pages) \in Nat /\ DOMAIN pages = 1..Len(pages) /\ \A k \in 1..Len(pages) : pages[k] \in Pages
  BY <1>1
<1>3. curPage # -1 => pages[curPage + 1] \in visiblePages
  BY DEF TabInv, Tab!CurrentShown, Tab!ItemAt
<1>4. \A p : p \in Tab!In <=> \E k \in 1..Len(pages) : pages[k] = p
  BY <1>2 DEF Tab!In
<1> QED BY <1>1, <1>2, <1>3, <1>4

\* A page that is prepared is not in the layout.
LEMMA TabPrepare ==
  ASSUME TabInv, NEW p \in Pages, Tab!Prepare(p)
  PROVE  TabStep
<1>1. /\ pages' = pages /\ curPage' = curPage /\ tabVisible' = tabVisible
      /\ visiblePages' = (visiblePages \ {p}) \cup ({p} \ visiblePages)
      /\ p \notin Tab!In
  BY DEF Tab!Prepare
<1>2. curPage # -1 => pages[curPage + 1] # p
  BY <1>1, TabFacts
<1>3. Tab!CurrentShown'
  BY <1>1, <1>2, TabFacts DEF Tab!CurrentShown, Tab!ItemAt
<1>4. Tab!TypeOK'
  BY <1>1, TabFacts DEF TabInv, Tab!TypeOK
<1>5. Different(pages)'
  BY <1>1 DEF TabInv, Different
<1>6. Tab!StaysCurrent
  BY <1>1 DEF Tab!StaysCurrent
<1> QED BY <1>3, <1>4, <1>5, <1>6 DEF TabStep, TabInv

\* A page behind all others.
LEMMA TabAdd ==
  ASSUME TabInv, NEW p \in Pages, Tab!Add(p)
  PROVE  TabStep
<1> DEFINE n == Len(pages)
<1>0. n \in Nat /\ DOMAIN pages = 1..n
  BY TabFacts
<1>1. /\ pages' = Append(pages, p) /\ p \notin Tab!In /\ tabVisible' = tabVisible
      /\ \/ curPage = -1 /\ p \in visiblePages /\ curPage' = n /\ visiblePages' = visiblePages
         \/ visiblePages' = visiblePages \ {p} /\ curPage' = curPage
  BY DEF Tab!Add, Tab!IsVisible
<1>2. /\ pages' \in Seq(Pages) /\ Len(pages') = n + 1 /\ DOMAIN pages' = 1..(n + 1)
      /\ \A k \in 1..n : pages'[k] = pages[k]
      /\ pages'[n + 1] = p
  BY <1>0, <1>1, TabFacts, AppendProperties
<1>3. \A k \in 1..n : pages[k] # p
  BY <1>1, TabFacts
<1>4. Different(pages)'
  BY <1>0, <1>2, <1>3 DEF TabInv, Different
<1>5. /\ curPage' \in -1..(Len(pages') - 1) /\ visiblePages' \subseteq Pages
      /\ curPage' # -1 => pages'[curPage' + 1] \in visiblePages'
      /\ curPage # -1 => curPage' = curPage /\ pages'[curPage + 1] = pages[curPage + 1]
  <2>1. CASE curPage = -1 /\ p \in visiblePages /\ curPage' = n /\ visiblePages' = visiblePages
    BY <2>1, <1>0, <1>2, TabFacts
  <2>2. CASE visiblePages' = visiblePages \ {p} /\ curPage' = curPage
    <3>1. curPage # -1 => curPage + 1 \in 1..n
      BY TabFacts
    <3> QED BY <2>2, <3>1, <1>0, <1>2, <1>3, TabFacts
  <2> QED BY <1>1, <2>1, <2>2
<1>6. Tab!StaysCurrent
  BY <1>5 DEF Tab!StaysCurrent, Tab!ItemAt
<1>7. Tab!TypeOK'
  BY <1>1, <1>2, <1>5 DEF TabInv, Tab!TypeOK
<1>8. Tab!CurrentShown'
  BY <1>5 DEF Tab!CurrentShown, Tab!ItemAt
<1> QED BY <1>4, <1>6, <1>7, <1>8 DEF TabStep, TabInv

\* A page between the others: those behind it move, the current one with them.
LEMMA TabAddAt ==
  ASSUME TabInv, NEW p \in Pages, NEW i \in 0..Len(pages), Tab!AddAt(p, i)
  PROVE  TabStep
<1> DEFINE n == Len(pages)
<1>0. n \in Nat /\ DOMAIN pages = 1..n /\ i \in Int
  BY TabFacts
<1>1. /\ pages' = InsertAt(pages, i + 1, p) /\ p \notin Tab!In /\ tabVisible' = tabVisible
      /\ \/ curPage = -1 /\ p \in visiblePages /\ curPage' = i /\ visiblePages' = visiblePages
         \/ curPage # -1 /\ i <= curPage /\ curPage' = curPage + 1 /\ visiblePages' = visiblePages
         \/ /\ ~(curPage # -1 /\ i <= curPage)
            /\ visiblePages' = visiblePages \ {p} /\ curPage' = curPage
  BY DEF Tab!AddAt, Tab!IsVisible, Tab!SX!InsertAt, InsertAt
<1>2. \A k \in 1..n : pages[k] # p
  BY <1>1, TabFacts
<1>3. /\ pages' \in Seq(Pages) /\ Len(pages') = n + 1 /\ Different(pages')
      /\ \A k \in 1..i : pages'[k] = pages[k]
      /\ \A k \in (i + 1)..n : pages'[k + 1] = pages[k]
      /\ pages'[i + 1] = p
  <2>1. i + 1 \in 1..(n + 1) /\ (i + 1) - 1 = i
    BY <1>0
  <2> QED BY <2>1, <1>1, <1>2, TabFacts, Inserted, SMTT(40) DEF TabInv
<1>4. /\ curPage' \in -1..(Len(pages') - 1) /\ visiblePages' \subseteq Pages
      /\ curPage' # -1 => pages'[curPage' + 1] \in visiblePages'
      /\ curPage # -1 => curPage' # -1 /\ pages'[curPage' + 1] = pages[curPage + 1]
  <2>1. CASE curPage = -1 /\ p \in visiblePages /\ curPage' = i /\ visiblePages' = visiblePages
    BY <2>1, <1>0, <1>3, TabFacts
  <2>2. CASE curPage # -1 /\ i <= curPage /\ curPage' = curPage + 1 /\ visiblePages' = visiblePages
    <3>1. curPage + 1 \in (i + 1)..n
      BY <2>2, <1>0, TabFacts
    <3>2. pages'[(curPage + 1) + 1] = pages[curPage + 1]
      BY <3>1, <1>3
    <3> QED BY <2>2, <3>2, <1>0, <1>3, TabFacts
  <2>3. CASE ~(curPage # -1 /\ i <= curPage) /\ visiblePages' = visiblePages \ {p} /\ curPage' = curPage
    <3>1. curPage # -1 => curPage + 1 \in 1..i /\ curPage + 1 \in 1..n
      BY <2>3, <1>0, TabFacts
    <3> QED BY <2>3, <3>1, <1>0, <1>2, <1>3, TabFacts
  <2> QED BY <1>1, <2>1, <2>2, <2>3
<1>6. Tab!StaysCurrent
  BY <1>4 DEF Tab!StaysCurrent, Tab!ItemAt
<1>7. Tab!TypeOK'
  BY <1>1, <1>3, <1>4 DEF TabInv, Tab!TypeOK
<1>8. Tab!CurrentShown'
  BY <1>4 DEF Tab!CurrentShown, Tab!ItemAt
<1> QED BY <1>3, <1>6, <1>7, <1>8 DEF TabStep, TabInv

\* What a removal of the page at q does, position by position.
LEMMA TabRemoved ==
  ASSUME TabInv, NEW p \in Pages, Tab!Remove(p)
  PROVE  \E q \in 1..Len(pages) :
           /\ pages[q] = p
           /\ pages' \in Seq(Pages) /\ Len(pages') = Len(pages) - 1 /\ Different(pages')
           /\ \A k \in 1..(q - 1) : pages'[k] = pages[k]
           /\ \A k \in (q + 1)..Len(pages) : pages'[k - 1] = pages[k]
           /\ \A k \in 1..(Len(pages) - 1) : pages'[k] # p
           /\ curPage' = IF curPage = q - 1 THEN (IF pages' = <<>> THEN -1 ELSE 0)
                         ELSE IF curPage > q - 1 THEN curPage - 1 ELSE curPage
           /\ visiblePages' = visiblePages \cup {p}
                \cup (IF curPage = q - 1 /\ pages' # <<>> THEN {pages'[1]} ELSE {})
           /\ tabVisible' = tabVisible
<1> DEFINE q == CHOOSE k \in DOMAIN pages : pages[k] = p
<1>1. q \in 1..Len(pages) /\ pages[q] = p /\ Len(pages) \in Nat
  <2>1. \E k \in DOMAIN pages : pages[k] = p
    BY TabFacts DEF Tab!Remove
  <2> QED BY <2>1, TabFacts
<1>2. (q - 1) + 1 = q
  BY <1>1
<1>3. /\ pages' = RemoveAt(pages, q)
      /\ curPage' = IF curPage = q - 1 THEN (IF pages' = <<>> THEN -1 ELSE 0)
                    ELSE IF curPage > q - 1 THEN curPage - 1 ELSE curPage
      /\ visiblePages' = visiblePages \cup {p}
           \cup (IF curPage = q - 1 /\ pages' # <<>> THEN {pages'[1]} ELSE {})
      /\ tabVisible' = tabVisible
  BY <1>2 DEF Tab!Remove, Tab!SX!RemoveAt, RemoveAt
<1> HIDE DEF q
<1>4. /\ pages' \in Seq(Pages) /\ Len(pages') = Len(pages) - 1 /\ Different(pages')
      /\ \A k \in 1..(q - 1) : pages'[k] = pages[k]
      /\ \A k \in (q + 1)..Len(pages) : pages'[k - 1] = pages[k]
      /\ \A k \in 1..(Len(pages) - 1) : pages'[k] # p
  <2>1. pages \in Seq(Pages) /\ Different(pages)
    BY TabFacts DEF TabInv
  <2> DEFINE t == pages'
  <2>2. t = RemoveAt(pages, q)
    BY <1>3
  <2> HIDE DEF t
  <2>3. q \in 1..Len(pages)
    BY <1>1
  <2>4. t \in Seq(Pages)
    BY ONLY <2>1, <2>2, <2>3, Removed
  <2>5. Len(t) = Len(pages) - 1
    BY ONLY <2>1, <2>2, <2>3, Removed
  <2>6. Different(t)
    BY ONLY <2>1, <2>2, <2>3, Removed
  <2>7. \A k \in 1..(q - 1) : t[k] = pages[k]
    BY ONLY <2>1, <2>2, <2>3, Removed
  <2>8. ASSUME NEW k \in (q + 1)..Len(pages) PROVE t[k - 1] = pages[k]
    <3>1. \A l \in 1..(Len(pages) - 1) : t[l] = IF l < q THEN pages[l] ELSE pages[l + 1]
      <4>1. IsRemoved(t, pages, q)
        BY ONLY <2>1, <2>2, <2>3, RemoveAtItems
      <4> QED BY <4>1 DEF IsRemoved
    <3>2. k - 1 \in 1..(Len(pages) - 1) /\ ~(k - 1 < q) /\ (k - 1) + 1 = k
      BY <1>1, <2>8
    <3> QED BY <3>1, <3>2
  <2>9. ASSUME NEW k \in 1..(Len(pages) - 1) PROVE t[k] # pages[q]
    <3>1. Lacks(t, pages[q], Len(pages) - 1)
      BY ONLY <2>1, <2>2, <2>3, Removed
    <3> QED BY <3>1 DEF Lacks
  <2> QED BY <1>1, <2>4, <2>5, <2>6, <2>7, <2>8, <2>9 DEF t
<1>5. q \in 1..Len(pages)
  BY <1>1
<1> WITNESS q \in 1..Len(pages)
<1> QED BY <1>1, <1>3, <1>4

\* A page that is removed takes nothing away from the current one, or the first follows it.
LEMMA TabRemove ==
  ASSUME TabInv, NEW p \in Pages, Tab!Remove(p)
  PROVE  TabStep
<1> DEFINE n == Len(pages)
<1>0. n \in Nat /\ DOMAIN pages = 1..n
  BY TabFacts
<1>1. PICK q \in 1..n :
        /\ pages[q] = p
        /\ pages' \in Seq(Pages) /\ Len(pages') = n - 1 /\ Different(pages')
        /\ \A k \in 1..(q - 1) : pages'[k] = pages[k]
        /\ \A k \in (q + 1)..n : pages'[k - 1] = pages[k]
        /\ \A k \in 1..(n - 1) : pages'[k] # p
        /\ curPage' = IF curPage = q - 1 THEN (IF pages' = <<>> THEN -1 ELSE 0)
                      ELSE IF curPage > q - 1 THEN curPage - 1 ELSE curPage
        /\ visiblePages' = visiblePages \cup {p}
             \cup (IF curPage = q - 1 /\ pages' # <<>> THEN {pages'[1]} ELSE {})
        /\ tabVisible' = tabVisible
  BY TabRemoved
<1>2. q \in Int /\ DOMAIN pages' = 1..(n - 1) /\ n - 1 \in Nat
      /\ (pages' # <<>> => n - 1 >= 1)
      /\ \A k \in 1..(n - 1) : pages'[k] \in Pages
  <2>1. n - 1 \in Nat /\ DOMAIN pages' = 1..(n - 1) /\ \A k \in 1..(n - 1) : pages'[k] \in Pages
    BY <1>0, <1>1
  <2>2. pages' # <<>> => n - 1 # 0
    BY <1>1, EmptySeq
  <2> QED BY <1>0, <2>1, <2>2
<1>3. CASE curPage = q - 1
  <2>1. /\ curPage' = IF pages' = <<>> THEN -1 ELSE 0
        /\ visiblePages' = visiblePages \cup {p} \cup (IF pages' # <<>> THEN {pages'[1]} ELSE {})
    BY <1>1, <1>3
  <2>2. pages' # <<>> => 1 \in 1..(n - 1) /\ pages'[1] \in Pages /\ pages'[curPage' + 1] \in visiblePages'
    BY <1>2, <2>1
  <2>3. visiblePages' \subseteq Pages /\ curPage' \in -1..(Len(pages') - 1)
    BY <1>1, <1>2, <2>1, <2>2, TabFacts
  <2>4. pages[curPage + 1] = p /\ \A k \in DOMAIN pages' : pages'[k] # p
    BY <1>1, <1>2, <1>3
  <2>5. Tab!StaysCurrent
    BY <2>4 DEF Tab!StaysCurrent, Tab!ItemAt
  <2>6. Tab!CurrentShown'
    BY <2>1, <2>2 DEF Tab!CurrentShown, Tab!ItemAt
  <2>7. Tab!TypeOK'
    BY <1>1, <2>3 DEF TabInv, Tab!TypeOK
  <2> QED BY <1>1, <2>5, <2>6, <2>7 DEF TabStep, TabInv
<1>4. CASE curPage # q - 1
  <2>1. /\ curPage' = IF curPage > q - 1 THEN curPage - 1 ELSE curPage
        /\ visiblePages' = visiblePages \cup {p}
    BY <1>1, <1>4
  <2>2. /\ curPage' \in -1..(Len(pages') - 1)
        /\ curPage # -1 => curPage' # -1 /\ pages'[curPage' + 1] = pages[curPage + 1]
        /\ curPage = -1 => curPage' = -1
    <3>1. CASE curPage > q - 1
      <4>1. curPage + 1 \in (q + 1)..n
        BY <3>1, <1>0, <1>2, TabFacts
      <4>2. pages'[(curPage + 1) - 1] = pages[curPage + 1] /\ (curPage + 1) - 1 = curPage
        BY <4>1, <1>1, TabFacts, SMTT(40)
      <4> QED BY <4>1, <4>2, <3>1, <2>1, <1>1, <1>2, TabFacts, SMTT(40)
    <3>2. CASE curPage < q - 1
      <4>1. curPage # -1 => curPage + 1 \in 1..(q - 1)
        BY <3>2, <1>0, <1>2, TabFacts
      <4> QED BY <4>1, <3>2, <2>1, <1>1, <1>2, TabFacts, SMTT(40)
    <3> QED BY <3>1, <3>2, <1>2, <1>4, TabFacts, SMTT(40)
  <2>3. visiblePages' \subseteq Pages
    BY <2>1, TabFacts
  <2>5. Tab!StaysCurrent
    BY <2>2 DEF Tab!StaysCurrent, Tab!ItemAt
  <2>6. Tab!CurrentShown'
    BY <2>1, <2>2, TabFacts DEF Tab!CurrentShown, Tab!ItemAt
  <2>7. Tab!TypeOK'
    BY <1>1, <2>2, <2>3 DEF TabInv, Tab!TypeOK
  <2> QED BY <1>1, <2>5, <2>6, <2>7 DEF TabStep, TabInv
<1> QED BY <1>3, <1>4

\* The other operations: no page comes or goes by itself.
LEMMA TabOthers ==
  ASSUME TabInv,
         \/ \E i \in 0..(Len(pages) - 1) : Tab!SelectItem(i)
         \/ Tab!RemoveAll \/ Tab!SetVisible \/ UNCHANGED tabVars
  PROVE  TabStep
<1>1. ASSUME NEW i \in 0..(Len(pages) - 1), Tab!SelectItem(i) PROVE TabStep
  <2>1. /\ pages' = pages /\ tabVisible' = tabVisible /\ curPage' = i
        /\ visiblePages' = (visiblePages \ Tab!In) \cup {pages[i + 1]}
    BY <1>1 DEF Tab!SelectItem, Tab!ItemAt
  <2>2. pages[i + 1] \in Pages /\ i \in -1..(Len(pages) - 1)
    BY TabFacts
  <2>3. Tab!TypeOK'
    BY <2>1, <2>2, TabFacts DEF TabInv, Tab!TypeOK
  <2>4. Tab!CurrentShown' /\ Tab!StaysCurrent
    BY <2>1 DEF Tab!CurrentShown, Tab!StaysCurrent, Tab!ItemAt
  <2>5. Different(pages')
    BY <2>1 DEF TabInv
  <2> QED BY <2>3, <2>4, <2>5 DEF TabStep, TabInv
<1>2. CASE Tab!RemoveAll
  <2>1. /\ pages' = <<>> /\ curPage' = -1 /\ tabVisible' = tabVisible
        /\ visiblePages' = visiblePages \cup Tab!In
    BY <1>2 DEF Tab!RemoveAll
  <2>2. pages' \in Seq(Pages) /\ Len(pages') = 0 /\ DOMAIN pages' = {} /\ Different(pages')
    BY <2>1 DEF Different
  <2>3. Tab!In \subseteq Pages
    BY TabFacts
  <2>4. Tab!TypeOK'
    BY <2>1, <2>2, <2>3, TabFacts DEF TabInv, Tab!TypeOK
  <2>5. Tab!CurrentShown' /\ Tab!StaysCurrent
    BY <2>1, <2>2 DEF Tab!CurrentShown, Tab!StaysCurrent
  <2> QED BY <2>2, <2>4, <2>5 DEF TabStep, TabInv
<1>3. CASE Tab!SetVisible \/ UNCHANGED tabVars
  <2>1. pages' = pages /\ curPage' = curPage /\ visiblePages' = visiblePages /\ tabVisible' \in BOOLEAN
    BY <1>3 DEF Tab!SetVisible, tabVars, TabInv, Tab!TypeOK
  <2> QED BY <2>1 DEF TabStep, TabInv, Tab!TypeOK, Tab!CurrentShown, Tab!StaysCurrent, Tab!ItemAt
<1> QED BY <1>1, <1>2, <1>3

\* UITabLayout.cpp: each method of the tab layout keeps the current page current and shown.
LEMMA TabNext == TabInv /\ [Tab!Next]_tabVars => TabStep
BY TabPrepare, TabAdd, TabAddAt, TabRemove, TabOthers DEF Tab!Next, Tab!Others

\* Inserting only behind the current page, or what is hidden, is a way of inserting.
LEMMA BehindIsInserting == Tab!NextBehind => Tab!Next
BY DEF Tab!NextBehind, Tab!Next

\* Nothing visible is put before the current page: the others stay hidden.
LEMMA BehindAddAt ==
  ASSUME TabInv, Tab!OnlyCurrentShown,
         NEW p \in Pages, NEW i \in 0..Len(pages),
         i > curPage \/ p \notin visiblePages, Tab!AddAt(p, i)
  PROVE  Tab!OnlyCurrentShown'
<1> DEFINE n == Len(pages)
<1>0. n \in Nat /\ DOMAIN pages = 1..n /\ i \in Int
  BY TabFacts
<1>1. /\ pages' = InsertAt(pages, i + 1, p) /\ p \notin Tab!In
      /\ i > curPage \/ p \notin visiblePages
      /\ \/ curPage = -1 /\ p \in visiblePages /\ curPage' = i /\ visiblePages' = visiblePages
         \/ curPage # -1 /\ i <= curPage /\ curPage' = curPage + 1 /\ visiblePages' = visiblePages
         \/ /\ ~(curPage # -1 /\ i <= curPage)
            /\ visiblePages' = visiblePages \ {p} /\ curPage' = curPage
  BY DEF Tab!AddAt, Tab!IsVisible, Tab!SX!InsertAt, InsertAt
<1>2. \A k \in 1..n : pages[k] \in visiblePages => k - 1 = curPage
  BY <1>0 DEF Tab!OnlyCurrentShown
<1>3. /\ pages' \in Seq(Pages) /\ Len(pages') = n + 1
      /\ \A k \in 1..i : pages'[k] = pages[k]
      /\ \A k \in (i + 1)..n : pages'[k + 1] = pages[k]
      /\ pages'[i + 1] = p
  <2>1. i + 1 \in 1..(n + 1) /\ (i + 1) - 1 = i /\ \A k \in 1..n : pages[k] # p
    BY <1>0, <1>1, TabFacts
  <2> QED BY <2>1, <1>1, TabFacts, Inserted, SMTT(40) DEF TabInv
<1>4. ASSUME NEW k \in 1..(n + 1), pages'[k] \in visiblePages' PROVE k - 1 = curPage'
  <2>0. k \in Int /\ visiblePages' \subseteq visiblePages /\ curPage \in Int
    BY <1>1, TabFacts
  <2>1. CASE k < i + 1
    <3>1. k \in 1..i /\ k \in 1..n
      BY <2>0, <2>1, <1>0
    <3>2. pages[k] \in visiblePages
      BY <3>1, <2>0, <1>3, <1>4
    <3> QED BY <3>1, <3>2, <2>1, <1>0, <1>1, <1>2, <2>0
  <2>2. CASE k = i + 1
    <3>1. p \in visiblePages'
      BY <2>2, <1>3, <1>4
    <3>2. curPage = -1 /\ curPage' = i
      BY <3>1, <1>0, <1>1, <2>0
    <3> QED BY <3>2, <2>2, <1>0
  <2>3. CASE k > i + 1
    <3>1. k - 1 \in 1..n /\ pages[k - 1] \in visiblePages
      <4>1. k - 1 \in (i + 1)..n /\ (k - 1) + 1 = k
        BY <2>0, <2>3, <1>0
      <4>2. pages'[k] = pages[k - 1]
        BY <4>1, <1>3
      <4> QED BY <4>1, <4>2, <2>0, <1>0, <1>4
    <3>2. (k - 1) - 1 = curPage
      BY <3>1, <1>2
    <3>3. curPage # -1 /\ i <= curPage
      BY <3>2, <2>3, <1>0, <2>0
    <3> QED BY <3>2, <3>3, <1>1, <2>0
  <2> QED BY <2>1, <2>2, <2>3, <2>0, <1>0
<1>5. DOMAIN pages' = 1..(n + 1)
  BY <1>3
<1> QED BY <1>4, <1>5 DEF Tab!OnlyCurrentShown

\* As long as nothing visible is inserted before the current page, only that one is shown.
LEMMA BehindNext ==
  ASSUME TabInv, Tab!OnlyCurrentShown, [Tab!NextBehind]_tabVars
  PROVE  Tab!OnlyCurrentShown'
<1> DEFINE n == Len(pages)
<1>0. n \in Nat /\ DOMAIN pages = 1..n /\ curPage \in Int
  BY TabFacts
<1>1. \A k \in 1..n : pages[k] \in visiblePages => k - 1 = curPage
  BY <1>0 DEF Tab!OnlyCurrentShown
<1>2. ASSUME NEW p \in Pages, Tab!Prepare(p) PROVE Tab!OnlyCurrentShown'
  <2>1. /\ pages' = pages /\ curPage' = curPage /\ p \notin Tab!In
        /\ visiblePages' \subseteq visiblePages \cup {p}
    BY <1>2 DEF Tab!Prepare
  <2> QED BY <2>1, <1>0, <1>1, TabFacts DEF Tab!OnlyCurrentShown
<1>3. ASSUME NEW p \in Pages, Tab!Add(p) PROVE Tab!OnlyCurrentShown'
  <2>1. /\ pages' = Append(pages, p) /\ p \notin Tab!In
        /\ \/ curPage = -1 /\ curPage' = n /\ visiblePages' = visiblePages
           \/ visiblePages' = visiblePages \ {p} /\ curPage' = curPage
    BY <1>3 DEF Tab!Add, Tab!IsVisible
  <2>2. /\ Len(pages') = n + 1 /\ DOMAIN pages' = 1..(n + 1)
        /\ \A k \in 1..n : pages'[k] = pages[k]
        /\ pages'[n + 1] = p
    BY <1>0, <2>1, TabFacts, AppendProperties
  <2>3. ASSUME NEW k \in 1..(n + 1), pages'[k] \in visiblePages' PROVE k - 1 = curPage'
    <3>1. CASE k = n + 1
      BY <3>1, <1>0, <2>1, <2>2, <2>3
    <3>2. CASE k # n + 1
      <4>1. k \in 1..n /\ pages[k] \in visiblePages /\ k - 1 # -1
        BY <3>2, <1>0, <2>1, <2>2, <2>3
      <4>2. k - 1 = curPage
        BY <4>1, <1>1
      <4> QED BY <4>1, <4>2, <2>1
    <3> QED BY <3>1, <3>2
  <2> QED BY <2>2, <2>3 DEF Tab!OnlyCurrentShown
<1>4. ASSUME NEW p \in Pages, Tab!Remove(p) PROVE Tab!OnlyCurrentShown'
  <2>2. PICK q \in 1..n :
          /\ pages[q] = p
          /\ pages' \in Seq(Pages) /\ Len(pages') = n - 1 /\ Different(pages')
          /\ \A k \in 1..(q - 1) : pages'[k] = pages[k]
          /\ \A k \in (q + 1)..n : pages'[k - 1] = pages[k]
          /\ \A k \in 1..(n - 1) : pages'[k] # p
          /\ curPage' = IF curPage = q - 1 THEN (IF pages' = <<>> THEN -1 ELSE 0)
                        ELSE IF curPage > q - 1 THEN curPage - 1 ELSE curPage
          /\ visiblePages' = visiblePages \cup {p}
               \cup (IF curPage = q - 1 /\ pages' # <<>> THEN {pages'[1]} ELSE {})
          /\ tabVisible' = tabVisible
    BY <1>4, TabRemoved
  <2>3. DOMAIN pages' = 1..(n - 1) /\ q \in Int
    BY <2>2, <1>0
  <2>4. ASSUME NEW k \in 1..(n - 1), pages'[k] \in visiblePages' PROVE k - 1 = curPage'
    <3>1. pages'[k] # p /\ pages' # <<>>
      <4>1. pages' \in Seq(Pages) /\ Len(pages') = n - 1 /\ n - 1 # 0
        BY <2>2, <1>0
      <4>2. pages' # <<>>
        BY <4>1, EmptySeq
      <4> QED BY <4>2, <2>2
    <3>2. CASE curPage = q - 1 /\ pages'[k] = pages'[1]
      <4>1. k = 1
        BY <3>2, <2>2, <1>0 DEF Different
      <4> QED BY <4>1, <3>1, <3>2, <2>2
    <3>3. CASE ~(curPage = q - 1 /\ pages'[k] = pages'[1])
      <4>1. pages'[k] \in visiblePages
        BY <3>1, <3>3, <2>2, <2>4
      <4>2. CASE k < q
        <5>1. k \in 1..(q - 1) /\ k \in 1..n
          BY <4>2, <2>3, <1>0
        <5>2. pages[k] \in visiblePages
          BY <5>1, <4>1, <2>2
        <5>3. k - 1 = curPage
          BY <5>1, <5>2, <1>1
        <5>4. curPage' = curPage
          BY <5>3, <4>2, <2>2, <2>3
        <5> QED BY <5>3, <5>4
      <4>3. CASE k >= q
        <5>1. k + 1 \in (q + 1)..n /\ k + 1 \in 1..n /\ (k + 1) - 1 = k
          BY <4>3, <2>3, <1>0
        <5>2. pages[k + 1] \in visiblePages
          BY <5>1, <4>1, <2>2
        <5>3. k = curPage
          BY <5>1, <5>2, <1>1
        <5>4. curPage' = curPage - 1
          BY <5>3, <4>3, <2>2, <2>3
        <5> QED BY <5>3, <5>4
      <4> QED BY <4>2, <4>3, <2>3, <1>0
    <3> QED BY <3>2, <3>3
  <2> QED BY <2>3, <2>4 DEF Tab!OnlyCurrentShown
<1>5. ASSUME NEW i \in 0..(n - 1), Tab!SelectItem(i) PROVE Tab!OnlyCurrentShown'
  <2>1. /\ pages' = pages /\ curPage' = i /\ i + 1 \in 1..n
        /\ visiblePages' = (visiblePages \ Tab!In) \cup {pages[i + 1]}
    BY <1>0, <1>5 DEF Tab!SelectItem, Tab!ItemAt
  <2>2. ASSUME NEW k \in 1..n, pages[k] \in visiblePages' PROVE k - 1 = i
    <3>1. pages[k] = pages[i + 1]
      BY <2>1, <2>2, TabFacts
    <3> QED BY <3>1, <2>1, <1>0 DEF TabInv, Different
  <2> QED BY <2>1, <2>2, <1>0 DEF Tab!OnlyCurrentShown
<1>6. CASE Tab!RemoveAll
  <2>1. DOMAIN pages' = {}
    BY <1>6 DEF Tab!RemoveAll
  <2> QED BY <2>1 DEF Tab!OnlyCurrentShown
<1>7. CASE Tab!SetVisible \/ UNCHANGED tabVars
  BY <1>7 DEF Tab!SetVisible, tabVars, Tab!OnlyCurrentShown
<1> QED BY BehindAddAt, <1>2, <1>3, <1>4, <1>5, <1>6, <1>7 DEF Tab!NextBehind, Tab!Others

\* A step of the parts is one of the tab layout, in its own way, or leaves it alone.
LEMMA TabPart ==
  ASSUME [PartsNext]_<<part, partVars>>
  PROVE  /\ part' = part
         /\ [Tab!Next]_tabVars
         /\ part = "tabBehind" => [Tab!NextBehind]_tabVars
BY BehindIsInserting DEF PartsNext, partVars

\* UITabLayout.cpp: through every insertion, removal and selection the page at m_iCurSel
\* stays the same page and is shown, and, if none that is visible is inserted before it, no
\* other page is; for any number of pages.
THEOREM PageAlwaysCurrent == PartsSpec => PageStaysCurrent
<1> DEFINE Behind == part = "tabBehind" => Tab!OnlyCurrentShown
           Step == /\ Tab!CurrentShown'
                   /\ Tab!StaysCurrent
                   /\ part = "tabBehind" => Tab!OnlyCurrentShown'
<1>1. PartsInit => TabInv /\ Behind
  BY DEF PartsInit, Tab!Init, TabInv, Tab!TypeOK, Tab!CurrentShown, Different, Tab!OnlyCurrentShown
<1>2. TabInv /\ [PartsNext]_<<part, partVars>> => TabInv'
  BY TabPart, TabNext DEF TabStep
<1>3. TabInv /\ Behind /\ [PartsNext]_<<part, partVars>> => Behind'
  BY TabPart, BehindNext
<1>4. TabInv /\ Behind /\ Behind' /\ [PartsNext]_<<part, partVars>> => Step
  BY TabPart, TabNext DEF TabStep, TabInv
<1>5. PageStaysCurrent <=> [][Step]_<<part, tabVars>>
  BY DEF PageStaysCurrent
<1>6. TabInv /\ Behind /\ Behind' /\ [PartsNext]_<<part, partVars>> => [Step]_<<part, tabVars>>
  BY <1>4
<1> HIDE DEF Behind, Step
<1> QED BY <1>1, <1>2, <1>3, <1>5, <1>6, PTL DEF PartsSpec
-----------------------------------------------------------------------------
(* The timers.                                                             *)

\* The loop of KillTimer(pControl), which leaves rest[i] of the first i entries.
RestOf(c, rest, n) ==
  /\ rest \in [0..n -> Seq(T!Entry)]
  /\ rest[0] = <<>>
  /\ \A i \in 1..n : rest[i] = IF m_aTimers[i].pSender = c THEN rest[i - 1]
                               ELSE Append(rest[i - 1], m_aTimers[i])

\* The loop ends.
LEMMA RestExists ==
  ASSUME NEW c, m_aTimers \in Seq(T!Entry)
  PROVE  \E rest : RestOf(c, rest, Len(m_aTimers)) /\ T!OthersThan(c) = rest[Len(m_aTimers)]
<1> DEFINE n == Len(m_aTimers)
           X == Seq(T!Entry)
           next(i, x) == IF m_aTimers[i].pSender = c THEN x ELSE Append(x, m_aTimers[i])
           step == [i \in Nat |-> [x \in X |-> IF i \in 1..n THEN next(i, x) ELSE x]]
           F(rest) == [i \in 0..n |-> IF i = 0 THEN <<>> ELSE next(i, rest[i - 1])]
           rest == CHOOSE g : g = F(g)
<1>1. n \in Nat /\ <<>> \in X
  OBVIOUS
<1>2. ASSUME NEW i \in 1..n, NEW x \in X PROVE next(i, x) \in X
  BY <1>2, AppendProperties
<1> HIDE DEF n, X, next
<1>4. step \in [Nat -> [X -> X]] /\ \A i \in 1..n, x \in X : step[i][x] = next(i, x)
  BY <1>1, <1>2
<1> HIDE DEF step
<1>5. PICK f : Recurs(f, X, <<>>, step, n)
  <2> DEFINE x0 == <<>>
  <2>1. x0 \in X /\ n \in Nat /\ step \in [Nat -> [X -> X]]
    BY <1>1, <1>4
  <2> HIDE DEF x0
  <2>2. \E f : Recurs(f, X, x0, step, n)
    BY ONLY <2>1, RecursionExists
  <2> QED BY <2>2 DEF x0
<1>6. ASSUME NEW i \in 1..n PROVE f[i] = next(i, f[i - 1])
  <2>1. i - 1 \in 0..n
    BY <1>1
  <2>2. f[i - 1] \in X /\ f[i] = step[i][f[i - 1]]
    BY <2>1, <1>5 DEF Recurs
  <2> DEFINE y == f[i - 1]
  <2> HIDE DEF y
  <2>3. step[i][y] = next(i, y)
    BY <2>2, <1>4 DEF y
  <2> QED BY <2>2, <2>3 DEF y
<1>7. f = F(f)
  <2>1. ASSUME NEW i \in 0..n PROVE f[i] = IF i = 0 THEN <<>> ELSE next(i, f[i - 1])
    BY <1>1, <1>5, <1>6 DEF Recurs
  <2>2. f \in [0..n -> X]
    BY <1>5 DEF Recurs
  <2> QED BY <2>1, <2>2
<1>8. rest = F(rest)
  BY <1>7
<1>9. T!OthersThan(c) = rest[n]
  BY DEF T!OthersThan, n, next
<1> HIDE DEF rest
<1>10. /\ rest[0] = <<>>
       /\ \A i \in 1..n : rest[i] = next(i, rest[i - 1])
  BY <1>1, <1>8
<1>11. rest \in [0..n -> X]
  <2>1. \A i \in 0..n : rest[i] \in X
    <3>1. rest[0] \in X /\ \A i \in 1..n : rest[i - 1] \in X => rest[i] \in X
      BY <1>1, <1>2, <1>10
    <3> QED BY ONLY <1>1, <3>1, RecursionType
  <2>2. rest = [i \in 0..n |-> IF i = 0 THEN <<>> ELSE next(i, rest[i - 1])]
    BY <1>8
  <2>3. rest = [i \in 0..n |-> rest[i]]
    BY ONLY <2>2
  <2> QED BY <2>1, <2>3
<1> QED BY <1>9, <1>10, <1>11 DEF RestOf, n, X, next

\* r has just the first i entries of s that are not of c, each once.
TakesOthers(c, s, i, r) ==
  \E p \in [1..Len(r) -> 1..i] :
    /\ \A k, l \in 1..Len(r) : p[k] = p[l] => k = l
    /\ \A k \in 1..Len(r) : r[k] = s[p[k]] /\ s[p[k]].pSender # c
    /\ \A j \in 1..i : s[j].pSender # c => \E k \in 1..Len(r) : p[k] = j

\* A round of the loop.
LEMMA RestStep ==
  ASSUME NEW c, m_aTimers \in Seq(T!Entry), NEW rest, NEW n \in Nat, n <= Len(m_aTimers),
         RestOf(c, rest, n), NEW i \in 0..(n - 1), TakesOthers(c, m_aTimers, i, rest[i])
  PROVE  TakesOthers(c, m_aTimers, i + 1, rest[i + 1])
<1> DEFINE r == rest[i]
           t == rest[i + 1]
           s == m_aTimers
           m == Len(r)
<1>1. r \in Seq(T!Entry) /\ m \in Nat /\ i \in Nat /\ i + 1 \in 1..n /\ i + 1 \in 1..Len(s) /\ s[i + 1] \in T!Entry
  BY SMTT(40) DEF RestOf
<1>2. t = IF s[i + 1].pSender = c THEN r ELSE Append(r, s[i + 1])
  <2>1. (i + 1) - 1 = i
    OBVIOUS
  <2> QED BY <1>1, <2>1 DEF RestOf
<1>3. PICK p \in [1..m -> 1..i] :
        /\ \A k, l \in 1..m : p[k] = p[l] => k = l
        /\ \A k \in 1..m : r[k] = s[p[k]] /\ s[p[k]].pSender # c
        /\ \A j \in 1..i : s[j].pSender # c => \E k \in 1..m : p[k] = j
  BY DEF TakesOthers
<1> HIDE DEF r, t, s, m
<1>4. CASE s[i + 1].pSender = c
  <2>1. t = r /\ Len(t) = m
    BY <1>2, <1>4 DEF m
  <2>2. p \in [1..m -> 1..(i + 1)]
    BY <1>1, <1>3
  <2>3. \A j \in 1..(i + 1) : s[j].pSender # c => \E k \in 1..m : p[k] = j
    BY <1>1, <1>3, <1>4, SMTT(40)
  <2>4. /\ \A k, l \in 1..Len(t) : p[k] = p[l] => k = l
        /\ \A k \in 1..Len(t) : t[k] = s[p[k]] /\ s[p[k]].pSender # c
    BY <2>1, <1>3
  <2>5. p \in [1..Len(t) -> 1..(i + 1)]
    BY <2>1, <2>2
  <2>6. TakesOthers(c, s, i + 1, t)
    BY ONLY <2>1, <2>3, <2>4, <2>5 DEF TakesOthers
  <2> QED BY <2>6 DEF s, t
<1>5. CASE s[i + 1].pSender # c
  <2>1. /\ Len(t) = m + 1 /\ t[m + 1] = s[i + 1]
        /\ \A k \in 1..m : t[k] = r[k]
    BY <1>1, <1>2, <1>5, AppendProperties DEF m
  <2> DEFINE q == [k \in 1..(m + 1) |-> IF k = m + 1 THEN i + 1 ELSE p[k]]
  <2>2. q \in [1..(m + 1) -> 1..(i + 1)] /\ q[m + 1] = i + 1 /\ \A k \in 1..m : q[k] = p[k] /\ q[k] # i + 1
    BY <1>1, <1>3
  <2> HIDE DEF q
  <2>3. \A k, l \in 1..(m + 1) : q[k] = q[l] => k = l
    <3> SUFFICES ASSUME NEW k \in 1..(m + 1), NEW l \in 1..(m + 1), q[k] = q[l] PROVE k = l
      OBVIOUS
    <3>1. (k = m + 1 \/ k \in 1..m) /\ (l = m + 1 \/ l \in 1..m)
      BY ONLY <1>1, k \in 1..(m + 1), l \in 1..(m + 1)
    <3>2. \A j \in 1..m : q[j] = p[j] /\ q[j] # i + 1
      BY ONLY <2>2
    <3>3. q[m + 1] = i + 1
      BY ONLY <2>2
    <3> QED BY ONLY <1>3, <3>1, <3>2, <3>3, q[k] = q[l]
  <2>4. \A k \in 1..(m + 1) : t[k] = s[q[k]] /\ s[q[k]].pSender # c
    <3> SUFFICES ASSUME NEW k \in 1..(m + 1) PROVE t[k] = s[q[k]] /\ s[q[k]].pSender # c
      OBVIOUS
    <3>1. k = m + 1 \/ k \in 1..m
      BY ONLY <1>1, k \in 1..(m + 1)
    <3>2. CASE k = m + 1
      <4>1. q[k] = i + 1 /\ t[k] = s[i + 1]
        BY ONLY <2>1, <2>2, <3>2
      <4> QED BY ONLY <1>5, <4>1
    <3>3. CASE k \in 1..m
      <4>1. q[k] = p[k] /\ t[k] = r[k]
        BY ONLY <2>1, <2>2, <3>3
      <4>2. r[k] = s[p[k]] /\ s[p[k]].pSender # c
        BY ONLY <1>3, <3>3
      <4> QED BY ONLY <4>1, <4>2
    <3> QED BY ONLY <3>1, <3>2, <3>3
  <2>5. \A j \in 1..(i + 1) : s[j].pSender # c => \E k \in 1..(m + 1) : q[k] = j
    <3> SUFFICES ASSUME NEW j \in 1..(i + 1), s[j].pSender # c
                 PROVE  \E k \in 1..(m + 1) : q[k] = j
      OBVIOUS
    <3>1. CASE j = i + 1
      BY <3>1, <1>1, <2>2
    <3>2. CASE j # i + 1
      <4>1. j \in 1..i
        BY <3>2, <1>1
      <4>2. PICK k \in 1..m : p[k] = j
        BY <4>1, <1>3
      <4> QED BY <4>2, <1>1, <2>2
    <3> QED BY <3>1, <3>2
  <2>6. TakesOthers(c, s, i + 1, t)
    BY <2>1, <2>2, <2>3, <2>4, <2>5, SMTT(40) DEF TakesOthers
  <2> QED BY <2>6 DEF s, t
<1> QED BY <1>4, <1>5

\* KillTimer(pControl) removes the entries of the control and no other.
LEMMA OthersRemain ==
  ASSUME NEW c, m_aTimers \in Seq(T!Entry)
  PROVE  /\ T!OthersThan(c) \in Seq(T!Entry)
         /\ TakesOthers(c, m_aTimers, Len(m_aTimers), T!OthersThan(c))
<1> DEFINE n == Len(m_aTimers)
<1>1. n \in Nat
  OBVIOUS
<1>2. PICK rest : RestOf(c, rest, n) /\ T!OthersThan(c) = rest[n]
  BY RestExists
<1> DEFINE S == {i \in 0..n : TakesOthers(c, m_aTimers, i, rest[i])}
<1>3. 0 \in S
  <2>1. rest[0] = <<>> /\ Len(rest[0]) = 0
    BY <1>2 DEF RestOf
  <2>2. TakesOthers(c, m_aTimers, 0, rest[0])
    <3> DEFINE p == [k \in 1..0 |-> 0]
    <3>1. p \in [1..Len(rest[0]) -> 1..0] /\ 1..Len(rest[0]) = {} /\ 1..0 = {}
      BY <2>1
    <3> HIDE DEF p
    <3> QED BY ONLY <3>1 DEF TakesOthers
  <2> QED BY <1>1, <2>2
<1>4. ASSUME NEW i \in 0..(n - 1), i \in S PROVE i + 1 \in S
  BY <1>1, <1>2, <1>4, RestStep
<1> HIDE DEF S
<1>5. \A i \in 0..n : i \in S
  BY ONLY <1>1, <1>3, <1>4, UpTo
<1>6. TakesOthers(c, m_aTimers, n, rest[n])
  BY <1>1, <1>5 DEF S
<1>7. rest[n] \in Seq(T!Entry)
  BY <1>1, <1>2 DEF RestOf
<1> QED BY <1>2, <1>6, <1>7

\* The entries have controls that live, a window timer belongs to an entry that runs, and as
\* long as no id was given out twice the entries have different ids, whose timers run.
TimersInv ==
  /\ T!TypeOK
  /\ \A k \in T!Indices : m_aTimers[k].pSender \in alive
  /\ \A id \in windowTimers : \E k \in T!Indices : m_aTimers[k].uWinTimer = id /\ T!Running(k)
  /\ ~shared => /\ \A j, k \in T!Indices : m_aTimers[j].uWinTimer = m_aTimers[k].uWinTimer => j = k
                /\ \A k \in T!Indices : T!Running(k) => m_aTimers[k].uWinTimer \in windowTimers

\* The same, entry by entry.
LEMMA TimersFacts ==
  ASSUME TimersInv
  PROVE  /\ m_aTimers \in Seq(T!Entry) /\ Len(m_aTimers) \in Nat
         /\ T!Indices = 1..Len(m_aTimers)
         /\ \A k \in 1..Len(m_aTimers) :
              /\ m_aTimers[k] \in T!Entry /\ m_aTimers[k].pSender \in alive
              /\ m_aTimers[k].bKilled \in BOOLEAN
              /\ m_aTimers[k].uWinTimer \in 0..(Wrap - 1)
         /\ \A id \in windowTimers :
              \E k \in 1..Len(m_aTimers) : m_aTimers[k].uWinTimer = id /\ ~m_aTimers[k].bKilled
         /\ ~shared =>
              /\ \A j, k \in 1..Len(m_aTimers) :
                   m_aTimers[j].uWinTimer = m_aTimers[k].uWinTimer => j = k
              /\ \A k \in 1..Len(m_aTimers) :
                   ~m_aTimers[k].bKilled => m_aTimers[k].uWinTimer \in windowTimers
         /\ windowTimers \subseteq 0..(Wrap - 1) /\ alive \subseteq Controls /\ shared \in BOOLEAN
         /\ m_uTimerID \in 0..(Wrap - 1) \cup {FirstId}
<1>1. m_aTimers \in Seq(T!Entry) /\ Len(m_aTimers) \in Nat /\ T!Indices = 1..Len(m_aTimers)
  BY DEF TimersInv, T!TypeOK, T!Indices
<1>2. \A k \in 1..Len(m_aTimers) :
        /\ m_aTimers[k] \in T!Entry /\ m_aTimers[k].pSender \in alive
        /\ m_aTimers[k].bKilled \in BOOLEAN
        /\ m_aTimers[k].uWinTimer \in 0..(Wrap - 1)
  <2>1. \A e \in T!Entry : e.bKilled \in BOOLEAN /\ e.uWinTimer \in 0..(Wrap - 1)
    BY DEF T!Entry
  <2>2. \A k \in 1..Len(m_aTimers) : m_aTimers[k] \in T!Entry
    BY <1>1
  <2>3. \A k \in 1..Len(m_aTimers) : m_aTimers[k].pSender \in alive
    BY <1>1 DEF TimersInv
  <2> QED BY <2>1, <2>2, <2>3
<1> QED BY <1>1, <1>2 DEF TimersInv, T!TypeOK, T!Running

\* What it takes to keep the invariant.
LEMMA TimersInvNext ==
  ASSUME m_aTimers' \in Seq(T!Entry), m_uTimerID' \in 0..(Wrap - 1) \cup {FirstId},
         windowTimers' \subseteq 0..(Wrap - 1), alive' \subseteq Controls, shared' \in BOOLEAN,
         \A k \in 1..Len(m_aTimers') : m_aTimers'[k].pSender \in alive',
         \A id \in windowTimers' :
           \E k \in 1..Len(m_aTimers') : m_aTimers'[k].uWinTimer = id /\ ~m_aTimers'[k].bKilled,
         ~shared' =>
           /\ \A j, k \in 1..Len(m_aTimers') :
                m_aTimers'[j].uWinTimer = m_aTimers'[k].uWinTimer => j = k
           /\ \A k \in 1..Len(m_aTimers') :
                ~m_aTimers'[k].bKilled => m_aTimers'[k].uWinTimer \in windowTimers'
  PROVE  TimersInv'
<1>1. T!Indices' = 1..Len(m_aTimers')
  BY DEF T!Indices
<1>2. T!TypeOK'
  BY DEF T!TypeOK
<1> QED BY <1>1, <1>2 DEF TimersInv, T!Running

\* An entry that is stopped or started is otherwise the same.
LEMMA FlipEntry ==
  ASSUME m_aTimers \in Seq(T!Entry), NEW k \in 1..Len(m_aTimers), NEW b \in BOOLEAN,
         m_aTimers' = [m_aTimers EXCEPT ![k].bKilled = b]
  PROVE  /\ m_aTimers' \in Seq(T!Entry) /\ Len(m_aTimers') = Len(m_aTimers)
         /\ \A j \in 1..Len(m_aTimers) :
              /\ m_aTimers'[j].pSender = m_aTimers[j].pSender
              /\ m_aTimers'[j].uWinTimer = m_aTimers[j].uWinTimer
              /\ j # k => m_aTimers'[j] = m_aTimers[j]
         /\ m_aTimers'[k].bKilled = b
<1> DEFINE n == Len(m_aTimers)
<1>1. n \in Nat /\ DOMAIN m_aTimers = 1..n /\ m_aTimers[k] \in T!Entry
  OBVIOUS
<1> DEFINE e == [m_aTimers[k] EXCEPT !.bKilled = b]
<1>2. e \in T!Entry /\ e.bKilled = b /\ e.pSender = m_aTimers[k].pSender
      /\ e.uWinTimer = m_aTimers[k].uWinTimer
  BY <1>1 DEF T!Entry
<1>3. m_aTimers' = [m_aTimers EXCEPT ![k] = e]
  OBVIOUS
<1> HIDE DEF e
<1>4. m_aTimers' \in Seq(T!Entry) /\ Len(m_aTimers') = n
  BY <1>1, <1>2, <1>3, ExceptSeq
<1> QED BY <1>1, <1>2, <1>3, <1>4

\* A timer that runs again gets its window timer back.
LEMMA RestartKeeps ==
  ASSUME TimersInv, NEW c \in alive, NEW l \in LocalIds, T!Restart(c, l)
  PROVE  TimersInv'
<1> DEFINE n == Len(m_aTimers)
<1>0. PICK k \in 1..n :
        /\ m_aTimers' = [m_aTimers EXCEPT ![k].bKilled = FALSE]
        /\ windowTimers' = windowTimers \cup {m_aTimers[k].uWinTimer}
        /\ m_aTimers[k].bKilled
        /\ UNCHANGED <<m_uTimerID, alive, shared>>
  BY TimersFacts DEF T!Restart, T!Running
<1>1. /\ m_aTimers' \in Seq(T!Entry) /\ Len(m_aTimers') = n
      /\ \A j \in 1..n :
           /\ m_aTimers'[j].pSender = m_aTimers[j].pSender
           /\ m_aTimers'[j].uWinTimer = m_aTimers[j].uWinTimer
           /\ j # k => m_aTimers'[j] = m_aTimers[j]
      /\ m_aTimers'[k].bKilled = FALSE
  BY <1>0, TimersFacts, FlipEntry
<1>2. ASSUME NEW id \in windowTimers'
      PROVE  \E j \in 1..n : m_aTimers'[j].uWinTimer = id /\ ~m_aTimers'[j].bKilled
  <2>1. CASE id = m_aTimers[k].uWinTimer
    BY <2>1, <1>1
  <2>2. CASE id \in windowTimers
    <3>1. PICK j \in 1..n : m_aTimers[j].uWinTimer = id /\ ~m_aTimers[j].bKilled
      BY <2>2, TimersFacts
    <3>2. j # k
      BY <3>1, <1>0
    <3> QED BY <3>1, <3>2, <1>1
  <2> QED BY <2>1, <2>2, <1>0
<1>3. ~shared' => /\ \A i, j \in 1..n : m_aTimers'[i].uWinTimer = m_aTimers'[j].uWinTimer => i = j
                  /\ \A j \in 1..n : ~m_aTimers'[j].bKilled => m_aTimers'[j].uWinTimer \in windowTimers'
  BY <1>0, <1>1, TimersFacts
<1>4. windowTimers' \subseteq 0..(Wrap - 1)
  BY <1>0, TimersFacts
<1>5. \A j \in 1..n : m_aTimers'[j].pSender \in alive'
  BY <1>0, <1>1, TimersFacts
<1> QED BY <1>0, <1>1, <1>2, <1>3, <1>4, <1>5, TimersFacts, TimersInvNext

\* A timer that is stopped gives its window timer back; no other entry had it alone.
LEMMA KillTimerKeeps ==
  ASSUME TimersInv, NEW c \in alive, NEW l \in LocalIds, T!KillTimer(c, l)
  PROVE  TimersInv'
<1> DEFINE n == Len(m_aTimers)
<1>0. PICK k \in 1..n :
        /\ m_aTimers' = [m_aTimers EXCEPT ![k].bKilled = TRUE]
        /\ windowTimers' = windowTimers \ {m_aTimers[k].uWinTimer}
        /\ UNCHANGED <<m_uTimerID, alive, shared>>
  BY TimersFacts DEF T!KillTimer
<1>1. /\ m_aTimers' \in Seq(T!Entry) /\ Len(m_aTimers') = n
      /\ \A j \in 1..n :
           /\ m_aTimers'[j].pSender = m_aTimers[j].pSender
           /\ m_aTimers'[j].uWinTimer = m_aTimers[j].uWinTimer
           /\ j # k => m_aTimers'[j] = m_aTimers[j]
      /\ m_aTimers'[k].bKilled = TRUE
  BY <1>0, TimersFacts, FlipEntry
<1>2. ASSUME NEW id \in windowTimers'
      PROVE  \E j \in 1..n : m_aTimers'[j].uWinTimer = id /\ ~m_aTimers'[j].bKilled
  <2>1. PICK j \in 1..n : m_aTimers[j].uWinTimer = id /\ ~m_aTimers[j].bKilled
    BY <1>0, TimersFacts
  <2>2. j # k
    BY <2>1, <1>0
  <2> QED BY <2>1, <2>2, <1>1
<1>3. ~shared' => /\ \A i, j \in 1..n : m_aTimers'[i].uWinTimer = m_aTimers'[j].uWinTimer => i = j
                  /\ \A j \in 1..n : ~m_aTimers'[j].bKilled => m_aTimers'[j].uWinTimer \in windowTimers'
  BY <1>0, <1>1, TimersFacts
<1>4. windowTimers' \subseteq 0..(Wrap - 1)
  BY <1>0, TimersFacts
<1>5. \A j \in 1..n : m_aTimers'[j].pSender \in alive'
  BY <1>0, <1>1, TimersFacts
<1> QED BY <1>0, <1>1, <1>2, <1>3, <1>4, <1>5, TimersFacts, TimersInvNext

\* A new timer has an id that no entry has, or shared tells that one had it.
LEMMA StartKeeps ==
  ASSUME TimersInv, NEW c \in alive, NEW l \in LocalIds, T!Start(c, l)
  PROVE  TimersInv'
<1> DEFINE n == Len(m_aTimers)
           id == T!NextId(m_uTimerID)
           e == [pSender |-> c, nLocalID |-> l, uWinTimer |-> id, bKilled |-> FALSE]
<1>0. n \in Nat /\ Wrap \in Nat \ {0} /\ FirstId \in Nat
  BY ContainersAssumption, TimersFacts DEF T!ConstantsAssumption
<1>1. id \in 0..(Wrap - 1)
  <2>1. m_uTimerID \in Nat
    BY <1>0, TimersFacts
  <2> QED BY <1>0, <2>1 DEF T!NextId
<1>2. /\ m_uTimerID' = id /\ alive' = alive
      /\ \/ UNCHANGED <<m_aTimers, windowTimers, shared>>
         \/ /\ m_aTimers' = Append(m_aTimers, e)
            /\ windowTimers' = windowTimers \cup {id}
            /\ shared' = (shared \/ \E k \in 1..n : m_aTimers[k].uWinTimer = id)
  BY TimersFacts DEF T!Start
<1>3. CASE UNCHANGED <<m_aTimers, windowTimers, shared>>
  BY <1>1, <1>2, <1>3, TimersFacts, TimersInvNext
<1>4. CASE /\ m_aTimers' = Append(m_aTimers, e)
           /\ windowTimers' = windowTimers \cup {id}
           /\ shared' = (shared \/ \E k \in 1..n : m_aTimers[k].uWinTimer = id)
  <2> HIDE DEF id
  <2>1. e \in T!Entry /\ e.uWinTimer = id /\ ~e.bKilled /\ e.pSender = c
    BY <1>1, TimersFacts DEF T!Entry
  <2> HIDE DEF e
  <2>2. /\ m_aTimers' \in Seq(T!Entry) /\ Len(m_aTimers') = n + 1
        /\ \A k \in 1..n : m_aTimers'[k] = m_aTimers[k]
        /\ m_aTimers'[n + 1] = e
    BY <1>0, <1>4, <2>1, TimersFacts, AppendProperties
  <2>3. ASSUME NEW u \in windowTimers'
        PROVE  \E j \in 1..(n + 1) : m_aTimers'[j].uWinTimer = u /\ ~m_aTimers'[j].bKilled
    <3>1. CASE u = id
      BY <3>1, <1>0, <2>1, <2>2
    <3>2. CASE u \in windowTimers
      <4>1. PICK j \in 1..n : m_aTimers[j].uWinTimer = u /\ ~m_aTimers[j].bKilled
        BY <3>2, TimersFacts
      <4> QED BY <4>1, <1>0, <2>2
    <3> QED BY <3>1, <3>2, <1>4
  <2>4. ASSUME ~shared'
        PROVE  /\ \A i, j \in 1..(n + 1) : m_aTimers'[i].uWinTimer = m_aTimers'[j].uWinTimer => i = j
               /\ \A j \in 1..(n + 1) : ~m_aTimers'[j].bKilled => m_aTimers'[j].uWinTimer \in windowTimers'
    <3>1. ~shared /\ \A k \in 1..n : m_aTimers[k].uWinTimer # id
      BY <1>4, <2>4, TimersFacts
    <3>2. \A j \in 1..(n + 1) : j = n + 1 \/ j \in 1..n
      BY <1>0
    <3>3. \A i, j \in 1..(n + 1) : m_aTimers'[i].uWinTimer = m_aTimers'[j].uWinTimer => i = j
      BY <2>1, <2>2, <3>1, <3>2, TimersFacts
    <3>4. \A j \in 1..(n + 1) : ~m_aTimers'[j].bKilled => m_aTimers'[j].uWinTimer \in windowTimers'
      BY <1>4, <2>1, <2>2, <3>1, <3>2, TimersFacts
    <3> QED BY <3>3, <3>4
  <2>5. \A j \in 1..(n + 1) : m_aTimers'[j].pSender \in alive'
    BY <1>0, <1>2, <2>1, <2>2, TimersFacts
  <2>6. windowTimers' \subseteq 0..(Wrap - 1) /\ alive' \subseteq Controls /\ shared' \in BOOLEAN
        /\ m_uTimerID' \in 0..(Wrap - 1) \cup {FirstId}
    BY <1>1, <1>2, <1>4, TimersFacts
  <2> QED BY <2>2, <2>3, <2>4, <2>5, <2>6, TimersInvNext
<1> QED BY <1>2, <1>3, <1>4

\* A control that is destroyed takes its entries with it, and the window timers of those
\* that run; no other entry loses its own.
LEMMA ReapObjectsKeeps ==
  ASSUME TimersInv, NEW c \in alive, T!ReapObjects(c)
  PROVE  TimersInv'
<1> DEFINE n == Len(m_aTimers)
           t == m_aTimers'
           m == Len(t)
           s == m_aTimers
<1>0. n \in Nat /\ s \in Seq(T!Entry)
  BY TimersFacts
<1>1. /\ alive' = alive \ {c} /\ UNCHANGED <<m_uTimerID, shared>>
      /\ t = T!OthersThan(c)
      /\ \A id : id \in windowTimers' <=>
                   /\ id \in windowTimers
                   /\ \A k \in 1..n : s[k].pSender = c /\ ~s[k].bKilled => s[k].uWinTimer # id
  BY TimersFacts DEF T!ReapObjects, T!Running
<1>2. t \in Seq(T!Entry) /\ TakesOthers(c, s, n, t)
  BY <1>0, <1>1, OthersRemain
<1>3. PICK p \in [1..m -> 1..n] :
        /\ \A k, l \in 1..m : p[k] = p[l] => k = l
        /\ \A k \in 1..m : t[k] = s[p[k]] /\ s[p[k]].pSender # c
        /\ \A j \in 1..n : s[j].pSender # c => \E k \in 1..m : p[k] = j
  BY <1>2 DEF TakesOthers
<1>4. \A k \in 1..m : p[k] \in 1..n
  OBVIOUS
<1> HIDE DEF n, m, s
<1>5. \A k \in 1..m : t[k].pSender \in alive'
  BY <1>1, <1>3, <1>4, TimersFacts DEF n, s
<1>6. ASSUME NEW id \in windowTimers'
      PROVE  \E k \in 1..m : t[k].uWinTimer = id /\ ~t[k].bKilled
  <2>1. PICK j \in 1..n : s[j].uWinTimer = id /\ ~s[j].bKilled
    BY <1>1, <1>6, TimersFacts DEF n, s
  <2>2. s[j].pSender # c
    BY <1>1, <1>6, <2>1
  <2>3. PICK k \in 1..m : p[k] = j
    BY <1>3, <2>2
  <2> QED BY <2>1, <2>3, <1>3
<1>7. ASSUME ~shared
      PROVE  /\ \A i, j \in 1..m : t[i].uWinTimer = t[j].uWinTimer => i = j
             /\ \A j \in 1..m : ~t[j].bKilled => t[j].uWinTimer \in windowTimers'
  <2>1. /\ \A j, k \in 1..n : s[j].uWinTimer = s[k].uWinTimer => j = k
        /\ \A k \in 1..n : ~s[k].bKilled => s[k].uWinTimer \in windowTimers
    BY <1>7, TimersFacts DEF n, s
  <2>2. \A i, j \in 1..m : t[i].uWinTimer = t[j].uWinTimer => i = j
    BY <1>3, <1>4, <2>1
  <2>3. ASSUME NEW j \in 1..m, ~t[j].bKilled PROVE t[j].uWinTimer \in windowTimers'
    <3>1. s[p[j]].uWinTimer \in windowTimers /\ p[j] \in 1..n /\ t[j] = s[p[j]]
      BY <1>3, <1>4, <2>1, <2>3
    <3>2. ASSUME NEW k \in 1..n, s[k].pSender = c PROVE s[k].uWinTimer # s[p[j]].uWinTimer
      <4>1. k # p[j]
        BY <3>2, <1>3
      <4> QED BY <4>1, <3>1, <2>1
    <3> QED BY <3>1, <3>2, <1>1
  <2> QED BY <2>2, <2>3
<1>8. windowTimers' \subseteq 0..(Wrap - 1) /\ alive' \subseteq Controls /\ shared' \in BOOLEAN
      /\ m_uTimerID' \in 0..(Wrap - 1) \cup {FirstId} /\ (~shared' => ~shared)
  BY <1>1, TimersFacts
<1> QED BY <1>2, <1>5, <1>6, <1>7, <1>8, TimersInvNext DEF m

\* UIManager.cpp: SetTimer, KillTimer and the reaping of a control keep the invariant.
LEMMA TimersNext == TimersInv /\ [T!Next]_timerVars => TimersInv'
<1> SUFFICES ASSUME TimersInv, [T!Next]_timerVars PROVE TimersInv'
  OBVIOUS
<1>1. CASE UNCHANGED timerVars
  <2>1. m_aTimers' = m_aTimers /\ m_uTimerID' = m_uTimerID /\ windowTimers' = windowTimers
        /\ alive' = alive /\ shared' = shared
    BY <1>1 DEF timerVars
  <2> QED BY <2>1, TimersFacts, TimersInvNext
<1> QED BY <1>1, RestartKeeps, StartKeeps, KillTimerKeeps, ReapObjectsKeeps DEF T!Next, T!SetTimer

\* A tick goes to the first entry that runs with its id; in a table whose ids differ to it.
LEMMA TicksArrive == TimersInv => TicksReachTheirOwner
<1> SUFFICES ASSUME TimersInv PROVE TicksReachTheirOwner
  OBVIOUS
<1> DEFINE n == Len(m_aTimers)
           Runs(id) == {k \in 1..n : m_aTimers[k].uWinTimer = id /\ ~m_aTimers[k].bKilled}
<1>0. n \in Nat /\ T!Indices = 1..n
  BY TimersFacts
<1>1. \A id : T!TicksTo(id) = {k \in Runs(id) : \A j \in Runs(id) : ~(j < k)}
  BY <1>0 DEF T!TicksTo, T!Running
<1>2. ASSUME NEW id \in windowTimers PROVE T!TicksTo(id) # {}
  <2>1. Runs(id) # {} /\ Runs(id) \in SUBSET Nat
    BY <1>0, TimersFacts
  <2>2. PICK m \in Runs(id) : \A j \in Runs(id) : m <= j
    <3> HIDE DEF Runs
    <3> QED BY ONLY <2>1, Least
  <2>3. \A j \in Runs(id) : ~(j < m)
    BY <2>1, <2>2
  <2> QED BY <1>1, <2>2, <2>3
<1>3. T!NoTickAfterDeath
  BY <1>0, <1>2, TimersFacts DEF T!NoTickAfterDeath
<1>4. ASSUME ~shared, NEW k \in 1..n, ~m_aTimers[k].bKilled
      PROVE  m_aTimers[k].uWinTimer \in windowTimers /\ T!TicksTo(m_aTimers[k].uWinTimer) = {k}
  <2>1. Runs(m_aTimers[k].uWinTimer) = {k}
    BY <1>4, TimersFacts
  <2>2. m_aTimers[k].uWinTimer \in windowTimers /\ k \in Int /\ ~(k < k)
    BY <1>4, TimersFacts
  <2> HIDE DEF Runs
  <2> QED BY <1>1, <2>1, <2>2
<1>5. T!OwnTicks
  BY <1>0, <1>4 DEF T!OwnTicks, T!Running
<1>6. T!CaretTimerIsFree
  <2>1. Wrap \in Nat
    BY ContainersAssumption DEF T!ConstantsAssumption
  <2> QED BY <1>0, <2>1, TimersFacts DEF T!CaretTimerIsFree, T!kCaretTimerID
<1> QED BY <1>3, <1>5, <1>6 DEF TicksReachTheirOwner

\* The timers as they are created.
LEMMA TimersBegin == PartsInit => TimersInv
<1> SUFFICES ASSUME PartsInit PROVE TimersInv
  OBVIOUS
<1>1. /\ m_aTimers = <<>> /\ m_uTimerID = FirstId /\ windowTimers = {}
      /\ alive = Controls /\ shared = FALSE
  BY DEF PartsInit, T!Init
<1>2. m_aTimers \in Seq(T!Entry) /\ T!Indices = {}
  BY <1>1 DEF T!Indices
<1> QED BY <1>1, <1>2 DEF TimersInv, T!TypeOK

\* UIManager.cpp: for any number of controls and timers, no tick is for a control that has
\* been destroyed, and until an id is given out twice each timer gets the ticks of one window
\* timer, which is its own.
THEOREM TicksAlwaysReachTheirOwner == PartsSpec => []TicksReachTheirOwner
<1>1. PartsInit => TimersInv
  BY TimersBegin
<1>2. TimersInv /\ [PartsNext]_<<part, partVars>> => TimersInv'
  <2>1. [PartsNext]_<<part, partVars>> => [T!Next]_timerVars
    BY DEF PartsNext, partVars
  <2> QED BY <2>1, TimersNext
<1> QED BY <1>1, <1>2, TicksArrive, PTL DEF PartsSpec

-----------------------------------------------------------------------------
(* The parts together.                                                     *)

\* The invariants of all parts.
PartsInv == ListInv /\ OptionsInv /\ TabInv /\ TimersInv /\ TableInv /\ BoxesInv /\ TreeInv

\* Every part begins as it should.
LEMMA PartsBegin == PartsInit => PartsInv
<1>1. PartsInit => ListInv
  BY InitKeeps DEF PartsInit
<1>2. PartsInit => OptionsInv
  BY OptionsInitKeeps DEF PartsInit
<1>3. PartsInit => TabInv
  BY DEF PartsInit, Tab!Init, TabInv, Tab!TypeOK, Tab!CurrentShown, Different
<1>4. PartsInit => TimersInv
  BY TimersBegin
<1>5. PartsInit => TableInv
  BY TableInit DEF PartsInit
<1>6. PartsInit => BoxesInv
  BY BoxesInit DEF PartsInit
<1>7. PartsInit => TreeInv
  BY TreeBegins DEF PartsInit
<1> QED BY <1>1, <1>2, <1>3, <1>4, <1>5, <1>6, <1>7 DEF PartsInv

\* A step of one part leaves the others as they are.
LEMMA PartsGoOn == PartsInv /\ [PartsNext]_<<part, partVars>> => PartsInv'
<1>1. ListInv /\ [PartsNext]_<<part, partVars>> => ListInv'
  <2>1. [PartsNext]_<<part, partVars>> => [Next]_vars
    BY DEF PartsNext, partVars
  <2> QED BY <2>1, NextKeeps
<1>2. OptionsInv /\ [PartsNext]_<<part, partVars>> => OptionsInv'
  <2>1. [PartsNext]_<<part, partVars>> => [O!Next]_(O!vars)
    BY DEF PartsNext, partVars, optionVars, O!vars
  <2> QED BY <2>1, OptionsNextKeeps, ContainersAssumption
<1>3. TabInv /\ [PartsNext]_<<part, partVars>> => TabInv'
  BY TabPart, TabNext DEF TabStep
<1>4. TimersInv /\ [PartsNext]_<<part, partVars>> => TimersInv'
  <2>1. [PartsNext]_<<part, partVars>> => [T!Next]_timerVars
    BY DEF PartsNext, partVars
  <2> QED BY <2>1, TimersNext
<1>5. TableInv /\ [PartsNext]_<<part, partVars>> => TableInv'
  BY HashPart, TableNext
<1>6. BoxesInv /\ [PartsNext]_<<part, partVars>> => BoxesInv'
  BY BoxesPart, BoxesNext
<1>7. TreeInv /\ [PartsNext]_<<part, partVars>> => TreeInv'
  BY TreeGoesOn
<1> QED BY <1>1, <1>2, <1>3, <1>4, <1>5, <1>6, <1>7 DEF PartsInv

\* Every variable of the tables and containers keeps its type.
THEOREM TypesAlwaysOK == PartsSpec => []TypesOK
<1>1. PartsInit => PartsInv
  BY PartsBegin
<1>2. PartsInv /\ [PartsNext]_<<part, partVars>> => PartsInv'
  BY PartsGoOn
<1>3. PartsInv => TypesOK
  <2> SUFFICES ASSUME PartsInv PROVE TypesOK
    OBVIOUS
  <2>1. TypeOK /\ O!TypeOK /\ Tab!TypeOK /\ T!TypeOK /\ Boxes!TypeOK
    BY DEF PartsInv, ListInv, OptionsInv, TabInv, TimersInv, BoxesInv
  <2>2. Hash!Cardinality(Items) = Cardinality(Items) /\ Cardinality(Items) \in Nat
    BY SameSize, HashConstants
  <2>3. m_nCount \in 0..Cardinality(Items)
    BY OrderIs DEF PartsInv, TableInv
  <2>4. walk \in -1..Cardinality(Items)
    BY <2>2, <2>3 DEF PartsInv, TableInv, WalkInv
  <2>5. Hash!TypeOK
    BY <2>2, <2>3, <2>4
       DEF PartsInv, TableInv, HashInv, LinksInv, LinksTyped, Links, KeysInv, WalkInv, Hash!TypeOK
  <2>6. Tree!TypeOK
    BY TreeInvMeans DEF PartsInv
  <2> QED BY <2>1, <2>5, <2>6 DEF TypesOK
<1> QED BY <1>1, <1>2, <1>3, PTL DEF PartsSpec
=============================================================================
