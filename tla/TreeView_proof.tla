--------------------------- MODULE TreeView_proof ---------------------------
(***************************************************************************)
(* The tree view of Containers and its check boxes, for any number of      *)
(* nodes: the list shows the tree in order, and no node keeps a destroyed  *)
(* one, whatever nodes come and go; parents are checked as their children  *)
(* are.  Containers_proof takes the laws of induction from here too.       *)
(***************************************************************************)
EXTENDS Containers, FiniteSetTheorems, SequenceTheorems, WellFoundedInduction, TLAPS

-----------------------------------------------------------------------------
(* Induction over numbers, and functions defined by recursion over them:   *)
(* from the order of the numbers being well-founded.                       *)

\* The first n numbers.
LEMMA IntervalSize ==
  ASSUME NEW n \in Nat
  PROVE  IsFiniteSet(1..n) /\ Cardinality(1..n) = n
<1>1. IsFiniteSet(1..n) /\ Cardinality(1..n) = IF 1 > n THEN 0 ELSE n - 1 + 1
  BY ONLY n \in Nat, FS_Interval, SMTT(40)
<1> QED BY ONLY n \in Nat, <1>1

\* A set of natural numbers that is not empty has a least element.
LEMMA Least ==
  ASSUME NEW S \in SUBSET Nat, S # {}
  PROVE  \E m \in S : \A k \in S : m <= k
<1> DEFINE R == {ss \in Nat \X Nat : ss[1] < ss[2]}
<1>1. IsWellFoundedOn(R, Nat)
  BY NatLessThanWellFounded DEF OpToRel
<1>2. PICK m \in S : \A y \in S : ~(<<y, m>> \in R)
  BY <1>1, WFMin
<1>3. ASSUME NEW k \in S PROVE m <= k
  <2>1. <<k, m>> \in Nat \X Nat /\ ~(<<k, m>> \in R)
    BY <1>2
  <2>2. ~(k < m)
    BY <2>1
  <2> QED BY <2>2
<1> QED BY <1>3

\* What holds of 0, and of i + 1 if of i, holds up to n.
LEMMA UpTo ==
  ASSUME NEW S, NEW n \in Nat, 0 \in S, \A i \in 0..(n - 1) : i \in S => i + 1 \in S
  PROVE  \A i \in 0..n : i \in S
<1> DEFINE Bad == {i \in 0..n : i \notin S}
<1>1. SUFFICES ASSUME Bad # {} PROVE FALSE
  OBVIOUS
<1>2. PICK m \in Bad : \A k \in Bad : m <= k
  <2>1. Bad \in SUBSET Nat
    OBVIOUS
  <2> HIDE DEF Bad
  <2> QED BY ONLY <1>1, <2>1, Least
<1>3. m \in Nat /\ m # 0 /\ m <= n /\ m \notin S
  BY <1>2
<1>4. m - 1 \in 0..(n - 1) /\ m - 1 \in 0..n /\ ~(m <= m - 1) /\ (m - 1) + 1 = m
  BY <1>3
<1>5. m - 1 \notin Bad
  BY ONLY <1>2, <1>4
<1>6. m - 1 \in S
  BY <1>4, <1>5
<1> QED BY <1>3, <1>4, <1>6

\* f is a recursion over 0..n, from x0 by a step for each number.
Recurs(f, X, x0, step, n) ==
  /\ f \in [0..n -> X]
  /\ f[0] = x0
  /\ \A i \in 1..n : f[i] = step[i][f[i - 1]]

\* Every recursion has a solution.
LEMMA RecursionExists ==
  ASSUME NEW X, NEW x0 \in X, NEW step \in [Nat -> [X -> X]], NEW n \in Nat
  PROVE  \E f : Recurs(f, X, x0, step, n)
<1> DEFINE S == {m \in 0..n : \E f : Recurs(f, X, x0, step, m)}
<1>1. 0 \in S
  <2> DEFINE f == [i \in 0..0 |-> x0]
  <2>1. Recurs(f, X, x0, step, 0)
    BY DEF Recurs
  <2> QED BY <2>1
<1>2. ASSUME NEW m \in 0..(n - 1), m \in S PROVE m + 1 \in S
  <2>0. m \in Nat /\ m + 1 \in 0..n
    OBVIOUS
  <2>1. PICK f : Recurs(f, X, x0, step, m)
    BY <1>2
  <2> DEFINE g == [i \in 0..(m + 1) |-> IF i = m + 1 THEN step[m + 1][f[m]] ELSE f[i]]
  <2>2. step[m + 1][f[m]] \in X
    BY <2>0, <2>1 DEF Recurs
  <2>3. g \in [0..(m + 1) -> X] /\ g[0] = x0
    BY <2>0, <2>1, <2>2 DEF Recurs
  <2>4. ASSUME NEW i \in 1..(m + 1) PROVE g[i] = step[i][g[i - 1]]
    BY <2>0, <2>1 DEF Recurs
  <2> HIDE DEF g
  <2>5. Recurs(g, X, x0, step, m + 1)
    BY <2>3, <2>4 DEF Recurs
  <2> QED BY <2>0, <2>5
<1> HIDE DEF S
<1>3. n \in S
  <2>1. \A i \in 0..n : i \in S
    BY ONLY n \in Nat, <1>1, <1>2, UpTo
  <2> QED BY <2>1
<1> QED BY <1>3 DEF S

\* A solution has its values in the same set.
LEMMA RecursionType ==
  ASSUME NEW X, NEW n \in Nat, NEW f, f[0] \in X,
         \A i \in 1..n : f[i - 1] \in X => f[i] \in X
  PROVE  \A i \in 0..n : f[i] \in X
<1> DEFINE S == {i \in 0..n : f[i] \in X}
<1>1. 0 \in S
  OBVIOUS
<1>2. ASSUME NEW i \in 0..(n - 1), i \in S PROVE i + 1 \in S
  <2>1. i + 1 \in 1..n /\ (i + 1) - 1 = i
    OBVIOUS
  <2> QED BY <1>2, <2>1
<1> HIDE DEF S
<1>3. \A i \in 0..n : i \in S
  BY <1>1, <1>2, UpTo
<1> QED BY <1>3 DEF S

-----------------------------------------------------------------------------
(* The tree view.  First the sequences: what holds of all of them by       *)
(* induction, and the laws of Spread and Without.                          *)

\* What holds of the empty sequence, and of every longer one if of the one before it.
LEMMA SeqsGrow ==
  ASSUME NEW S, NEW G, <<>> \in G,
         \A s \in Seq(S), x \in S : s \in G => Append(s, x) \in G
  PROVE  \A s \in Seq(S) : s \in G
<1> SUFFICES ASSUME NEW t \in Seq(S) PROVE t \in G
  OBVIOUS
<1> DEFINE L == {k \in Nat : \A s \in Seq(S) : Len(s) = k => s \in G}
<1>1. 0 \in L
  <2>1. ASSUME NEW s \in Seq(S), Len(s) = 0 PROVE s = <<>>
    BY <2>1, EmptySeq
  <2> QED BY <2>1
<1>2. Len(t) \in Nat
  OBVIOUS
<1>3. ASSUME NEW k \in 0..(Len(t) - 1), k \in L PROVE k + 1 \in L
  <2> SUFFICES ASSUME NEW s \in Seq(S), Len(s) = k + 1 PROVE s \in G
    BY <1>2
  <2>1. s # <<>>
    BY EmptySeq
  <2>2. PICK r \in Seq(S), x \in S : s = Append(r, x)
    BY <2>1, SequenceEmptyOrAppend
  <2>3. Len(r) = k
    BY <2>2, AppendProperties
  <2> QED BY <1>3, <2>2, <2>3
<1> HIDE DEF L
<1>4. \A k \in 0..Len(t) : k \in L
  BY ONLY <1>1, <1>2, <1>3, UpTo
<1>5. Len(t) \in L
  BY <1>2, <1>4
<1> QED BY <1>5 DEF L

\* One sequence behind the other.
Join(s, t) == s \o t

\* No element twice.
Apart(s) == \A i, j \in DOMAIN s : s[i] = s[j] => i = j

\* The sequences of nodes, and those of one node; under names of their own, so that the
\* laws below are all that is known of them.
Rows == Seq(Nodes)
One(x) == <<x>>
None == <<>>

LEMMA RowTypes ==
  /\ None \in Rows /\ Tree!Elems(None) = {} /\ Apart(None)
  /\ \A x \in Nodes : One(x) \in Rows /\ Tree!Elems(One(x)) = {x} /\ Apart(One(x))
  /\ \A s \in Rows : Tree!Elems(s) \subseteq Nodes /\ (Tree!Elems(s) = {} <=> s = None)
<1>1. None \in Rows /\ Tree!Elems(None) = {} /\ Apart(None)
  BY DEF Tree!Elems, Apart, None, Rows
<1>2. ASSUME NEW x \in Nodes
      PROVE  One(x) \in Rows /\ Tree!Elems(One(x)) = {x} /\ Apart(One(x))
  <2>1. <<x>> \in Seq(Nodes) /\ Len(<<x>>) = 1 /\ DOMAIN <<x>> = 1..1 /\ <<x>>[1] = x
    OBVIOUS
  <2> QED BY <2>1 DEF Tree!Elems, Apart, One, Rows
<1>3. ASSUME NEW s \in Rows
      PROVE  Tree!Elems(s) \subseteq Nodes /\ (Tree!Elems(s) = {} <=> s = None)
  <2>1. DOMAIN s = 1..Len(s) /\ Len(s) \in Nat /\ \A k \in 1..Len(s) : s[k] \in Nodes
    BY DEF Rows
  <2>2. s # <<>> => 1 \in 1..Len(s)
    BY <2>1, EmptySeq DEF Rows
  <2>3. Tree!Elems(s) \subseteq Nodes
    BY ONLY <2>1 DEF Tree!Elems
  <2>4. s # <<>> => s[1] \in Tree!Elems(s)
    BY ONLY <2>1, <2>2 DEF Tree!Elems
  <2> QED BY ONLY <1>1, <2>3, <2>4 DEF None
<1> QED BY ONLY <1>1, <1>2, <1>3

LEMMA JoinTypes == \A s, t \in Rows : Join(s, t) \in Rows
<1> SUFFICES ASSUME NEW s \in Rows, NEW t \in Rows PROVE Join(s, t) \in Rows
  OBVIOUS
<1> QED BY ConcatProperties DEF Join, Rows

LEMMA JoinNone == \A s \in Rows : Join(s, None) = s /\ Join(None, s) = s
<1> SUFFICES ASSUME NEW s \in Rows PROVE Join(s, None) = s /\ Join(None, s) = s
  OBVIOUS
<1> QED BY ConcatEmptySeq DEF Join, Rows, None

LEMMA JoinJoin == \A s, t, u \in Rows : Join(Join(s, t), u) = Join(s, Join(t, u))
<1> SUFFICES ASSUME NEW s \in Rows, NEW t \in Rows, NEW u \in Rows
             PROVE  Join(Join(s, t), u) = Join(s, Join(t, u))
  OBVIOUS
<1> QED BY ConcatAssociative DEF Join, Rows

LEMMA AppendJoins == \A s \in Rows, x \in Nodes : Append(s, x) = Join(s, One(x))
<1> SUFFICES ASSUME NEW s \in Rows, NEW x \in Nodes PROVE Append(s, x) = Join(s, One(x))
  OBVIOUS
<1> QED BY AppendIsConcat DEF Join, Rows, One

\* What holds of no node, and of every sequence with one more.
LEMMA RowsGrow ==
  ASSUME NEW G, None \in G, \A s \in Rows, x \in Nodes : s \in G => Join(s, One(x)) \in G
  PROVE  \A s \in Rows : s \in G
<1>1. \A s \in Seq(Nodes), x \in Nodes : s \in G => Append(s, x) \in G
  BY AppendJoins DEF Rows
<1>2. <<>> \in G
  BY DEF None
<1> QED BY ONLY <1>1, <1>2, SeqsGrow DEF Rows

\* Where the elements of two sequences, one behind the other, come from.
LEMMA JoinItems ==
  ASSUME NEW s \in Rows, NEW t \in Rows, NEW u, u = Join(s, t)
  PROVE  /\ Len(s) \in Nat /\ Len(t) \in Nat /\ Len(u) = Len(s) + Len(t)
         /\ DOMAIN u = 1..(Len(s) + Len(t)) /\ DOMAIN s = 1..Len(s) /\ DOMAIN t = 1..Len(t)
         /\ \A k \in 1..Len(s) : u[k] = s[k]
         /\ \A k \in 1..Len(t) : u[Len(s) + k] = t[k]
         /\ \A k \in 1..(Len(s) + Len(t)) : k \in 1..Len(s) \/ k - Len(s) \in 1..Len(t)
<1>1. /\ u \in Seq(Nodes) /\ Len(u) = Len(s) + Len(t)
      /\ \A k \in 1..(Len(s) + Len(t)) : u[k] = IF k <= Len(s) THEN s[k] ELSE t[k - Len(s)]
  BY ConcatProperties DEF Join, Rows
<1>2. Len(s) \in Nat /\ Len(t) \in Nat /\ DOMAIN s = 1..Len(s) /\ DOMAIN t = 1..Len(t)
  BY DEF Rows
<1>3. DOMAIN u = 1..(Len(s) + Len(t))
  BY <1>1
<1>4. ASSUME NEW k \in 1..Len(t) PROVE u[Len(s) + k] = t[k]
  <2>1. Len(s) + k \in 1..(Len(s) + Len(t)) /\ ~(Len(s) + k <= Len(s)) /\ (Len(s) + k) - Len(s) = k
    BY <1>2
  <2> QED BY <1>1, <2>1
<1>5. \A k \in 1..Len(s) : u[k] = s[k]
  BY <1>1, <1>2
<1>6. \A k \in 1..(Len(s) + Len(t)) : k \in 1..Len(s) \/ k - Len(s) \in 1..Len(t)
  BY <1>2
<1> QED BY <1>1, <1>2, <1>3, <1>4, <1>5, <1>6

LEMMA JoinElems == \A s, t \in Rows : Tree!Elems(Join(s, t)) = Tree!Elems(s) \cup Tree!Elems(t)
<1> SUFFICES ASSUME NEW s \in Rows, NEW t \in Rows
             PROVE  Tree!Elems(Join(s, t)) = Tree!Elems(s) \cup Tree!Elems(t)
  OBVIOUS
<1>1. PICK u : u = Join(s, t)
  OBVIOUS
<1>2. PICK a \in Nat : a = Len(s)
  BY DEF Rows
<1>3. PICK b \in Nat : b = Len(t)
  BY DEF Rows
<1>4. /\ DOMAIN u = 1..(a + b) /\ DOMAIN s = 1..a /\ DOMAIN t = 1..b
      /\ \A k \in 1..a : u[k] = s[k]
      /\ \A k \in 1..b : u[a + k] = t[k]
      /\ \A k \in 1..(a + b) : k \in 1..a \/ k - a \in 1..b
  BY ONLY <1>1, <1>2, <1>3, JoinItems, s \in Rows, t \in Rows
<1>5. ASSUME NEW x \in Tree!Elems(u) PROVE x \in Tree!Elems(s) \cup Tree!Elems(t)
  <2>1. PICK k \in 1..(a + b) : x = u[k]
    BY <1>4 DEF Tree!Elems
  <2>2. CASE k \in 1..a
    BY <1>4, <2>1, <2>2 DEF Tree!Elems
  <2>3. CASE k - a \in 1..b
    <3>1. a + (k - a) = k
      OBVIOUS
    <3> QED BY <1>4, <2>1, <2>3, <3>1 DEF Tree!Elems
  <2> QED BY <1>4, <2>2, <2>3
<1>6. ASSUME NEW k \in 1..a PROVE s[k] \in Tree!Elems(u)
  <2>1. k \in 1..(a + b)
    OBVIOUS
  <2> QED BY <1>4, <2>1 DEF Tree!Elems
<1>7. ASSUME NEW k \in 1..b PROVE t[k] \in Tree!Elems(u)
  <2>1. a + k \in 1..(a + b)
    OBVIOUS
  <2> QED BY <1>4, <2>1 DEF Tree!Elems
<1>8. Tree!Elems(s) \subseteq Tree!Elems(u) /\ Tree!Elems(t) \subseteq Tree!Elems(u)
  BY <1>4, <1>6, <1>7 DEF Tree!Elems
<1> QED BY ONLY <1>1, <1>5, <1>8

\* Two sequences, one behind the other, have no element twice if neither has and they
\* share none.
LEMMA JoinApart ==
  \A s, t \in Rows :
    Apart(Join(s, t)) <=> Apart(s) /\ Apart(t) /\ Tree!Elems(s) \cap Tree!Elems(t) = {}
<1> SUFFICES ASSUME NEW s \in Rows, NEW t \in Rows
             PROVE  Apart(Join(s, t)) <=>
                      Apart(s) /\ Apart(t) /\ Tree!Elems(s) \cap Tree!Elems(t) = {}
  OBVIOUS
<1>1. PICK u : u = Join(s, t)
  OBVIOUS
<1>2. PICK a \in Nat : a = Len(s)
  BY DEF Rows
<1>3. PICK b \in Nat : b = Len(t)
  BY DEF Rows
<1>4. /\ DOMAIN u = 1..(a + b) /\ DOMAIN s = 1..a /\ DOMAIN t = 1..b
      /\ \A k \in 1..a : u[k] = s[k]
      /\ \A k \in 1..b : u[a + k] = t[k]
      /\ \A k \in 1..(a + b) : k \in 1..a \/ k - a \in 1..b
  BY ONLY <1>1, <1>2, <1>3, JoinItems, s \in Rows, t \in Rows
<1>5. ASSUME Apart(u)
      PROVE  Apart(s) /\ Apart(t) /\ Tree!Elems(s) \cap Tree!Elems(t) = {}
  <2>1. Apart(s)
    <3>1. \A i \in 1..a : i \in 1..(a + b)
      OBVIOUS
    <3> QED BY <1>4, <1>5, <3>1 DEF Apart
  <2>2. ASSUME NEW i \in 1..b, NEW j \in 1..b, t[i] = t[j] PROVE i = j
    <3>1. a + i \in 1..(a + b) /\ a + j \in 1..(a + b)
      OBVIOUS
    <3>2. a + i = a + j
      BY <1>4, <1>5, <2>2, <3>1 DEF Apart
    <3> QED BY <3>2
  <2>3. ASSUME NEW i \in 1..a, NEW j \in 1..b PROVE s[i] # t[j]
    <3>1. i \in 1..(a + b) /\ a + j \in 1..(a + b) /\ i # a + j
      OBVIOUS
    <3> QED BY <1>4, <1>5, <3>1 DEF Apart
  <2> QED BY <1>4, <2>1, <2>2, <2>3 DEF Apart, Tree!Elems
<1>6. ASSUME Apart(s), Apart(t), Tree!Elems(s) \cap Tree!Elems(t) = {}
      PROVE  Apart(u)
  <2> SUFFICES ASSUME NEW i \in 1..(a + b), NEW j \in 1..(a + b), u[i] = u[j] PROVE i = j
    BY <1>4 DEF Apart
  <2>0. a + (i - a) = i /\ a + (j - a) = j
    OBVIOUS
  <2>1. CASE i \in 1..a /\ j \in 1..a
    BY <1>4, <1>6, <2>1 DEF Apart
  <2>2. CASE i - a \in 1..b /\ j - a \in 1..b
    <3>1. t[i - a] = t[j - a]
      BY <1>4, <2>0, <2>2
    <3>2. i - a = j - a
      BY <1>4, <1>6, <2>2, <3>1 DEF Apart
    <3> QED BY <2>0, <3>2
  <2>3. ASSUME NEW k \in 1..a, NEW l \in 1..b PROVE s[k] # t[l]
    BY <1>4, <1>6 DEF Tree!Elems
  <2>4. ~(i \in 1..a /\ j - a \in 1..b)
    BY <1>4, <2>0, <2>3
  <2>5. ~(j \in 1..a /\ i - a \in 1..b)
    BY <1>4, <2>0, <2>3
  <2> QED BY <1>4, <2>1, <2>2, <2>4, <2>5
<1> QED BY ONLY <1>1, <1>5, <1>6

\* Spread from the definition of FlattenSeq.
LEMMA SpreadNone ==
  ASSUME NEW f
  PROVE  Tree!Spread(None, f) = None
<1>1. PICK e : e = [k \in DOMAIN <<>> |-> f[<<>>[k]]]
  OBVIOUS
<1>2. e = <<>>
  BY <1>1
<1> QED BY <1>1, <1>2 DEF Tree!Spread, Tree!FlattenSeq, None

\* g joins the first members of c.
Flattened(g, c, n) ==
  /\ DOMAIN g = 1..n
  /\ \A i \in 1..n : g[i] = IF i = 1 THEN c[i] ELSE Join(g[i - 1], c[i])

\* The recursion that FlattenSeq has for c.
Flattens0(g, c, n) == g = [i \in 1..n |-> IF i = 1 THEN c[i] ELSE g[i - 1] \o c[i]]

LEMMA FlattenedExists ==
  ASSUME NEW n \in Nat \ {0}, NEW c \in [1..n -> Rows]
  PROVE  \E g : Flattens0(g, c, n)
<1> DEFINE X == Rows
           step == [i \in Nat |-> [x \in X |-> IF i + 1 \in 1..n THEN Join(x, c[i + 1]) ELSE x]]
<1>1. c[1] \in X /\ n - 1 \in Nat
  OBVIOUS
<1>2. step \in [Nat -> [X -> X]]
  <2> SUFFICES ASSUME NEW i \in Nat, NEW x \in X, i + 1 \in 1..n PROVE Join(x, c[i + 1]) \in X
    OBVIOUS
  <2>1. c[i + 1] \in Rows
    OBVIOUS
  <2> QED BY ONLY <2>1, JoinTypes, x \in X
<1>3. PICK f : Recurs(f, X, c[1], step, n - 1)
  <2> HIDE DEF step, X
  <2> QED BY ONLY <1>1, <1>2, RecursionExists
<1> DEFINE g == [i \in 1..n |-> f[i - 1]]
<1>4. ASSUME NEW i \in 1..n, i # 1 PROVE g[i] = Join(g[i - 1], c[i])
  <2>1. i - 1 \in 1..(n - 1) /\ (i - 1) + 1 = i /\ i - 1 \in 1..n /\ (i - 1) - 1 \in 0..(n - 1)
    BY <1>4
  <2>2. f[i - 1] = step[i - 1][f[(i - 1) - 1]] /\ f[(i - 1) - 1] \in X
    BY <1>3, <2>1 DEF Recurs
  <2> HIDE DEF X
  <2> QED BY <2>1, <2>2
<1>5. g[1] = c[1] /\ 1 \in 1..n
  BY <1>3 DEF Recurs
<1>6. DOMAIN g = 1..n /\ g = [i \in 1..n |-> g[i]]
  OBVIOUS
<1> HIDE DEF g
<1>7. g = [i \in 1..n |-> IF i = 1 THEN c[i] ELSE g[i - 1] \o c[i]]
  <2>1. \A i \in 1..n : g[i] = IF i = 1 THEN c[i] ELSE g[i - 1] \o c[i]
    BY <1>4, <1>5 DEF Join
  <2> QED BY <1>6, <2>1
<1> QED BY <1>7 DEF Flattens0

\* FlattenSeq takes just one such function.
LEMMA FlattenIs ==
  ASSUME NEW n \in Nat \ {0}, NEW c \in [1..n -> Rows]
  PROVE  \E g : Flattened(g, c, n) /\ Tree!FlattenSeq(c) = g[n]
<1>0. Len(c) = n /\ n # 0
  OBVIOUS
<1>1. PICK h : h = CHOOSE g : g = [i \in 1..n |-> IF i = 1 THEN c[i] ELSE g[i - 1] \o c[i]]
  OBVIOUS
<1>2. \E g : g = [i \in 1..n |-> IF i = 1 THEN c[i] ELSE g[i - 1] \o c[i]]
  <2>1. PICK g : Flattens0(g, c, n)
    BY FlattenedExists
  <2> QED BY ONLY <2>1 DEF Flattens0
<1>3. h = [i \in 1..n |-> IF i = 1 THEN c[i] ELSE h[i - 1] \o c[i]]
  BY ONLY <1>1, <1>2
<1>4. Flattened(h, c, n)
  BY <1>3 DEF Flattened, Join
<1>5. Tree!FlattenSeq(c) = h[n]
  BY <1>0, <1>1 DEF Tree!FlattenSeq
<1> QED BY <1>4, <1>5

SameLast(h, g, m) == h[m] = g[m] /\ g[m] \in Rows

LEMMA FlattenedSame ==
  ASSUME NEW n \in Nat \ {0}, NEW c \in [1..n -> Rows], NEW d, NEW g, NEW h, NEW m \in 1..n,
         Flattened(g, c, n), Flattened(h, d, m), \A i \in 1..m : d[i] = c[i]
  PROVE  SameLast(h, g, m)
<1> DEFINE L == {k \in 0..m : k = 0 \/ (h[k] = g[k] /\ g[k] \in Rows)}
<1>1. 0 \in L
  OBVIOUS
<1>2. ASSUME NEW k \in 0..(m - 1), k \in L PROVE k + 1 \in L
  <2>1. k + 1 \in 1..m /\ k + 1 \in 1..n /\ (k + 1) - 1 = k /\ k + 1 \in 0..m
    OBVIOUS
  <2>2. c[k + 1] \in Rows /\ d[k + 1] = c[k + 1]
    BY <2>1
  <2>3. CASE k = 0
    BY <2>1, <2>2, <2>3 DEF Flattened
  <2>4. CASE k # 0
    <3>1. k + 1 # 1
      BY <2>4
    <3>2. h[k + 1] = Join(h[k], d[k + 1]) /\ g[k + 1] = Join(g[k], c[k + 1])
      BY <2>1, <3>1 DEF Flattened
    <3>3. h[k] = g[k] /\ g[k] \in Rows
      BY <1>2, <2>4
    <3>4. g[k + 1] \in Rows
      BY ONLY <2>2, <3>2, <3>3, JoinTypes
    <3> QED BY <2>1, <2>2, <3>2, <3>3, <3>4
  <2> QED BY <2>3, <2>4
<1>3. m \in Nat
  OBVIOUS
<1> HIDE DEF L
<1>4. \A k \in 0..m : k \in L
  BY ONLY <1>1, <1>2, <1>3, UpTo
<1>5. m \in L
  BY <1>3, <1>4
<1> QED BY <1>5 DEF L, SameLast

SpreadGrows(s, x, f) == Tree!Spread(Join(s, One(x)), f) = Join(Tree!Spread(s, f), f[x])

LEMMA SpreadOne ==
  ASSUME NEW s \in Rows, NEW x \in Nodes, NEW f \in [Nodes -> Rows], Tree!Spread(s, f) \in Rows
  PROVE  SpreadGrows(s, x, f)
<1>1. PICK t : t = Join(s, One(x))
  OBVIOUS
<1>2. PICK n \in Nat : n = Len(s)
  BY DEF Rows
<1>3. /\ Len(t) = n + 1 /\ DOMAIN t = 1..(n + 1) /\ DOMAIN s = 1..n
      /\ (\A k \in 1..n : t[k] = s[k]) /\ t[n + 1] = x
  <2>1. t = Append(s, x)
    BY <1>1, AppendJoins
  <2> QED BY ONLY <1>2, <2>1, AppendProperties, s \in Rows, x \in Nodes, n \in Nat DEF Rows
<1>4. PICK d : d = [k \in DOMAIN t |-> f[t[k]]]
  OBVIOUS
<1>5. PICK c : c = [k \in DOMAIN s |-> f[s[k]]]
  OBVIOUS
<1>6. d \in [1..(n + 1) -> Rows] /\ c \in [1..n -> Rows] /\ d[n + 1] = f[x]
  <2>1. \A k \in 1..n : s[k] \in Nodes
    BY <1>2 DEF Rows
  <2>2. \A k \in 1..(n + 1) : t[k] \in Nodes
    BY <1>3, <2>1
  <2>3. n + 1 \in 1..(n + 1)
    OBVIOUS
  <2> QED BY ONLY <1>3, <1>4, <1>5, <2>1, <2>2, <2>3, f \in [Nodes -> Rows]
<1>7. \A k \in 1..n : c[k] = d[k] /\ k \in 1..(n + 1)
  BY ONLY <1>3, <1>4, <1>5, n \in Nat
<1>8. Tree!Spread(s, f) = Tree!FlattenSeq(c) /\ Tree!Spread(t, f) = Tree!FlattenSeq(d)
  BY ONLY <1>4, <1>5 DEF Tree!Spread
<1>9. PICK g : Flattened(g, d, n + 1) /\ Tree!FlattenSeq(d) = g[n + 1]
  <2>1. n + 1 \in Nat \ {0}
    OBVIOUS
  <2> QED BY ONLY <1>6, <2>1, FlattenIs
<1>10. CASE n = 0
  <2>1. s = None
    BY <1>2, <1>10, EmptySeq DEF Rows, None
  <2>2. Tree!Spread(s, f) = None
    BY <2>1, SpreadNone
  <2>3. g[n + 1] = d[n + 1]
    BY <1>9, <1>10 DEF Flattened
  <2>4. Join(None, f[x]) = f[x]
    BY JoinNone
  <2> QED BY ONLY <1>1, <1>6, <1>8, <1>9, <2>2, <2>3, <2>4 DEF SpreadGrows
<1>11. CASE n # 0
  <2>1. n \in Nat \ {0} /\ n \in 1..(n + 1) /\ n + 1 \in 1..(n + 1) /\ n + 1 \in Nat \ {0} /\ n + 1 # 1 /\ (n + 1) - 1 = n
    BY <1>11
  <2>2. PICK h : Flattened(h, c, n) /\ Tree!FlattenSeq(c) = h[n]
    BY ONLY <1>6, <2>1, FlattenIs
  <2>3. h[n] = g[n]
    <3>1. \A k \in 1..n : c[k] = d[k]
      BY ONLY <1>7
    <3>2. SameLast(h, g, n)
      BY ONLY <1>6, <1>9, <2>1, <2>2, <3>1, FlattenedSame
    <3> QED BY ONLY <3>2 DEF SameLast
  <2>4. g[n + 1] = Join(g[n], d[n + 1])
    BY ONLY <1>9, <2>1 DEF Flattened
  <2> QED BY ONLY <1>1, <1>6, <1>8, <1>9, <2>2, <2>3, <2>4 DEF SpreadGrows
<1> QED BY <1>10, <1>11

LEMMA SpreadTypes == \A s \in Rows, f \in [Nodes -> Rows] : Tree!Spread(s, f) \in Rows
<1> SUFFICES ASSUME NEW f \in [Nodes -> Rows] PROVE \A s \in Rows : Tree!Spread(s, f) \in Rows
  OBVIOUS
<1> DEFINE G == {t \in Rows : Tree!Spread(t, f) \in Rows}
<1>1. None \in G
  BY SpreadNone, RowTypes
<1>2. ASSUME NEW t \in Rows, NEW x \in Nodes, t \in G PROVE Join(t, One(x)) \in G
  <2>1. Tree!Spread(t, f) \in Rows
    BY <1>2
  <2>2. Tree!Spread(Join(t, One(x)), f) = Join(Tree!Spread(t, f), f[x])
    <3>1. SpreadGrows(t, x, f)
      BY ONLY <2>1, SpreadOne, t \in Rows, x \in Nodes, f \in [Nodes -> Rows]
    <3> QED BY ONLY <3>1 DEF SpreadGrows
  <2>3. f[x] \in Rows /\ Join(t, One(x)) \in Rows
    BY RowTypes, JoinTypes
  <2>4. Join(Tree!Spread(t, f), f[x]) \in Rows
    BY ONLY <2>1, <2>3, JoinTypes
  <2> QED BY <2>2, <2>3, <2>4
<1>3. \A t \in Rows : t \in G
  <2> HIDE DEF G
  <2> QED BY ONLY <1>1, <1>2, RowsGrow
<1> QED BY <1>3

LEMMA SpreadMore ==
  \A s \in Rows, x \in Nodes, f \in [Nodes -> Rows] :
    Tree!Spread(Join(s, One(x)), f) = Join(Tree!Spread(s, f), f[x])
<1> SUFFICES ASSUME NEW s \in Rows, NEW x \in Nodes, NEW f \in [Nodes -> Rows]
             PROVE  Tree!Spread(Join(s, One(x)), f) = Join(Tree!Spread(s, f), f[x])
  OBVIOUS
<1>1. Tree!Spread(s, f) \in Rows
  BY SpreadTypes
<1>2. SpreadGrows(s, x, f)
  BY ONLY <1>1, SpreadOne, s \in Rows, x \in Nodes, f \in [Nodes -> Rows]
<1> QED BY ONLY <1>2 DEF SpreadGrows

\* Only what f has for the elements of s counts.
LEMMA SpreadSame ==
  ASSUME NEW s, NEW f, NEW g, \A x \in Tree!Elems(s) : f[x] = g[x]
  PROVE  Tree!Spread(s, f) = Tree!Spread(s, g)
<1>1. [k \in DOMAIN s |-> f[s[k]]] = [k \in DOMAIN s |-> g[s[k]]]
  BY DEF Tree!Elems
<1> QED BY <1>1 DEF Tree!Spread

LEMMA SpreadSingle == \A x \in Nodes, f \in [Nodes -> Rows] : Tree!Spread(One(x), f) = f[x]
<1> SUFFICES ASSUME NEW x \in Nodes, NEW f \in [Nodes -> Rows]
             PROVE  Tree!Spread(One(x), f) = f[x]
  OBVIOUS
<1>1. Tree!Spread(Join(None, One(x)), f) = Join(Tree!Spread(None, f), f[x])
  BY SpreadMore, RowTypes
<1>2. Join(None, One(x)) = One(x) /\ Join(None, f[x]) = f[x]
  BY JoinNone, RowTypes
<1>3. Tree!Spread(None, f) = None
  BY SpreadNone
<1> QED BY ONLY <1>1, <1>2, <1>3

LEMMA SpreadJoin ==
  \A s, t \in Rows, f \in [Nodes -> Rows] :
    Tree!Spread(Join(s, t), f) = Join(Tree!Spread(s, f), Tree!Spread(t, f))
<1> SUFFICES ASSUME NEW s \in Rows, NEW f \in [Nodes -> Rows]
             PROVE  \A t \in Rows :
                      Tree!Spread(Join(s, t), f) = Join(Tree!Spread(s, f), Tree!Spread(t, f))
  OBVIOUS
<1> DEFINE G == {u \in Rows : Tree!Spread(Join(s, u), f) = Join(Tree!Spread(s, f), Tree!Spread(u, f))}
<1>0. PICK p \in Rows : p = Tree!Spread(s, f)
  BY SpreadTypes
<1>2. None \in G
  <2>1. Join(s, None) = s /\ None \in Rows /\ Join(p, None) = p
    BY JoinNone, RowTypes
  <2>2. Tree!Spread(None, f) = None
    BY SpreadNone
  <2> QED BY ONLY <1>0, <2>1, <2>2
<1>3. ASSUME NEW u \in Rows, NEW x \in Nodes, u \in G PROVE Join(u, One(x)) \in G
  <2>1. Tree!Spread(Join(s, u), f) = Join(p, Tree!Spread(u, f))
    BY <1>0, <1>3
  <2>2. PICK q \in Rows : q = Tree!Spread(u, f)
    BY SpreadTypes
  <2>3. PICK v \in Rows : v = Join(s, u)
    BY JoinTypes
  <2>4. f[x] \in Rows /\ One(x) \in Rows
    BY RowTypes
  <2>5. Join(u, One(x)) \in Rows /\ Join(s, Join(u, One(x))) = Join(v, One(x))
    BY ONLY <2>3, <2>4, JoinJoin, JoinTypes, s \in Rows, u \in Rows
  <2>6. /\ Tree!Spread(Join(v, One(x)), f) = Join(Tree!Spread(v, f), f[x])
        /\ Tree!Spread(Join(u, One(x)), f) = Join(q, f[x])
    BY ONLY <2>2, SpreadMore, u \in Rows, v \in Rows, x \in Nodes, f \in [Nodes -> Rows]
  <2>7. Join(Join(p, q), f[x]) = Join(p, Join(q, f[x]))
    BY ONLY <2>4, JoinJoin, p \in Rows, q \in Rows
  <2> QED BY ONLY <1>0, <2>1, <2>2, <2>3, <2>5, <2>6, <2>7
<1> HIDE DEF G
<1>4. \A t \in Rows : t \in G
  BY ONLY <1>2, <1>3, RowsGrow
<1> QED BY <1>4 DEF G

\* The elements of Spread(s, f).
LEMMA SpreadElems ==
  \A y : \A s \in Rows, f \in [Nodes -> Rows] :
    y \in Tree!Elems(Tree!Spread(s, f)) <=> \E x \in Tree!Elems(s) : y \in Tree!Elems(f[x])
<1> SUFFICES ASSUME NEW f \in [Nodes -> Rows], NEW y
             PROVE  \A s \in Rows : y \in Tree!Elems(Tree!Spread(s, f)) <=>
                                      \E x \in Tree!Elems(s) : y \in Tree!Elems(f[x])
  OBVIOUS
<1> DEFINE Has(u) == y \in Tree!Elems(Tree!Spread(u, f)) <=> \E x \in Tree!Elems(u) : y \in Tree!Elems(f[x])
           G == {u \in Rows : Has(u)}
<1>1. None \in G
  BY SpreadNone, RowTypes
<1>2. ASSUME NEW u \in Rows, NEW x \in Nodes, u \in G PROVE Join(u, One(x)) \in G
  <2>1. PICK q \in Rows : q = Tree!Spread(u, f)
    BY SpreadTypes
  <2>2. f[x] \in Rows /\ One(x) \in Rows /\ Tree!Elems(One(x)) = {x}
    BY RowTypes
  <2>3. Tree!Spread(Join(u, One(x)), f) = Join(q, f[x])
    BY <2>1, SpreadMore
  <2>4. Tree!Elems(Join(q, f[x])) = Tree!Elems(q) \cup Tree!Elems(f[x])
    BY ONLY <2>2, JoinElems, q \in Rows
  <2>5. Tree!Elems(Join(u, One(x))) = Tree!Elems(u) \cup {x} /\ Join(u, One(x)) \in Rows
    BY ONLY <2>2, JoinElems, JoinTypes, u \in Rows
  <2>6. y \in Tree!Elems(q) <=> \E z \in Tree!Elems(u) : y \in Tree!Elems(f[z])
    BY <1>2, <2>1
  <2>7. Has(Join(u, One(x)))
    BY ONLY <2>3, <2>4, <2>5, <2>6
  <2> QED BY <2>5, <2>7
<1> HIDE DEF G
<1>3. \A s \in Rows : s \in G
  BY ONLY <1>1, <1>2, RowsGrow
<1> QED BY <1>3 DEF G

\* A sequence around one of its elements.
Around(s, a, x, b) == a \in Rows /\ b \in Rows /\ s = Join(a, Join(One(x), b))

LEMMA Splits == \A s \in Rows, x \in Nodes : x \in Tree!Elems(s) => \E a, b : Around(s, a, x, b)
<1> SUFFICES ASSUME NEW x \in Nodes
             PROVE  \A s \in Rows : x \in Tree!Elems(s) => \E a, b : Around(s, a, x, b)
  OBVIOUS
<1> DEFINE G == {u \in Rows : x \in Tree!Elems(u) => \E a, b : Around(u, a, x, b)}
<1>1. None \in G
  BY RowTypes
<1>2. ASSUME NEW u \in Rows, NEW y \in Nodes, u \in G PROVE Join(u, One(y)) \in G
  <2>1. One(y) \in Rows /\ Tree!Elems(One(y)) = {y} /\ One(x) \in Rows /\ None \in Rows
    BY RowTypes
  <2>2. Tree!Elems(Join(u, One(y))) = Tree!Elems(u) \cup {y} /\ Join(u, One(y)) \in Rows
    BY ONLY <2>1, JoinElems, JoinTypes, u \in Rows
  <2>3. SUFFICES ASSUME x \in Tree!Elems(Join(u, One(y)))
                 PROVE  \E a, b : Around(Join(u, One(y)), a, x, b)
    BY <2>2
  <2>4. CASE x = y
    <3>1. Join(One(y), None) = One(y)
      BY ONLY <2>1, JoinNone
    <3>2. Around(Join(u, One(y)), u, x, None)
      BY ONLY <2>1, <2>4, <3>1, u \in Rows DEF Around
    <3> QED BY ONLY <3>2
  <2>5. CASE x # y
    <3>1. PICK a, b : Around(u, a, x, b)
      BY <1>2, <2>2, <2>3, <2>5
    <3>2. a \in Rows /\ b \in Rows /\ u = Join(a, Join(One(x), b))
      BY ONLY <3>1 DEF Around
    <3>4. Join(One(x), b) \in Rows /\ Join(b, One(y)) \in Rows
      BY ONLY <2>1, <3>2, JoinTypes
    <3>5. Join(u, One(y)) = Join(a, Join(Join(One(x), b), One(y)))
      BY ONLY <2>1, <3>2, <3>4, JoinJoin
    <3>6. Join(Join(One(x), b), One(y)) = Join(One(x), Join(b, One(y)))
      BY ONLY <2>1, <3>2, JoinJoin
    <3>7. Around(Join(u, One(y)), a, x, Join(b, One(y)))
      BY ONLY <2>1, <3>2, <3>4, <3>5, <3>6 DEF Around
    <3> QED BY ONLY <3>7
  <2> QED BY ONLY <2>4, <2>5
<1> HIDE DEF G
<1>3. \A s \in Rows : s \in G
  BY ONLY <1>1, <1>2, RowsGrow
<1> QED BY <1>3 DEF G

\* Without as a Spread.
Keeping(X) == [x \in Nodes |-> IF x \in X THEN None ELSE One(x)]

LEMMA KeepingTypes ==
  ASSUME NEW X
  PROVE  /\ Keeping(X) \in [Nodes -> Rows]
         /\ \A x \in Nodes : Keeping(X)[x] = IF x \in X THEN None ELSE One(x)
         /\ \A s : Tree!Without(s, X) = Tree!Spread(s, Keeping(X))
BY RowTypes DEF Keeping, Tree!Without, None, One

LEMMA WithoutNone == \A X : Tree!Without(None, X) = None
BY KeepingTypes, SpreadNone

LEMMA WithoutMore ==
  \A X : \A s \in Rows, x \in Nodes :
    Tree!Without(Join(s, One(x)), X) =
      IF x \in X THEN Tree!Without(s, X) ELSE Join(Tree!Without(s, X), One(x))
<1> SUFFICES ASSUME NEW s \in Rows, NEW x \in Nodes, NEW X
             PROVE  Tree!Without(Join(s, One(x)), X) =
                      IF x \in X THEN Tree!Without(s, X) ELSE Join(Tree!Without(s, X), One(x))
  OBVIOUS
<1>1. PICK f \in [Nodes -> Rows] : f = Keeping(X)
  BY KeepingTypes
<1>2. /\ Tree!Without(Join(s, One(x)), X) = Tree!Spread(Join(s, One(x)), f)
      /\ Tree!Without(s, X) = Tree!Spread(s, f)
      /\ f[x] = IF x \in X THEN None ELSE One(x)
  BY <1>1, KeepingTypes
<1>3. Tree!Spread(Join(s, One(x)), f) = Join(Tree!Spread(s, f), f[x]) /\ Tree!Spread(s, f) \in Rows
  BY SpreadMore, SpreadTypes
<1>4. Join(Tree!Spread(s, f), None) = Tree!Spread(s, f)
  BY ONLY <1>3, JoinNone
<1> QED BY ONLY <1>2, <1>3, <1>4

LEMMA WithoutTypes == \A X : \A s \in Rows : Tree!Without(s, X) \in Rows
BY KeepingTypes, SpreadTypes

LEMMA WithoutJoin ==
  \A X : \A s, t \in Rows : Tree!Without(Join(s, t), X) = Join(Tree!Without(s, X), Tree!Without(t, X))
<1> SUFFICES ASSUME NEW s \in Rows, NEW t \in Rows, NEW X
             PROVE  Tree!Without(Join(s, t), X) = Join(Tree!Without(s, X), Tree!Without(t, X))
  OBVIOUS
<1>1. PICK f \in [Nodes -> Rows] : f = Keeping(X)
  BY KeepingTypes
<1>2. \A u : Tree!Without(u, X) = Tree!Spread(u, f)
  BY <1>1, KeepingTypes
<1>3. Tree!Spread(Join(s, t), f) = Join(Tree!Spread(s, f), Tree!Spread(t, f))
  BY SpreadJoin
<1> QED BY ONLY <1>2, <1>3

LEMMA WithoutElems == \A X : \A s \in Rows : Tree!Elems(Tree!Without(s, X)) = Tree!Elems(s) \ X
<1> SUFFICES ASSUME NEW s \in Rows, NEW X
             PROVE  Tree!Elems(Tree!Without(s, X)) = Tree!Elems(s) \ X
  OBVIOUS
<1>1. PICK f \in [Nodes -> Rows] : f = Keeping(X)
  BY KeepingTypes
<1>2. Tree!Without(s, X) = Tree!Spread(s, f)
  BY <1>1, KeepingTypes
<1>3. \A y : y \in Tree!Elems(Tree!Spread(s, f)) <=> \E x \in Tree!Elems(s) : y \in Tree!Elems(f[x])
  BY ONLY SpreadElems, s \in Rows, f \in [Nodes -> Rows]
<1>4. ASSUME NEW x \in Nodes PROVE Tree!Elems(f[x]) = IF x \in X THEN {} ELSE {x}
  <2>1. f[x] = IF x \in X THEN None ELSE One(x)
    BY <1>1, KeepingTypes
  <2>2. Tree!Elems(None) = {} /\ Tree!Elems(One(x)) = {x}
    BY RowTypes
  <2> QED BY ONLY <2>1, <2>2
<1>5. Tree!Elems(s) \subseteq Nodes
  BY RowTypes
<1>6. ASSUME NEW y PROVE y \in Tree!Elems(Tree!Spread(s, f)) <=> y \in Tree!Elems(s) \ X
  BY ONLY <1>3, <1>4, <1>5
<1> QED BY ONLY <1>2, <1>6

LEMMA WithoutOthers == \A X : \A s \in Rows : Tree!Elems(s) \cap X = {} => Tree!Without(s, X) = s
<1> SUFFICES ASSUME NEW X
             PROVE  \A s \in Rows : Tree!Elems(s) \cap X = {} => Tree!Without(s, X) = s
  OBVIOUS
<1> DEFINE G == {u \in Rows : Tree!Elems(u) \cap X = {} => Tree!Without(u, X) = u}
<1>1. None \in G
  BY WithoutNone, RowTypes
<1>2. ASSUME NEW u \in Rows, NEW x \in Nodes, u \in G PROVE Join(u, One(x)) \in G
  <2>1. Tree!Elems(Join(u, One(x))) = Tree!Elems(u) \cup {x} /\ Join(u, One(x)) \in Rows
    BY ONLY RowTypes, JoinElems, JoinTypes, u \in Rows, x \in Nodes
  <2>2. Tree!Without(Join(u, One(x)), X) =
          IF x \in X THEN Tree!Without(u, X) ELSE Join(Tree!Without(u, X), One(x))
    BY ONLY WithoutMore, u \in Rows, x \in Nodes
  <2> QED BY ONLY <1>2, <2>1, <2>2
<1>3. \A s \in Rows : s \in G
  <2> HIDE DEF G
  <2> QED BY ONLY <1>1, <1>2, RowsGrow
<1> QED BY <1>3

LEMMA WithoutAll == \A X : \A s \in Rows : Tree!Elems(s) \subseteq X => Tree!Without(s, X) = None
<1> SUFFICES ASSUME NEW s \in Rows, NEW X, Tree!Elems(s) \subseteq X PROVE Tree!Without(s, X) = None
  OBVIOUS
<1>1. Tree!Elems(Tree!Without(s, X)) = {} /\ Tree!Without(s, X) \in Rows
  BY WithoutElems, WithoutTypes
<1> QED BY ONLY <1>1, RowTypes

LEMMA WithoutTwice ==
  \A X, Y : \A s \in Rows : Tree!Without(Tree!Without(s, X), Y) = Tree!Without(s, X \cup Y)
<1> SUFFICES ASSUME NEW X, NEW Y
             PROVE  \A s \in Rows : Tree!Without(Tree!Without(s, X), Y) = Tree!Without(s, X \cup Y)
  OBVIOUS
<1> DEFINE G == {u \in Rows : Tree!Without(Tree!Without(u, X), Y) = Tree!Without(u, X \cup Y)}
<1>1. None \in G
  BY WithoutNone, RowTypes
<1>2. ASSUME NEW u \in Rows, NEW x \in Nodes, u \in G PROVE Join(u, One(x)) \in G
  <2>0. Join(u, One(x)) \in Rows
    BY RowTypes, JoinTypes
  <2>1. PICK w \in Rows : w = Tree!Without(u, X)
    BY WithoutTypes
  <2>2. PICK Z : Z = X \cup Y
    OBVIOUS
  <2>3. Tree!Without(w, Y) = Tree!Without(u, Z)
    BY <1>2, <2>1, <2>2
  <2>4. /\ Tree!Without(Join(u, One(x)), X) = IF x \in X THEN w ELSE Join(w, One(x))
        /\ Tree!Without(Join(u, One(x)), Z) =
             IF x \in Z THEN Tree!Without(u, Z) ELSE Join(Tree!Without(u, Z), One(x))
        /\ Tree!Without(Join(w, One(x)), Y) =
             IF x \in Y THEN Tree!Without(w, Y) ELSE Join(Tree!Without(w, Y), One(x))
    BY ONLY <2>1, WithoutMore, u \in Rows, x \in Nodes, w \in Rows
  <2>5. x \in Z <=> x \in X \/ x \in Y
    BY <2>2
  <2>6. Tree!Without(Tree!Without(Join(u, One(x)), X), Y) = Tree!Without(Join(u, One(x)), Z)
    BY ONLY <2>3, <2>4, <2>5
  <2> QED BY <2>0, <2>2, <2>6
<1>3. \A s \in Rows : s \in G
  <2> HIDE DEF G
  <2> QED BY ONLY <1>1, <1>2, RowsGrow
<1> QED BY <1>3

LEMMA WithoutApart == \A X : \A s \in Rows : Apart(s) => Apart(Tree!Without(s, X))
<1> SUFFICES ASSUME NEW X PROVE \A s \in Rows : Apart(s) => Apart(Tree!Without(s, X))
  OBVIOUS
<1> DEFINE G == {u \in Rows : Apart(u) => Apart(Tree!Without(u, X))}
<1>1. None \in G
  BY WithoutNone, RowTypes
<1>2. ASSUME NEW u \in Rows, NEW x \in Nodes, u \in G PROVE Join(u, One(x)) \in G
  <2>0. /\ One(x) \in Rows /\ Tree!Elems(One(x)) = {x} /\ Apart(One(x))
        /\ Join(u, One(x)) \in Rows
    BY RowTypes, JoinTypes
  <2>1. PICK w \in Rows : w = Tree!Without(u, X)
    BY WithoutTypes
  <2>2. Tree!Without(Join(u, One(x)), X) = IF x \in X THEN w ELSE Join(w, One(x))
    BY <2>1, WithoutMore
  <2>3. Tree!Elems(w) = Tree!Elems(u) \ X
    BY <2>1, WithoutElems
  <2>4. Apart(Join(u, One(x))) <=> Apart(u) /\ Tree!Elems(u) \cap {x} = {}
    BY ONLY <2>0, JoinApart, u \in Rows
  <2>5. Apart(Join(w, One(x))) <=> Apart(w) /\ Tree!Elems(w) \cap {x} = {}
    BY ONLY <2>0, JoinApart, w \in Rows
  <2>6. Apart(u) => Apart(w)
    BY <1>2, <2>1
  <2>7. Apart(Join(u, One(x))) => Apart(Tree!Without(Join(u, One(x)), X))
    BY ONLY <2>2, <2>3, <2>4, <2>5, <2>6
  <2> QED BY <2>0, <2>7
<1>3. \A s \in Rows : s \in G
  <2> HIDE DEF G
  <2> QED BY ONLY <1>1, <1>2, RowsGrow
<1> QED BY <1>3

\* A sequence without an element that it has once.
LEMMA WithoutMiddle ==
  \A s, a, b, x : x \in Nodes /\ Around(s, a, x, b) /\ Apart(s) =>
    /\ Tree!Without(s, {x}) = Join(a, b)
    /\ x \notin Tree!Elems(a) /\ x \notin Tree!Elems(b)
    /\ Tree!Elems(a) \cap Tree!Elems(b) = {} /\ Apart(a) /\ Apart(b)
    /\ Tree!Elems(s) = Tree!Elems(a) \cup {x} \cup Tree!Elems(b)
<1> SUFFICES ASSUME NEW s, NEW a, NEW b, NEW x \in Nodes, Around(s, a, x, b), Apart(s)
             PROVE  /\ Tree!Without(s, {x}) = Join(a, b)
                    /\ x \notin Tree!Elems(a) /\ x \notin Tree!Elems(b)
                    /\ Tree!Elems(a) \cap Tree!Elems(b) = {} /\ Apart(a) /\ Apart(b)
                    /\ Tree!Elems(s) = Tree!Elems(a) \cup {x} \cup Tree!Elems(b)
  BY ZenonT(60)
<1>1. a \in Rows /\ b \in Rows /\ s = Join(a, Join(One(x), b))
  BY DEF Around
<1>2. One(x) \in Rows /\ Tree!Elems(One(x)) = {x}
  BY RowTypes
<1>3. PICK c \in Rows : c = Join(One(x), b)
  BY <1>1, <1>2, JoinTypes
<1>4. Tree!Elems(c) = {x} \cup Tree!Elems(b) /\ Tree!Elems(s) = Tree!Elems(a) \cup Tree!Elems(c)
  BY ONLY <1>1, <1>2, <1>3, JoinElems
<1>5. Apart(a) /\ Apart(c) /\ Tree!Elems(a) \cap Tree!Elems(c) = {}
  BY ONLY <1>1, <1>3, JoinApart, Apart(s)
<1>6. Apart(b) /\ {x} \cap Tree!Elems(b) = {}
  BY ONLY <1>1, <1>2, <1>3, <1>5, JoinApart
<1>7. x \notin Tree!Elems(a) /\ x \notin Tree!Elems(b) /\ Tree!Elems(a) \cap Tree!Elems(b) = {}
  BY ONLY <1>4, <1>5, <1>6
<1>8. PICK X : X = {x}
  OBVIOUS
<1>9. Tree!Without(a, X) = a /\ Tree!Without(b, X) = b /\ Tree!Without(One(x), X) = None
  <2>1. Tree!Elems(a) \cap X = {} /\ Tree!Elems(b) \cap X = {} /\ Tree!Elems(One(x)) \subseteq X
    BY ONLY <1>2, <1>7, <1>8
  <2> QED BY ONLY <1>1, <1>2, <2>1, WithoutOthers, WithoutAll
<1>10. Tree!Without(s, X) = Join(Tree!Without(a, X), Tree!Without(c, X))
  BY ONLY <1>1, <1>3, WithoutJoin
<1>11. Tree!Without(c, X) = Join(Tree!Without(One(x), X), Tree!Without(b, X))
  BY ONLY <1>1, <1>2, <1>3, WithoutJoin
<1>12. Join(None, b) = b
  BY ONLY <1>1, JoinNone
<1>13. Tree!Without(s, {x}) = Join(a, b)
  BY ONLY <1>8, <1>9, <1>10, <1>11, <1>12
<1> QED BY ONLY <1>4, <1>5, <1>6, <1>7, <1>13

\* It is shorter.
LEMMA WithoutShorter ==
  \A s \in Rows : \A x \in Tree!Elems(s) : Apart(s) =>
    Len(s) \in Nat /\ Len(Tree!Without(s, {x})) \in Nat /\ Len(Tree!Without(s, {x})) < Len(s)
<1> SUFFICES ASSUME NEW s \in Rows, NEW x \in Tree!Elems(s), Apart(s)
             PROVE  /\ Len(s) \in Nat /\ Len(Tree!Without(s, {x})) \in Nat
                    /\ Len(Tree!Without(s, {x})) < Len(s)
  OBVIOUS
<1>1. x \in Nodes
  BY RowTypes
<1>2. PICK a, b : Around(s, a, x, b)
  BY <1>1, Splits
<1>3. Tree!Without(s, {x}) = Join(a, b)
  BY <1>1, <1>2, WithoutMiddle
<1>4. a \in Rows /\ b \in Rows /\ One(x) \in Rows /\ s = Join(a, Join(One(x), b))
  BY <1>1, <1>2, RowTypes DEF Around
<1>5. PICK c \in Rows : c = Join(One(x), b)
  BY <1>4, JoinTypes
<1>6. PICK d \in Rows : d = Join(a, b)
  BY <1>4, JoinTypes
<1>7. Len(One(x)) = 1
  BY DEF One
<1>8. Len(a) \in Nat /\ Len(b) \in Nat /\ Len(c) = Len(One(x)) + Len(b)
  BY ONLY <1>4, <1>5, JoinItems
<1>9. Len(s) = Len(a) + Len(c) /\ Len(d) = Len(a) + Len(b)
  BY ONLY <1>4, <1>5, <1>6, JoinItems
<1> QED BY ONLY <1>3, <1>6, <1>7, <1>8, <1>9

-----------------------------------------------------------------------------
(* Recursion over the nodes below, where each has its own below it.        *)

\* f solves the recursion on C, which has with each member all that is below it.
SolvesOn(C, f, D, X, below, step) ==
  /\ C \in SUBSET D /\ f \in [D -> X]
  /\ \A x \in C : below[x] \subseteq C /\ f[x] = step[x][f]

\* The recursion is well-founded, and each step looks at what is below only.
Founded(D, X, below, step) ==
  /\ below \in [D -> SUBSET D]
  /\ \A S \in SUBSET D : S # {} => \E x \in S : below[x] \cap S = {}
  /\ \A x \in D : \A f, g \in [D -> X] :
       (\A y \in below[x] : f[y] = g[y]) => step[x][f] = step[x][g]

SameStep(step, x, f, g) == step[x][f] = step[x][g]

LEMMA FoundedSame ==
  ASSUME NEW D, NEW X, NEW below, NEW step, Founded(D, X, below, step),
         NEW x \in D, NEW f \in [D -> X], NEW g \in [D -> X], \A y \in below[x] : f[y] = g[y]
  PROVE  SameStep(step, x, f, g)
BY DEF Founded, SameStep

LEMMA SolvesAlike ==
  ASSUME NEW D, NEW X, NEW below, NEW step, Founded(D, X, below, step),
         NEW B, NEW f, SolvesOn(B, f, D, X, below, step),
         NEW C, NEW g, SolvesOn(C, g, D, X, below, step)
  PROVE  \A x \in B \cap C : f[x] = g[x]
<1> DEFINE Bad == {x \in B \cap C : f[x] # g[x]}
<1>1. SUFFICES ASSUME Bad # {} PROVE FALSE
  OBVIOUS
<1>2. Bad \in SUBSET D /\ f \in [D -> X] /\ g \in [D -> X]
  BY DEF SolvesOn
<1>3. PICK x \in Bad : below[x] \cap Bad = {}
  <2> HIDE DEF Bad
  <2> QED BY <1>1, <1>2 DEF Founded
<1>4. x \in B /\ x \in C /\ x \in D /\ f[x] # g[x]
  BY <1>2
<1>5. /\ below[x] \subseteq B /\ below[x] \subseteq C
      /\ f[x] = step[x][f] /\ g[x] = step[x][g]
  BY <1>4 DEF SolvesOn
<1>6. \A y \in below[x] : f[y] = g[y]
  BY <1>3, <1>5
<1>7. step[x][f] = step[x][g]
  BY ONLY <1>2, <1>4, <1>6, Founded(D, X, below, step) DEF Founded
<1> QED BY <1>4, <1>5, <1>7

\* A recursion has a solution on all.
LEMMA SolvesAll ==
  ASSUME NEW D, NEW X, NEW e \in X, NEW below, NEW step \in [D -> [[D -> X] -> X]],
         Founded(D, X, below, step)
  PROVE  \E f : SolvesOn(D, f, D, X, below, step)
<1> DEFINE Ok(C, f) == SolvesOn(C, f, D, X, below, step)
           Cov == {z \in D : \E C, f : Ok(C, f) /\ z \in C}
           h == [z \in D |-> IF z \in Cov THEN CHOOSE v : \E C, f : Ok(C, f) /\ z \in C /\ v = f[z]
                                          ELSE e]
<1>1. ASSUME NEW C, NEW f, Ok(C, f), NEW z \in C
      PROVE  z \in D /\ z \in Cov /\ f[z] = h[z] /\ f[z] \in X
  <2>1. z \in D /\ z \in Cov /\ f[z] \in X
    BY <1>1 DEF SolvesOn
  <2>2. PICK v : v = CHOOSE u : \E B, g : Ok(B, g) /\ z \in B /\ u = g[z]
    OBVIOUS
  <2>3. \E u : \E B, g : Ok(B, g) /\ z \in B /\ u = g[z]
    BY <1>1
  <2>4. PICK B, g : Ok(B, g) /\ z \in B /\ v = g[z]
    BY ONLY <2>2, <2>3
  <2>5. \A y \in B \cap C : g[y] = f[y]
    BY ONLY <1>1, <2>4, SolvesAlike, Founded(D, X, below, step) DEF Ok
  <2>6. h[z] = v
    BY ONLY <2>1, <2>2
  <2> QED BY <2>1, <2>4, <2>5, <2>6
<1>2. h \in [D -> X]
  <2>1. \A z \in Cov : h[z] \in X
    BY <1>1
  <2>2. \A z \in D : z \notin Cov => h[z] = e
    OBVIOUS
  <2>3. h = [z \in D |-> h[z]]
    OBVIOUS
  <2> HIDE DEF h, Cov
  <2> QED BY ONLY <2>1, <2>2, <2>3, e \in X
<1>3. ASSUME NEW z \in Cov PROVE below[z] \subseteq Cov /\ h[z] = step[z][h]
  <2>1. PICK C, f : Ok(C, f) /\ z \in C
    OBVIOUS
  <2>2. below[z] \subseteq C /\ f[z] = step[z][f] /\ f \in [D -> X] /\ z \in D
    BY <2>1 DEF SolvesOn
  <2>3. \A y \in C : y \in Cov /\ f[y] = h[y]
    <3> HIDE DEF h, Cov, Ok
    <3> QED BY ONLY <1>1, <2>1
  <2> HIDE DEF h, Cov, Ok
  <2>4. \A y \in below[z] : f[y] = h[y]
    BY <2>2, <2>3
  <2>5. step[z][f] = step[z][h]
    <3>1. SameStep(step, z, f, h)
      BY ONLY <1>2, <2>2, <2>4, FoundedSame, Founded(D, X, below, step)
    <3> QED BY ONLY <3>1 DEF SameStep
  <2> QED BY <2>1, <2>2, <2>3, <2>5
<1>4. Cov = D
  <2>1. SUFFICES ASSUME D \ Cov # {} PROVE FALSE
    OBVIOUS
  <2>2. PICK x \in D \ Cov : below[x] \cap (D \ Cov) = {}
    <3>1. D \ Cov \in SUBSET D
      OBVIOUS
    <3> QED BY ONLY <2>1, <3>1, Founded(D, X, below, step) DEF Founded
  <2> DEFINE g == [h EXCEPT ![x] = step[x][h]]
             C == Cov \cup {x}
  <2>3. below[x] \subseteq Cov /\ x \notin Cov /\ x \in D /\ step[x][h] \in X
    <3> HIDE DEF h
    <3> QED BY <1>2, <2>2 DEF Founded
  <2>4. g \in [D -> X] /\ g[x] = step[x][h] /\ \A y \in Cov : g[y] = h[y]
    <3> HIDE DEF h
    <3> QED BY <1>2, <2>3
  <2>5. ASSUME NEW z \in C PROVE below[z] \subseteq C /\ g[z] = step[z][g]
    <3>1. below[z] \subseteq Cov
      BY <1>3, <2>3
    <3>2. g[z] = step[z][h]
      BY <1>3, <2>4
    <3>3. \A y \in below[z] : h[y] = g[y]
      BY <2>4, <3>1
    <3>4. z \in D
      BY <2>3
    <3> HIDE DEF h, Cov, g, C
    <3>5. step[z][h] = step[z][g]
      <4>1. SameStep(step, z, h, g)
        BY ONLY <1>2, <2>4, <3>3, <3>4, FoundedSame, Founded(D, X, below, step)
      <4> QED BY ONLY <4>1 DEF SameStep
    <3>6. C = Cov \cup {x}
      BY DEF C
    <3> QED BY ONLY <3>1, <3>2, <3>5, <3>6
  <2>6. C \in SUBSET D /\ x \in C
    BY <2>3
  <2> HIDE DEF g, C, h
  <2>7. SolvesOn(C, g, D, X, below, step)
    BY <2>4, <2>5, <2>6 DEF SolvesOn
  <2> QED BY <2>2, <2>6, <2>7
<1> HIDE DEF h, Cov
<1>5. SolvesOn(D, h, D, X, below, step)
  BY <1>2, <1>3, <1>4 DEF SolvesOn
<1> QED BY <1>5

-----------------------------------------------------------------------------
(* The nodes below a node, and the tree in order.                          *)

Forest(K) == K \in [Nodes -> Rows] /\ Tree!IsForest(K)

\* The children of each node.
Kids(K) == [x \in Nodes |-> Tree!Elems(K[x])]

LEMMA KidsTypes ==
  ASSUME NEW K, Forest(K)
  PROVE  /\ Kids(K) \in [Nodes -> SUBSET Nodes]
         /\ \A x \in Nodes : Kids(K)[x] = Tree!Elems(K[x])
         /\ \A S \in SUBSET Nodes : S # {} => \E x \in S : Kids(K)[x] \cap S = {}
<1>1. \A x \in Nodes : K[x] \in Rows
  BY DEF Forest
<1>2. Kids(K) \in [Nodes -> SUBSET Nodes] /\ \A x \in Nodes : Kids(K)[x] = Tree!Elems(K[x])
  BY <1>1, RowTypes DEF Kids
<1>3. \A S \in SUBSET Nodes : S # {} => \E x \in S : Tree!Elems(K[x]) \cap S = {}
  BY DEF Forest, Tree!IsForest
<1> QED BY ONLY <1>2, <1>3

\* Preorder for any children.
PreOf(K) ==
  LET from[m \in Nodes] == <<m>> \o Tree!Spread(K[m], from)
  IN from

LEMMA PreorderIs ==
  ASSUME NEW n
  PROVE  Tree!Preorder(n) = PreOf(mTreeNodes)[n]
BY DEF Tree!Preorder, PreOf

LEMMA PreIs ==
  ASSUME NEW K, Forest(K)
  PROVE  /\ PreOf(K) \in [Nodes -> Rows]
         /\ \A x \in Nodes : PreOf(K)[x] = Join(One(x), Tree!Spread(K[x], PreOf(K)))
<1> DEFINE X == Rows
           step == [x \in Nodes |-> [f \in [Nodes -> X] |-> Join(One(x), Tree!Spread(K[x], f))]]
<1>0. \A x \in Nodes : K[x] \in Rows
  BY DEF Forest
<1>1. /\ None \in X /\ Kids(K) \in [Nodes -> SUBSET Nodes]
      /\ \A S \in SUBSET Nodes : S # {} => \E x \in S : Kids(K)[x] \cap S = {}
  BY RowTypes, KidsTypes
<1>2. ASSUME NEW x \in Nodes, NEW f \in [Nodes -> Rows]
      PROVE  step[x][f] = Join(One(x), Tree!Spread(K[x], f)) /\ step[x][f] \in X
  <2>1. step[x][f] = Join(One(x), Tree!Spread(K[x], f))
    OBVIOUS
  <2>2. K[x] \in Rows /\ One(x) \in Rows
    BY <1>0, RowTypes
  <2>3. Tree!Spread(K[x], f) \in Rows
    BY ONLY <2>2, SpreadTypes, f \in [Nodes -> Rows]
  <2>4. Join(One(x), Tree!Spread(K[x], f)) \in Rows
    BY ONLY <2>2, <2>3, JoinTypes
  <2> QED BY <2>1, <2>4
<1>3. step \in [Nodes -> [[Nodes -> X] -> X]]
  <2> DEFINE val(x, f) == Join(One(x), Tree!Spread(K[x], f))
  <2>1. \A x \in Nodes : \A f \in [Nodes -> X] : val(x, f) \in X
    BY <1>2
  <2>2. step = [x \in Nodes |-> [f \in [Nodes -> X] |-> val(x, f)]]
    OBVIOUS
  <2> HIDE DEF val, step, X
  <2> QED BY ONLY <2>1, <2>2
<1>4. ASSUME NEW x \in Nodes, NEW f \in [Nodes -> X], NEW g \in [Nodes -> X],
             \A y \in Kids(K)[x] : f[y] = g[y]
      PROVE  step[x][f] = step[x][g]
  <2>1. \A y \in Tree!Elems(K[x]) : f[y] = g[y]
    BY <1>4, KidsTypes
  <2>2. Tree!Spread(K[x], f) = Tree!Spread(K[x], g)
    BY ONLY <2>1, SpreadSame
  <2> QED BY <1>2, <2>2
<1> HIDE DEF step, X
<1>5. PICK f : SolvesOn(Nodes, f, Nodes, X, Kids(K), step)
  <2>1. Founded(Nodes, X, Kids(K), step)
    BY ONLY <1>1, <1>4 DEF Founded
  <2> QED BY ONLY <1>1, <1>3, <2>1, SolvesAll
<1>6. f \in [Nodes -> Rows] /\ \A x \in Nodes : f[x] = step[x][f]
  BY <1>5 DEF SolvesOn, X
<1>7. f = [m \in Nodes |-> <<m>> \o Tree!Spread(K[m], f)]
  <2>1. \A x \in Nodes : f[x] = Join(One(x), Tree!Spread(K[x], f))
    BY ONLY <1>2, <1>6
  <2>2. \A m \in Nodes : f[m] = <<m>> \o Tree!Spread(K[m], f)
    BY ONLY <2>1 DEF Join, One
  <2> QED BY ONLY <1>6, <2>2
<1>8. PICK h : h = CHOOSE from : from = [m \in Nodes |-> <<m>> \o Tree!Spread(K[m], from)]
  OBVIOUS
<1>9. h = [m \in Nodes |-> <<m>> \o Tree!Spread(K[m], h)]
  BY ONLY <1>7, <1>8
<1>10. \A m \in Nodes : h[m] = Join(One(m), Tree!Spread(K[m], h))
  BY ONLY <1>9 DEF Join, One
<1>11. \A m \in Nodes : h[m] = f[m]
  <2> DEFINE Bad == {m \in Nodes : h[m] # f[m]}
  <2>1. SUFFICES ASSUME Bad # {} PROVE FALSE
    OBVIOUS
  <2>2. Bad \in SUBSET Nodes
    OBVIOUS
  <2>3. PICK m \in Bad : Kids(K)[m] \cap Bad = {}
    <3> HIDE DEF Bad
    <3> QED BY ONLY <1>1, <2>1, <2>2
  <2>4. m \in Nodes /\ h[m] # f[m]
    OBVIOUS
  <2>5. \A y \in Tree!Elems(K[m]) : h[y] = f[y]
    BY <1>1, <2>3, KidsTypes
  <2>6. Tree!Spread(K[m], h) = Tree!Spread(K[m], f)
    BY ONLY <2>5, SpreadSame
  <2>7. f[m] = Join(One(m), Tree!Spread(K[m], f))
    BY ONLY <1>2, <1>6, <2>4
  <2> QED BY <1>10, <2>4, <2>6, <2>7
<1>12. h \in [Nodes -> Rows]
  BY ONLY <1>6, <1>9, <1>11
<1>13. PreOf(K) = h
  BY ONLY <1>8 DEF PreOf
<1> QED BY ONLY <1>10, <1>12, <1>13

\* The nodes of the subtree of each node.
SubOf(K) == [x \in Nodes |-> Tree!Elems(PreOf(K)[x])]

LEMMA SubtreeIs ==
  ASSUME Forest(mTreeNodes), NEW n \in Nodes
  PROVE  Tree!Subtree(n) = SubOf(mTreeNodes)[n]
<1>1. Tree!Preorder(n) = PreOf(mTreeNodes)[n]
  BY PreorderIs
<1> QED BY <1>1 DEF Tree!Subtree, SubOf

LEMMA SubIs ==
  ASSUME NEW K, Forest(K)
  PROVE  /\ SubOf(K) \in [Nodes -> SUBSET Nodes]
         /\ \A x \in Nodes : SubOf(K)[x] = Tree!Elems(PreOf(K)[x])
         /\ \A x, y \in Nodes : y \in SubOf(K)[x] <=>
              y = x \/ \E c \in Tree!Elems(K[x]) : y \in SubOf(K)[c]
         /\ \A x \in Nodes : Tree!Elems(K[x]) \subseteq Nodes
<1>1. PICK P \in [Nodes -> Rows] : P = PreOf(K)
  BY PreIs
<1>2. \A x \in Nodes : P[x] = Join(One(x), Tree!Spread(K[x], P))
  BY <1>1, PreIs
<1>3. \A x \in Nodes : K[x] \in Rows
  BY DEF Forest
<1>4. \A x \in Nodes : Tree!Elems(K[x]) \subseteq Nodes /\ Tree!Elems(P[x]) \subseteq Nodes
  BY <1>3, RowTypes
<1>5. /\ SubOf(K) \in [Nodes -> SUBSET Nodes]
      /\ \A x \in Nodes : SubOf(K)[x] = Tree!Elems(P[x])
  BY ONLY <1>1, <1>4 DEF SubOf
<1>6. ASSUME NEW x \in Nodes, NEW y \in Nodes
      PROVE  y \in SubOf(K)[x] <=> y = x \/ \E c \in Tree!Elems(K[x]) : y \in SubOf(K)[c]
  <2>1. One(x) \in Rows /\ Tree!Elems(One(x)) = {x} /\ Tree!Spread(K[x], P) \in Rows /\ K[x] \in Rows
    BY <1>3, RowTypes, SpreadTypes
  <2>2. Tree!Elems(P[x]) = {x} \cup Tree!Elems(Tree!Spread(K[x], P))
    BY ONLY <1>2, <2>1, JoinElems, x \in Nodes
  <2>3. y \in Tree!Elems(Tree!Spread(K[x], P)) <=> \E c \in Tree!Elems(K[x]) : y \in Tree!Elems(P[c])
    BY ONLY <2>1, SpreadElems, P \in [Nodes -> Rows]
  <2>4. \A c \in Tree!Elems(K[x]) : SubOf(K)[c] = Tree!Elems(P[c])
    BY <1>4, <1>5
  <2> QED BY ONLY <1>5, <2>2, <2>3, <2>4, x \in Nodes
<1> QED BY ONLY <1>1, <1>4, <1>5, <1>6

\* A set of nodes that has their children holds the subtrees of its members.
LEMMA SubLeast ==
  ASSUME NEW K, Forest(K), NEW C \in SUBSET Nodes, \A z \in C : Tree!Elems(K[z]) \subseteq C
  PROVE  \A x \in C : SubOf(K)[x] \subseteq C
<1> DEFINE Bad == {x \in C : ~(SubOf(K)[x] \subseteq C)}
<1>1. SUFFICES ASSUME Bad # {} PROVE FALSE
  OBVIOUS
<1>2. PICK x \in Bad : Kids(K)[x] \cap Bad = {}
  <2>1. Bad \in SUBSET Nodes
    OBVIOUS
  <2> HIDE DEF Bad
  <2> QED BY <1>1, <2>1, KidsTypes
<1>3. x \in C /\ x \in Nodes
  OBVIOUS
<1>4. \A c \in Tree!Elems(K[x]) : SubOf(K)[c] \subseteq C
  BY <1>2, <1>3, KidsTypes
<1>5. SubOf(K)[x] \subseteq Nodes
  BY <1>3, SubIs
<1>6. \A y \in Nodes : y \in SubOf(K)[x] => y = x \/ \E c \in Tree!Elems(K[x]) : y \in SubOf(K)[c]
  BY <1>3, SubIs
<1>7. SubOf(K)[x] \subseteq C
  BY ONLY <1>3, <1>4, <1>5, <1>6
<1> QED BY <1>7

\* A subtree has the children of its nodes, and so their subtrees.
LEMMA SubHas ==
  ASSUME NEW K, Forest(K)
  PROVE  \A x \in Nodes : /\ x \in SubOf(K)[x]
                          /\ \A y \in SubOf(K)[x] : /\ y \in Nodes
                                                    /\ Tree!Elems(K[y]) \subseteq SubOf(K)[x]
                                                    /\ SubOf(K)[y] \subseteq SubOf(K)[x]
<1>0. PICK Sub \in [Nodes -> SUBSET Nodes] : Sub = SubOf(K)
  BY SubIs
<1>1. /\ \A x, y \in Nodes : y \in Sub[x] <=> y = x \/ \E c \in Tree!Elems(K[x]) : y \in Sub[c]
      /\ \A x \in Nodes : Tree!Elems(K[x]) \subseteq Nodes
  BY <1>0, SubIs
<1> DEFINE Bad == {x \in Nodes : \E y \in Sub[x] : ~(Tree!Elems(K[y]) \subseteq Sub[x])}
<1>2. Bad = {}
  <2>1. SUFFICES ASSUME Bad # {} PROVE FALSE
    OBVIOUS
  <2>2. PICK x \in Bad : Kids(K)[x] \cap Bad = {}
    <3>1. Bad \in SUBSET Nodes
      OBVIOUS
    <3> HIDE DEF Bad
    <3> QED BY <2>1, <3>1, KidsTypes
  <2>3. x \in Nodes
    OBVIOUS
  <2>4. PICK y \in Sub[x] : \E z \in Tree!Elems(K[y]) : z \notin Sub[x]
    BY <2>3
  <2>4a. PICK z \in Tree!Elems(K[y]) : z \notin Sub[x]
    BY <2>4
  <2>5. y \in Nodes /\ z \in Nodes
    BY <1>1, <2>3
  <2>6. CASE y = x
    <3>1. z \in Sub[z]
      BY <1>1, <2>5
    <3> QED BY <1>1, <2>3, <2>4a, <2>5, <2>6, <3>1
  <2>7. CASE y # x
    <3>1. PICK c \in Tree!Elems(K[x]) : y \in Sub[c]
      BY <1>1, <2>3, <2>5, <2>7
    <3>2. c \notin Bad /\ c \in Nodes
      BY <1>1, <2>2, <2>3, KidsTypes
    <3>3. z \in Sub[c]
      BY <2>4a, <3>1, <3>2
    <3> QED BY <1>1, <2>3, <2>4a, <2>5, <3>1, <3>3
  <2> QED BY <2>6, <2>7
<1>3. ASSUME NEW x \in Nodes, NEW y \in Sub[x]
      PROVE  y \in Nodes /\ Tree!Elems(K[y]) \subseteq Sub[x] /\ Sub[y] \subseteq Sub[x]
  <2>1. \A z \in Sub[x] : Tree!Elems(K[z]) \subseteq Sub[x]
    BY <1>2
  <2>2. Sub[x] \in SUBSET Nodes
    OBVIOUS
  <2>3. \A z \in Sub[x] : SubOf(K)[z] \subseteq Sub[x]
    BY ONLY <2>1, <2>2, SubLeast, Forest(K)
  <2> QED BY ONLY <1>0, <2>1, <2>2, <2>3, y \in Sub[x]
<1>4. \A x \in Nodes : x \in Sub[x]
  BY <1>1
<1> QED BY ONLY <1>0, <1>3, <1>4

\* No node is below itself.
LEMMA SubOnce ==
  ASSUME NEW K, Forest(K), NEW x \in Nodes, NEW c \in Tree!Elems(K[x])
  PROVE  x \notin SubOf(K)[c] /\ c # x
<1>0. PICK Sub \in [Nodes -> SUBSET Nodes] : Sub = SubOf(K)
  BY SubIs
<1>1. /\ \A z, y \in Nodes : y \in Sub[z] <=> y = z \/ \E d \in Tree!Elems(K[z]) : y \in Sub[d]
      /\ \A z \in Nodes : Tree!Elems(K[z]) \subseteq Nodes
  BY <1>0, SubIs
<1>2. \A z \in Nodes : z \in Sub[z] /\ \A y \in Sub[z] : Tree!Elems(K[y]) \subseteq Sub[z]
  BY <1>0, SubHas
<1>3. c \in Nodes
  BY <1>1
<1>4. x \notin Sub[c]
  <2>1. SUFFICES ASSUME x \in Sub[c] PROVE FALSE
    OBVIOUS
  <2> DEFINE Ring == {z \in Sub[x] : x \in Sub[z]}
  <2>2. x \in Ring /\ Ring \in SUBSET Nodes
    BY <1>2
  <2>3. PICK z \in Ring : Kids(K)[z] \cap Ring = {}
    <3> HIDE DEF Ring
    <3> QED BY <2>2, KidsTypes
  <2>4. z \in Nodes /\ z \in Sub[x] /\ x \in Sub[z]
    OBVIOUS
  <2>5. \A d \in Tree!Elems(K[z]) : d \in Nodes /\ d \in Sub[x] /\ x \notin Sub[d]
    BY <1>1, <1>2, <2>3, <2>4, KidsTypes
  <2>6. x = z
    BY <1>1, <2>4, <2>5
  <2> QED BY <2>1, <2>5, <2>6
<1>5. c # x
  BY <1>2, <1>3, <1>4
<1> QED BY <1>0, <1>4, <1>5

\* Each node of a subtree but the first has its parent there, and no other.
LEMMA SubParent ==
  ASSUME NEW K, Forest(K), NEW x \in Nodes
  PROVE  /\ \A y \in SubOf(K)[x] : y # x => \E q \in SubOf(K)[x] : y \in Tree!Elems(K[q])
         /\ \A y \in SubOf(K)[x] : y # x => \A q \in Nodes : y \in Tree!Elems(K[q]) => q \in SubOf(K)[x]
<1>0. PICK Sub \in [Nodes -> SUBSET Nodes] : Sub = SubOf(K)
  BY SubIs
<1>1. x \in Sub[x] /\ \A y \in Sub[x] : Tree!Elems(K[y]) \subseteq Sub[x]
  BY <1>0, SubHas
<1> DEFINE C == {y \in Sub[x] : y = x \/ \E q \in Sub[x] : y \in Tree!Elems(K[q])}
<1>2. x \in C /\ C \in SUBSET Nodes /\ \A y \in C : Tree!Elems(K[y]) \subseteq C
  BY <1>1
<1>3. SubOf(K)[x] \subseteq C
  <2> HIDE DEF C
  <2> QED BY ONLY <1>2, SubLeast, Forest(K)
<1>4. \A y \in Sub[x] : y # x => \E q \in Sub[x] : y \in Tree!Elems(K[q])
  BY ONLY <1>0, <1>3
<1>5. \A p, q \in Nodes : p # q => Tree!Elems(K[p]) \cap Tree!Elems(K[q]) = {}
  BY DEF Forest, Tree!IsForest
<1>6. ASSUME NEW y \in Sub[x], y # x, NEW q \in Nodes, y \in Tree!Elems(K[q]) PROVE q \in Sub[x]
  <2>1. PICK p \in Sub[x] : y \in Tree!Elems(K[p])
    BY <1>4, <1>6
  <2>2. p = q
    BY <1>5, <1>6, <2>1
  <2> QED BY <2>1, <2>2
<1> QED BY ONLY <1>0, <1>4, <1>6

\* The subtrees of two children share no node.
LEMMA SubApart ==
  ASSUME NEW K, Forest(K), NEW x \in Nodes,
         NEW c \in Tree!Elems(K[x]), NEW d \in Tree!Elems(K[x]), c # d
  PROVE  SubOf(K)[c] \cap SubOf(K)[d] = {}
<1>0. PICK Sub \in [Nodes -> SUBSET Nodes] : Sub = SubOf(K)
  BY SubIs
<1>1. c \in Nodes /\ d \in Nodes /\ x \notin Sub[c] /\ x \notin Sub[d]
  BY <1>0, SubIs, SubOnce
<1>2. c \in Sub[c] /\ \A z \in Sub[c] : z \in Nodes /\ Tree!Elems(K[z]) \subseteq Sub[c]
  BY <1>0, <1>1, SubHas
<1>3. \A y \in Sub[d] : y # d => \A q \in Nodes : y \in Tree!Elems(K[q]) => q \in Sub[d]
  BY <1>0, <1>1, SubParent
<1>4. \A p, q \in Nodes : p # q => Tree!Elems(K[p]) \cap Tree!Elems(K[q]) = {}
  BY DEF Forest, Tree!IsForest
<1> DEFINE C == {z \in Sub[c] : z \notin Sub[d]}
<1>5. c \in C
  BY <1>1, <1>2, <1>3
<1>6. ASSUME NEW z \in C, NEW y \in Tree!Elems(K[z]) PROVE y \in C
  <2>1. z \in Nodes /\ z \in Sub[c] /\ z \notin Sub[d] /\ y \in Sub[c]
    BY <1>2
  <2>2. z # x
    BY <1>1, <2>1
  <2>3. y # d
    BY <1>4, <2>1, <2>2
  <2>4. y \notin Sub[d]
    BY <1>3, <2>1, <2>3
  <2> QED BY <2>1, <2>4
<1>7. SubOf(K)[c] \subseteq C
  <2>1. C \in SUBSET Nodes /\ \A z \in C : Tree!Elems(K[z]) \subseteq C
    BY <1>1, <1>6
  <2> HIDE DEF C
  <2> QED BY ONLY <1>5, <2>1, SubLeast, Forest(K)
<1> QED BY <1>0, <1>7

\* No element twice in the sequences for s, one behind the other.
SpreadsApart(s, f) ==
  /\ Apart(s)
  /\ \A x \in Tree!Elems(s) : Apart(f[x])
  /\ \A x, y \in Tree!Elems(s) : x # y => Tree!Elems(f[x]) \cap Tree!Elems(f[y]) = {}

LEMMA SpreadApart ==
  \A s \in Rows, f \in [Nodes -> Rows] : SpreadsApart(s, f) => Apart(Tree!Spread(s, f))
<1> SUFFICES ASSUME NEW f \in [Nodes -> Rows]
             PROVE  \A s \in Rows : SpreadsApart(s, f) => Apart(Tree!Spread(s, f))
  OBVIOUS
<1> DEFINE G == {u \in Rows : SpreadsApart(u, f) => Apart(Tree!Spread(u, f))}
<1>1. None \in G
  BY SpreadNone, RowTypes
<1>2. ASSUME NEW u \in Rows, NEW x \in Nodes, u \in G PROVE Join(u, One(x)) \in G
  <2>1. One(x) \in Rows /\ Tree!Elems(One(x)) = {x} /\ f[x] \in Rows /\ Apart(One(x))
    BY RowTypes
  <2>2. Tree!Elems(Join(u, One(x))) = Tree!Elems(u) \cup {x} /\ Join(u, One(x)) \in Rows
    BY ONLY <2>1, JoinElems, JoinTypes, u \in Rows
  <2>3. SUFFICES ASSUME SpreadsApart(Join(u, One(x)), f) PROVE Apart(Tree!Spread(Join(u, One(x)), f))
    BY <2>2
  <2>4. Apart(u) /\ x \notin Tree!Elems(u)
    <3>1. Apart(Join(u, One(x)))
      BY ONLY <2>3 DEF SpreadsApart
    <3> QED BY ONLY <2>1, <3>1, JoinApart, u \in Rows
  <2>5. SpreadsApart(u, f) /\ Apart(f[x])
    BY ONLY <2>2, <2>3, <2>4 DEF SpreadsApart
  <2>6. PICK q \in Rows : q = Tree!Spread(u, f)
    BY SpreadTypes
  <2>7. Apart(q)
    BY <1>2, <2>5, <2>6
  <2>8. Tree!Spread(Join(u, One(x)), f) = Join(q, f[x])
    BY <2>6, SpreadMore
  <2>9. \A y : y \in Tree!Elems(q) <=> \E z \in Tree!Elems(u) : y \in Tree!Elems(f[z])
    BY ONLY <2>6, SpreadElems, u \in Rows, f \in [Nodes -> Rows]
  <2>10. \A z \in Tree!Elems(u) : Tree!Elems(f[z]) \cap Tree!Elems(f[x]) = {}
    BY ONLY <2>2, <2>3, <2>4 DEF SpreadsApart
  <2>11. Tree!Elems(q) \cap Tree!Elems(f[x]) = {}
    BY ONLY <2>9, <2>10
  <2> QED BY ONLY <2>1, <2>5, <2>7, <2>8, <2>11, JoinApart, q \in Rows
<1>3. \A s \in Rows : s \in G
  <2> HIDE DEF G
  <2> QED BY ONLY <1>1, <1>2, RowsGrow
<1> QED BY <1>3

\* No child twice.
LEMMA KidsApart ==
  ASSUME NEW K, Forest(K)
  PROVE  \A x \in Nodes : K[x] \in Rows /\ Apart(K[x])
BY DEF Forest, Tree!IsForest, Apart

\* No node twice in the tree in order.
LEMMA PreApart ==
  ASSUME NEW K, Forest(K)
  PROVE  \A x \in Nodes : Apart(PreOf(K)[x])
<1>0. PICK P \in [Nodes -> Rows] : P = PreOf(K)
  BY PreIs
<1> DEFINE Bad == {x \in Nodes : ~Apart(P[x])}
<1>1. SUFFICES ASSUME Bad # {} PROVE FALSE
  BY <1>0
<1>2. PICK x \in Bad : Kids(K)[x] \cap Bad = {}
  <2>1. Bad \in SUBSET Nodes
    OBVIOUS
  <2> HIDE DEF Bad
  <2> QED BY <1>1, <2>1, KidsTypes
<1>3. x \in Nodes /\ ~Apart(P[x])
  OBVIOUS
<1>4. \A c \in Tree!Elems(K[x]) : c \in Nodes /\ Apart(P[c]) /\ SubOf(K)[c] = Tree!Elems(P[c])
  BY <1>0, <1>2, <1>3, KidsTypes, SubIs
<1>5. \A c, d \in Tree!Elems(K[x]) : c # d => SubOf(K)[c] \cap SubOf(K)[d] = {}
  BY ONLY <1>3, SubApart, Forest(K)
<1>6. SpreadsApart(K[x], P)
  <2>1. Apart(K[x])
    BY <1>3, KidsApart
  <2> QED BY ONLY <1>4, <1>5, <2>1 DEF SpreadsApart
<1>7. PICK q \in Rows : q = Tree!Spread(K[x], P)
  BY <1>3, KidsApart, SpreadTypes
<1>8. Apart(q)
  BY <1>3, <1>6, <1>7, SpreadApart, KidsApart
<1>9. \A y : y \in Tree!Elems(q) <=> \E c \in Tree!Elems(K[x]) : y \in Tree!Elems(P[c])
  BY <1>3, <1>7, SpreadElems, KidsApart
<1>10. x \notin Tree!Elems(q)
  <2>1. \A c \in Tree!Elems(K[x]) : x \notin SubOf(K)[c]
    BY ONLY <1>3, SubOnce, Forest(K)
  <2> QED BY ONLY <1>4, <1>9, <2>1
<1>11. One(x) \in Rows /\ Tree!Elems(One(x)) = {x} /\ Apart(One(x))
  BY <1>3, RowTypes
<1>12. P[x] = Join(One(x), q)
  BY <1>0, <1>3, <1>7, PreIs
<1>13. Apart(P[x])
  BY ONLY <1>8, <1>10, <1>11, <1>12, JoinApart, q \in Rows
<1> QED BY <1>3, <1>13

\* The order of a subtree is that of the children in it.
LEMMA PreSame ==
  ASSUME NEW K, Forest(K), NEW L, Forest(L)
  PROVE  \A x \in Nodes : (\A y \in SubOf(K)[x] : L[y] = K[y]) => PreOf(L)[x] = PreOf(K)[x]
<1>0. PICK P \in [Nodes -> Rows] : P = PreOf(K)
  BY PreIs
<1>1. PICK Q \in [Nodes -> Rows] : Q = PreOf(L)
  BY PreIs
<1> DEFINE Bad == {x \in Nodes : (\A y \in SubOf(K)[x] : L[y] = K[y]) /\ Q[x] # P[x]}
<1>2. SUFFICES ASSUME Bad # {} PROVE FALSE
  BY <1>0, <1>1
<1>3. PICK x \in Bad : Kids(K)[x] \cap Bad = {}
  <2>1. Bad \in SUBSET Nodes
    OBVIOUS
  <2> HIDE DEF Bad
  <2> QED BY <1>2, <2>1, KidsTypes
<1>4. x \in Nodes /\ (\A y \in SubOf(K)[x] : L[y] = K[y]) /\ Q[x] # P[x]
  OBVIOUS
<1>5. x \in SubOf(K)[x] /\ \A c \in Tree!Elems(K[x]) : c \in Nodes /\ SubOf(K)[c] \subseteq SubOf(K)[x]
  <2>1. x \in SubOf(K)[x] /\ Tree!Elems(K[x]) \subseteq SubOf(K)[x]
    BY <1>4, SubHas
  <2>2. \A c \in SubOf(K)[x] : c \in Nodes /\ SubOf(K)[c] \subseteq SubOf(K)[x]
    BY <1>4, SubHas
  <2> QED BY ONLY <2>1, <2>2
<1>6. \A c \in Tree!Elems(K[x]) : Q[c] = P[c]
  BY <1>3, <1>4, <1>5, KidsTypes
<1>7. Tree!Spread(K[x], Q) = Tree!Spread(K[x], P)
  BY ONLY <1>6, SpreadSame
<1>8. /\ P[x] = Join(One(x), Tree!Spread(K[x], P))
      /\ Q[x] = Join(One(x), Tree!Spread(L[x], Q))
  BY <1>0, <1>1, <1>4, PreIs
<1> QED BY ONLY <1>4, <1>5, <1>7, <1>8

\* s and t differ where s has the subtree of p by K, and t that by L.
Segment(K, L, p, s, t) ==
  \E u, v \in Rows : s = Join(u, Join(PreOf(K)[p], v)) /\ t = Join(u, Join(PreOf(L)[p], v))

\* One child has p below it: so it is for the children together.
LEMMA SegmentRow ==
  ASSUME NEW K, Forest(K), NEW L, Forest(L), NEW p \in Nodes, NEW R \in Rows, Apart(R),
         \A c, d \in Tree!Elems(R) : c # d => SubOf(K)[c] \cap SubOf(K)[d] = {},
         \A c \in Tree!Elems(R) : \A y \in SubOf(K)[c] : y \notin SubOf(K)[p] => L[y] = K[y],
         NEW c \in Tree!Elems(R), p \in SubOf(K)[c], Segment(K, L, p, PreOf(K)[c], PreOf(L)[c])
  PROVE  Segment(K, L, p, Tree!Spread(R, PreOf(K)), Tree!Spread(R, PreOf(L)))
<1>0. PICK P \in [Nodes -> Rows] : P = PreOf(K)
  BY PreIs
<1>1. PICK Q \in [Nodes -> Rows] : Q = PreOf(L)
  BY PreIs
<1>2. c \in Nodes
  BY RowTypes
<1>3. PICK a, b : Around(R, a, c, b)
  BY <1>2, Splits
<1>4. a \in Rows /\ b \in Rows /\ R = Join(a, Join(One(c), b))
  BY <1>3 DEF Around
<1>5. /\ c \notin Tree!Elems(a) /\ c \notin Tree!Elems(b)
      /\ Tree!Elems(R) = Tree!Elems(a) \cup {c} \cup Tree!Elems(b)
  BY <1>2, <1>3, WithoutMiddle
<1>6. SubOf(K)[p] \subseteq SubOf(K)[c]
  BY <1>2, SubHas
<1>7. ASSUME NEW d \in Tree!Elems(R), d # c PROVE P[d] = Q[d]
  <2>1. SubOf(K)[c] \cap SubOf(K)[d] = {} /\ d \in Nodes
    BY <1>7, RowTypes
  <2>2. \A y \in SubOf(K)[d] : L[y] = K[y]
    BY <1>6, <2>1
  <2> QED BY ONLY <1>0, <1>1, <2>1, <2>2, PreSame, Forest(K), Forest(L)
<1>8. Tree!Spread(a, P) = Tree!Spread(a, Q) /\ Tree!Spread(b, P) = Tree!Spread(b, Q)
  BY ONLY <1>5, <1>7, SpreadSame
<1>9. \A f \in [Nodes -> Rows] :
        Tree!Spread(R, f) = Join(Tree!Spread(a, f), Join(f[c], Tree!Spread(b, f)))
  <2> SUFFICES ASSUME NEW f \in [Nodes -> Rows]
               PROVE  Tree!Spread(R, f) = Join(Tree!Spread(a, f), Join(f[c], Tree!Spread(b, f)))
    OBVIOUS
  <2>1. One(c) \in Rows /\ Join(One(c), b) \in Rows
    BY <1>2, <1>4, RowTypes, JoinTypes
  <2>2. Tree!Spread(R, f) = Join(Tree!Spread(a, f), Tree!Spread(Join(One(c), b), f))
    BY ONLY <1>4, <2>1, SpreadJoin, f \in [Nodes -> Rows]
  <2>3. Tree!Spread(Join(One(c), b), f) = Join(Tree!Spread(One(c), f), Tree!Spread(b, f))
    BY ONLY <1>4, <2>1, SpreadJoin, f \in [Nodes -> Rows]
  <2>4. Tree!Spread(One(c), f) = f[c]
    BY ONLY <1>2, SpreadSingle, f \in [Nodes -> Rows]
  <2> QED BY ONLY <2>2, <2>3, <2>4
<1>10. PICK u \in Rows, v \in Rows : P[c] = Join(u, Join(P[p], v)) /\ Q[c] = Join(u, Join(Q[p], v))
  BY <1>0, <1>1 DEF Segment
<1>11. PICK A \in Rows : A = Tree!Spread(a, P)
  BY <1>4, SpreadTypes
<1>12. PICK B \in Rows : B = Tree!Spread(b, P)
  BY <1>4, SpreadTypes
<1>13. Join(A, u) \in Rows /\ Join(v, B) \in Rows
  BY ONLY JoinTypes, A \in Rows, B \in Rows, u \in Rows, v \in Rows
<1>14. ASSUME NEW w \in Rows
       PROVE  Join(A, Join(Join(u, Join(w, v)), B)) = Join(Join(A, u), Join(w, Join(v, B)))
  <2>1. Join(w, v) \in Rows /\ Join(w, Join(v, B)) \in Rows
    BY ONLY <1>13, JoinTypes, w \in Rows, v \in Rows
  <2>2. Join(Join(u, Join(w, v)), B) = Join(u, Join(Join(w, v), B))
    BY ONLY <2>1, JoinJoin, u \in Rows, B \in Rows
  <2>3. Join(Join(w, v), B) = Join(w, Join(v, B))
    BY ONLY JoinJoin, w \in Rows, v \in Rows, B \in Rows
  <2>4. Join(A, Join(u, Join(w, Join(v, B)))) = Join(Join(A, u), Join(w, Join(v, B)))
    BY ONLY <2>1, JoinJoin, A \in Rows, u \in Rows
  <2> QED BY ONLY <2>2, <2>3, <2>4
<1>15. Tree!Spread(R, P) = Join(Join(A, u), Join(P[p], Join(v, B)))
  <2>1. Tree!Spread(R, P) = Join(A, Join(Join(u, Join(P[p], v)), B))
    BY ONLY <1>9, <1>10, <1>11, <1>12, P \in [Nodes -> Rows]
  <2> QED BY ONLY <1>14, <2>1, P \in [Nodes -> Rows], p \in Nodes
<1>16. Tree!Spread(R, Q) = Join(Join(A, u), Join(Q[p], Join(v, B)))
  <2>1. Tree!Spread(R, Q) = Join(A, Join(Join(u, Join(Q[p], v)), B))
    BY ONLY <1>8, <1>9, <1>10, <1>11, <1>12, Q \in [Nodes -> Rows]
  <2> QED BY ONLY <1>14, <2>1, Q \in [Nodes -> Rows], p \in Nodes
<1> QED BY ONLY <1>0, <1>1, <1>13, <1>15, <1>16 DEF Segment

\* Where p is below m, and only nodes below p have other children, only the order
\* of the subtree of p is another.
LEMMA SegmentIn ==
  ASSUME NEW K, Forest(K), NEW L, Forest(L), NEW p \in Nodes
  PROVE  \A m \in Nodes :
           p \in SubOf(K)[m] /\ (\A y \in SubOf(K)[m] : y \notin SubOf(K)[p] => L[y] = K[y])
             => Segment(K, L, p, PreOf(K)[m], PreOf(L)[m])
<1>0. PICK P \in [Nodes -> Rows] : P = PreOf(K)
  BY PreIs
<1>1. PICK Q \in [Nodes -> Rows] : Q = PreOf(L)
  BY PreIs
<1>2. PICK Sub \in [Nodes -> SUBSET Nodes] : Sub = SubOf(K)
  BY SubIs
<1> DEFINE May(m) == p \in Sub[m] /\ (\A y \in Sub[m] : y \notin Sub[p] => L[y] = K[y])
           Bad == {m \in Nodes : May(m) /\ ~Segment(K, L, p, P[m], Q[m])}
<1>3. SUFFICES ASSUME Bad # {} PROVE FALSE
  BY <1>0, <1>1, <1>2
<1>4. PICK m \in Bad : Kids(K)[m] \cap Bad = {}
  <2>1. Bad \in SUBSET Nodes
    OBVIOUS
  <2> HIDE DEF Bad
  <2> QED BY <1>3, <2>1, KidsTypes
<1>5. /\ m \in Nodes /\ p \in Sub[m] /\ (\A y \in Sub[m] : y \notin Sub[p] => L[y] = K[y])
      /\ ~Segment(K, L, p, P[m], Q[m])
  OBVIOUS
<1>6. m # p
  <2>1. SUFFICES ASSUME m = p PROVE FALSE
    OBVIOUS
  <2>2. None \in Rows /\ P[p] \in Rows /\ Q[p] \in Rows
    BY RowTypes
  <2>3. P[p] = Join(None, Join(P[p], None)) /\ Q[p] = Join(None, Join(Q[p], None))
    BY ONLY <2>2, JoinNone
  <2>4. Segment(K, L, p, P[m], Q[m])
    BY ONLY <1>0, <1>1, <2>1, <2>2, <2>3 DEF Segment
  <2> QED BY <1>5, <2>4
<1>7. PICK c \in Tree!Elems(K[m]) : p \in Sub[c]
  BY <1>2, <1>5, <1>6, SubIs
<1>8. \A d \in Tree!Elems(K[m]) : d \in Nodes /\ Sub[d] \subseteq Sub[m] /\ m \notin Sub[d]
  <2>1. Tree!Elems(K[m]) \subseteq Sub[m]
    BY <1>2, <1>5, SubHas
  <2>2. \A d \in Sub[m] : d \in Nodes /\ Sub[d] \subseteq Sub[m]
    BY <1>2, <1>5, SubHas
  <2>3. \A d \in Tree!Elems(K[m]) : m \notin Sub[d]
    BY ONLY <1>2, <1>5, SubOnce, Forest(K)
  <2> QED BY ONLY <2>1, <2>2, <2>3
<1>9. Segment(K, L, p, P[c], Q[c])
  <2>1. May(c) /\ c \in Nodes
    BY <1>5, <1>7, <1>8
  <2>2. c \notin Bad
    BY <1>4, <1>5, <1>7, KidsTypes
  <2> QED BY <2>1, <2>2
<1>10. L[m] = K[m]
  <2>1. m \notin Sub[p] /\ m \in Sub[m]
    <3>1. Sub[p] \subseteq Sub[c]
      BY <1>2, <1>7, <1>8, SubHas
    <3>2. m \in Sub[m]
      BY <1>2, <1>5, SubHas
    <3> QED BY ONLY <1>7, <1>8, <3>1, <3>2
  <2> QED BY ONLY <1>5, <2>1
<1>11. PICK R \in Rows : R = K[m]
  BY <1>5, KidsApart
<1>12. Segment(K, L, p, Tree!Spread(R, P), Tree!Spread(R, Q))
  <2>1. Apart(R)
    BY <1>5, <1>11, KidsApart
  <2>2. \A d, e \in Tree!Elems(R) : d # e => SubOf(K)[d] \cap SubOf(K)[e] = {}
    BY ONLY <1>5, <1>11, SubApart, Forest(K)
  <2>3. \A d \in Tree!Elems(R) : \A y \in SubOf(K)[d] : y \notin SubOf(K)[p] => L[y] = K[y]
    BY ONLY <1>2, <1>5, <1>8, <1>11
  <2>4. c \in Tree!Elems(R) /\ p \in SubOf(K)[c] /\ Segment(K, L, p, PreOf(K)[c], PreOf(L)[c])
    BY ONLY <1>0, <1>1, <1>2, <1>7, <1>9, <1>11
  <2> QED BY ONLY <1>0, <1>1, <2>1, <2>2, <2>3, <2>4, SegmentRow, Forest(K), Forest(L), p \in Nodes, R \in Rows
<1>13. P[m] = Join(One(m), Tree!Spread(R, P)) /\ Q[m] = Join(One(m), Tree!Spread(R, Q))
  BY <1>0, <1>1, <1>5, <1>10, <1>11, PreIs
<1>14. PICK u \in Rows, v \in Rows : /\ Tree!Spread(R, P) = Join(u, Join(P[p], v))
                                     /\ Tree!Spread(R, Q) = Join(u, Join(Q[p], v))
  BY ONLY <1>0, <1>1, <1>12 DEF Segment
<1>15. One(m) \in Rows /\ Join(One(m), u) \in Rows /\ Join(P[p], v) \in Rows /\ Join(Q[p], v) \in Rows
  BY <1>5, RowTypes, JoinTypes
<1>16. /\ P[m] = Join(Join(One(m), u), Join(P[p], v))
       /\ Q[m] = Join(Join(One(m), u), Join(Q[p], v))
  BY ONLY <1>13, <1>14, <1>15, JoinJoin, u \in Rows
<1>17. Segment(K, L, p, P[m], Q[m])
  BY ONLY <1>0, <1>1, <1>15, <1>16, v \in Rows DEF Segment
<1> QED BY <1>5, <1>17

-----------------------------------------------------------------------------
(* Places in a sequence, and what is put there.                            *)

LEMMA RowLen ==
  /\ \A s \in Rows : Len(s) \in Nat /\ (Len(s) = 0 <=> s = None)
  /\ \A x \in Nodes : Len(One(x)) = 1
  /\ \A s, t \in Rows : Len(Join(s, t)) = Len(s) + Len(t)
<1>1. \A s \in Rows : Len(s) \in Nat /\ (Len(s) = 0 <=> s = None)
  BY EmptySeq DEF Rows, None
<1>2. \A x \in Nodes : Len(One(x)) = 1
  BY DEF One
<1>3. ASSUME NEW s \in Rows, NEW t \in Rows PROVE Len(Join(s, t)) = Len(s) + Len(t)
  BY JoinItems
<1> QED BY <1>1, <1>2, <1>3

\* u is s and t, element by element.
JoinedAt(s, t, u) ==
  /\ Len(s) \in Nat /\ Len(t) \in Nat /\ Len(u) = Len(s) + Len(t)
  /\ DOMAIN u = 1..(Len(s) + Len(t))
  /\ \A k \in 1..Len(s) : u[k] = s[k]
  /\ \A k \in 1..Len(t) : u[Len(s) + k] = t[k]

LEMMA JoinAt == \A s, t \in Rows : JoinedAt(s, t, Join(s, t))
<1> SUFFICES ASSUME NEW s \in Rows, NEW t \in Rows PROVE JoinedAt(s, t, Join(s, t))
  OBVIOUS
<1> QED BY JoinItems DEF JoinedAt

\* A sequence parted behind k elements, and with x put there.
PartedAt(s, k, a, b) == a \in Rows /\ b \in Rows /\ Len(a) = k /\ s = Join(a, b)

LEMMA Parts0 ==
  ASSUME NEW s \in Rows, NEW k \in 0..Len(s), NEW x \in Nodes
  PROVE  \E a, b : PartedAt(s, k, a, b) /\ Tree!InsertAt(s, k + 1, x) = Join(Join(a, One(x)), b)
<1> DEFINE a == SubSeq(s, 1, k)
           b == SubSeq(s, k + 1, Len(s))
<1>0. s \in Seq(Nodes) /\ Len(s) \in Nat /\ \A i \in 1..Len(s) : s[i] \in Nodes
  BY DEF Rows
<1>1. a \in Seq(Nodes) /\ Len(a) = k
  BY ONLY <1>0, k \in 0..Len(s), SubSeqProperties, SMTT(20)
<1>2. b \in Seq(Nodes)
  BY ONLY <1>0, k \in 0..Len(s), SubSeqProperties, SMTT(20)
<1>3. s = a \o b
  <2>1. SubSeq(s, 1, k) \o SubSeq(s, k + 1, Len(s)) = SubSeq(s, 1, Len(s))
    <3>1. 1 \in 1..(Len(s) + 1) /\ k \in (1 - 1)..Len(s) /\ Len(s) \in k..Len(s)
      BY <1>0
    <3> QED BY ONLY <1>0, <3>1, ConcatAdjacentSubSeq
  <2>2. SubSeq(s, 1, Len(s)) = s
    BY ONLY <1>0, SubSeqFull
  <2> QED BY ONLY <2>1, <2>2
<1>4. Tree!InsertAt(s, k + 1, x) = (a \o <<x>>) \o b
  <2>1. (k + 1) - 1 = k
    BY <1>0
  <2> QED BY ONLY <2>1 DEF Tree!InsertAt
<1> HIDE DEF a, b
<1>5. PartedAt(s, k, a, b)
  BY ONLY <1>1, <1>2, <1>3 DEF PartedAt, Rows, Join
<1>6. Tree!InsertAt(s, k + 1, x) = Join(Join(a, One(x)), b)
  BY ONLY <1>4 DEF Join, One
<1> QED BY ONLY <1>5, <1>6

\* There is one way to part it.
LEMMA PartedSame ==
  ASSUME NEW s, NEW k, NEW a, NEW b, PartedAt(s, k, a, b), NEW c, NEW d, PartedAt(s, k, c, d)
  PROVE  a = c /\ b = d
<1>1. a \in Rows /\ b \in Rows /\ c \in Rows /\ d \in Rows /\ Len(a) = k /\ Len(c) = k
  BY DEF PartedAt
<1>2. s = Join(a, b) /\ s = Join(c, d)
  BY DEF PartedAt
<1>3. /\ Len(a) \in Nat /\ Len(b) \in Nat /\ Len(s) = Len(a) + Len(b)
      /\ \A i \in 1..Len(a) : s[i] = a[i]
      /\ \A i \in 1..Len(b) : s[Len(a) + i] = b[i]
  <2>1. JoinedAt(a, b, s)
    BY ONLY <1>1, <1>2, JoinAt
  <2> QED BY ONLY <2>1 DEF JoinedAt
<1>4. /\ Len(c) \in Nat /\ Len(d) \in Nat /\ Len(s) = Len(c) + Len(d)
      /\ \A i \in 1..Len(c) : s[i] = c[i]
      /\ \A i \in 1..Len(d) : s[Len(c) + i] = d[i]
  <2>1. JoinedAt(c, d, s)
    BY ONLY <1>1, <1>2, JoinAt
  <2> QED BY ONLY <2>1 DEF JoinedAt
<1>5. a = c
  <2>1. a \in Seq(Nodes) /\ c \in Seq(Nodes) /\ Len(a) = Len(c) /\ \A i \in 1..Len(a) : a[i] = c[i]
    BY ONLY <1>1, <1>3, <1>4 DEF Rows
  <2> QED BY ONLY <2>1, SeqEqual
<1>6. b = d
  <2>1. Len(b) = Len(d)
    BY ONLY <1>1, <1>3, <1>4
  <2>2. b \in Seq(Nodes) /\ d \in Seq(Nodes) /\ \A i \in 1..Len(b) : b[i] = d[i]
    BY ONLY <1>1, <1>3, <1>4, <2>1 DEF Rows
  <2> QED BY ONLY <2>1, <2>2, SeqEqual
<1> QED BY <1>5, <1>6

\* What is put behind a is between a and b.
LEMMA InsertedBetween ==
  \A a, b \in Rows, x \in Nodes :
    Tree!InsertAt(Join(a, b), Len(a) + 1, x) = Join(Join(a, One(x)), b)
<1> SUFFICES ASSUME NEW a \in Rows, NEW b \in Rows, NEW x \in Nodes
             PROVE  Tree!InsertAt(Join(a, b), Len(a) + 1, x) = Join(Join(a, One(x)), b)
  OBVIOUS
<1>1. PICK s \in Rows : s = Join(a, b)
  BY JoinTypes
<1>2. PICK k \in Nat : k = Len(a)
  BY RowLen
<1>3. k \in 0..Len(s)
  <2>1. Len(s) = Len(a) + Len(b) /\ Len(b) \in Nat
    BY <1>1, RowLen
  <2> QED BY ONLY <1>2, <2>1, k \in Nat
<1>4. PICK c, d : PartedAt(s, k, c, d) /\ Tree!InsertAt(s, k + 1, x) = Join(Join(c, One(x)), d)
  BY ONLY <1>3, Parts0, s \in Rows, x \in Nodes
<1>5. PartedAt(s, k, a, b)
  BY ONLY <1>1, <1>2, a \in Rows, b \in Rows DEF PartedAt
<1>6. a = c /\ b = d
  BY ONLY <1>4, <1>5, PartedSame
<1> QED BY ONLY <1>1, <1>2, <1>4, <1>6

\* Wherever one more is put, it is one more.
LEMMA InsertedTypes ==
  \A s \in Rows : \A k \in 0..Len(s) : \A x \in Nodes :
    /\ Tree!InsertAt(s, k + 1, x) \in Rows
    /\ Tree!Elems(Tree!InsertAt(s, k + 1, x)) = Tree!Elems(s) \cup {x}
    /\ Apart(s) /\ x \notin Tree!Elems(s) => Apart(Tree!InsertAt(s, k + 1, x))
<1> SUFFICES ASSUME NEW s \in Rows, NEW k \in 0..Len(s), NEW x \in Nodes
             PROVE  /\ Tree!InsertAt(s, k + 1, x) \in Rows
                    /\ Tree!Elems(Tree!InsertAt(s, k + 1, x)) = Tree!Elems(s) \cup {x}
                    /\ Apart(s) /\ x \notin Tree!Elems(s) => Apart(Tree!InsertAt(s, k + 1, x))
  OBVIOUS
<1>1. PICK a, b : PartedAt(s, k, a, b) /\ Tree!InsertAt(s, k + 1, x) = Join(Join(a, One(x)), b)
  BY Parts0
<1>2. a \in Rows /\ b \in Rows /\ s = Join(a, b)
  BY <1>1 DEF PartedAt
<1>3. One(x) \in Rows /\ Tree!Elems(One(x)) = {x} /\ Apart(One(x))
  BY RowTypes
<1>4. PICK c \in Rows : c = Join(a, One(x))
  BY <1>2, <1>3, JoinTypes
<1>5. PICK d \in Rows : d = Join(c, b)
  BY <1>2, JoinTypes
<1>6. /\ Tree!Elems(c) = Tree!Elems(a) \cup {x}
      /\ Tree!Elems(d) = Tree!Elems(c) \cup Tree!Elems(b)
      /\ Tree!Elems(s) = Tree!Elems(a) \cup Tree!Elems(b)
  BY ONLY <1>2, <1>3, <1>4, <1>5, JoinElems
<1>7. /\ Apart(s) <=> Apart(a) /\ Apart(b) /\ Tree!Elems(a) \cap Tree!Elems(b) = {}
      /\ Apart(c) <=> Apart(a) /\ Apart(One(x)) /\ Tree!Elems(a) \cap Tree!Elems(One(x)) = {}
      /\ Apart(d) <=> Apart(c) /\ Apart(b) /\ Tree!Elems(c) \cap Tree!Elems(b) = {}
  BY ONLY <1>2, <1>3, <1>4, <1>5, JoinApart
<1> QED BY ONLY <1>1, <1>3, <1>4, <1>5, <1>6, <1>7

\* A sequence around the element at k.
LEMMA SplitAt ==
  ASSUME NEW s \in Rows, NEW k \in 1..Len(s)
  PROVE  \E a, b : Around(s, a, s[k], b) /\ Len(a) = k - 1 /\ s[k] \in Nodes /\ s[k] \in Tree!Elems(s)
<1>0. Len(s) \in Nat /\ DOMAIN s = 1..Len(s) /\ s[k] \in Nodes /\ s[k] \in Tree!Elems(s)
  BY DEF Rows, Tree!Elems
<1>1. PICK x \in Nodes : x = s[k]
  BY <1>0
<1>2. PICK a, c : PartedAt(s, k - 1, a, c)
  <2>1. k - 1 \in 0..Len(s)
    BY <1>0
  <2> QED BY ONLY <2>1, Parts0, s \in Rows, x \in Nodes
<1>3. a \in Rows /\ c \in Rows /\ Len(a) = k - 1 /\ s = Join(a, c)
  BY <1>2 DEF PartedAt
<1>4. /\ Len(c) \in Nat /\ Len(s) = Len(a) + Len(c)
      /\ \A i \in 1..Len(c) : s[Len(a) + i] = c[i]
  <2>1. JoinedAt(a, c, s)
    BY ONLY <1>3, JoinAt
  <2> QED BY ONLY <2>1 DEF JoinedAt
<1>5. 1 \in 1..Len(c) /\ 1 \in 0..Len(c) /\ Len(a) + 1 = k
  BY <1>0, <1>3, <1>4
<1>6. c[1] = x
  BY ONLY <1>1, <1>4, <1>5
<1>7. PICK e, b : PartedAt(c, 1, e, b)
  BY ONLY <1>3, <1>5, Parts0, x \in Nodes
<1>8. e \in Rows /\ b \in Rows /\ Len(e) = 1 /\ c = Join(e, b)
  BY <1>7 DEF PartedAt
<1>9. e = One(x)
  <2>1. \A i \in 1..Len(e) : c[i] = e[i]
    <3>1. JoinedAt(e, b, c)
      BY ONLY <1>8, JoinAt
    <3> QED BY ONLY <3>1 DEF JoinedAt
  <2>2. One(x) \in Rows /\ Len(One(x)) = 1 /\ One(x)[1] = x
    BY RowTypes, RowLen DEF One
  <2>3. e \in Seq(Nodes) /\ One(x) \in Seq(Nodes) /\ Len(e) = Len(One(x)) /\ \A i \in 1..Len(e) : e[i] = One(x)[i]
    BY ONLY <1>6, <1>8, <2>1, <2>2 DEF Rows
  <2> QED BY ONLY <2>3, SeqEqual
<1>10. Around(s, a, s[k], b)
  BY ONLY <1>1, <1>3, <1>8, <1>9 DEF Around
<1> QED BY ONLY <1>0, <1>3, <1>10

\* A sequence that is not empty, up to its last element.
LEMMA SplitLast ==
  ASSUME NEW s \in Rows, s # None
  PROVE  \E a \in Rows : /\ s = Join(a, One(Tree!Last(s)))
                         /\ Tree!Last(s) \in Nodes /\ Tree!Last(s) \in Tree!Elems(s)
<1>1. Len(s) \in Nat /\ Len(s) # 0
  BY RowLen
<1>2. PICK k \in 1..Len(s) : k = Len(s)
  BY ONLY <1>1
<1>3. PICK a, b : Around(s, a, s[k], b) /\ Len(a) = k - 1 /\ s[k] \in Nodes /\ s[k] \in Tree!Elems(s)
  BY SplitAt
<1>4. Tree!Last(s) = s[k]
  BY <1>2 DEF Tree!Last
<1>5. a \in Rows /\ b \in Rows /\ s = Join(a, Join(One(s[k]), b)) /\ One(s[k]) \in Rows
  BY <1>3, RowTypes DEF Around
<1>6. b = None
  <2>1. PICK c \in Rows : c = Join(One(s[k]), b)
    BY <1>5, JoinTypes
  <2>2. Len(s) = Len(a) + Len(c) /\ Len(c) = Len(One(s[k])) + Len(b) /\ Len(One(s[k])) = 1 /\ Len(b) \in Nat
    BY ONLY <1>3, <1>5, <2>1, RowLen
  <2>3. Len(b) = 0
    BY ONLY <1>1, <1>2, <1>3, <2>2
  <2> QED BY ONLY <1>5, <2>3, RowLen
<1>7. Join(One(s[k]), None) = One(s[k])
  BY ONLY <1>5, JoinNone
<1> QED BY ONLY <1>3, <1>4, <1>5, <1>6, <1>7

\* The index of an element of the list.
LEMMA IndexIs ==
  ASSUME list \in Rows, Apart(list), NEW x \in Nodes, NEW a, NEW b, Around(list, a, x, b)
  PROVE  Tree!GetTreeIndex(x) = Len(a) /\ x \in Tree!Elems(list) /\ a \in Rows
<1>1. a \in Rows /\ b \in Rows /\ list = Join(a, Join(One(x), b)) /\ One(x) \in Rows
  BY RowTypes DEF Around
<1>2. PICK c \in Rows : c = Join(One(x), b)
  BY <1>1, JoinTypes
<1>3. PICK k \in Nat : k = Len(a)
  BY <1>1, RowLen
<1>4. Len(c) = 1 + Len(b) /\ Len(b) \in Nat /\ c[1] = x
  <2>1. Len(One(x)) = 1 /\ One(x)[1] = x
    BY DEF One
  <2>2. Len(c) = Len(One(x)) + Len(b) /\ Len(b) \in Nat /\ \A i \in 1..Len(One(x)) : c[i] = One(x)[i]
    <3>1. JoinedAt(One(x), b, c)
      BY ONLY <1>1, <1>2, JoinAt
    <3> QED BY ONLY <3>1 DEF JoinedAt
  <2> QED BY ONLY <2>1, <2>2
<1>5. /\ DOMAIN list = 1..(Len(a) + Len(c))
      /\ \A i \in 1..Len(c) : list[Len(a) + i] = c[i]
  <2>1. JoinedAt(a, c, list)
    BY ONLY <1>1, <1>2, JoinAt
  <2> QED BY ONLY <2>1 DEF JoinedAt
<1>6. k + 1 \in DOMAIN list /\ list[k + 1] = x
  BY ONLY <1>3, <1>4, <1>5, k \in Nat
<1>7. \A i \in DOMAIN list : list[i] = x => i = k + 1
  BY ONLY <1>6, Apart(list) DEF Apart
<1>8. x \in Tree!Elems(list)
  BY <1>6 DEF Tree!Elems
<1>9. (CHOOSE i \in DOMAIN list : list[i] = x) = k + 1
  BY ONLY <1>6, <1>7
<1>10. Tree!GetTreeIndex(x) = (k + 1) - 1
  BY ONLY <1>8, <1>9 DEF Tree!GetTreeIndex
<1> QED BY ONLY <1>1, <1>3, <1>8, <1>10, k \in Nat

LEMMA IndexTypes ==
  ASSUME list \in Rows, NEW x \in Nodes
  PROVE  /\ Len(list) \in Nat /\ Tree!GetTreeIndex(x) \in -1..(Len(list) - 1)
         /\ x \in Tree!Elems(list) => Tree!GetTreeIndex(x) \in 0..(Len(list) - 1)
<1>1. Len(list) \in Nat /\ DOMAIN list = 1..Len(list)
  BY DEF Rows
<1>2. CASE x \in Tree!Elems(list)
  <2>1. PICK k : k = CHOOSE i \in DOMAIN list : list[i] = x
    OBVIOUS
  <2>2. \E i \in DOMAIN list : list[i] = x
    BY <1>2 DEF Tree!Elems
  <2>3. k \in 1..Len(list)
    BY ONLY <1>1, <2>1, <2>2
  <2>4. Tree!GetTreeIndex(x) = k - 1
    BY ONLY <1>2, <2>1 DEF Tree!GetTreeIndex
  <2> QED BY ONLY <1>1, <2>3, <2>4
<1>3. CASE x \notin Tree!Elems(list)
  <2>1. Tree!GetTreeIndex(x) = -1
    BY ONLY <1>3 DEF Tree!GetTreeIndex
  <2> QED BY ONLY <1>1, <1>3, <2>1
<1> QED BY <1>2, <1>3

-----------------------------------------------------------------------------
(* The last node below a node.                                             *)

\* GetLastNode for any children.
LastOf(K) ==
  LET last[m \in Nodes] == IF K[m] = <<>> THEN m ELSE last[Tree!Last(K[m])]
  IN last

LEMMA LastNodeIs ==
  ASSUME NEW n
  PROVE  Tree!GetLastNode(n) = LastOf(mTreeNodes)[n]
BY DEF Tree!GetLastNode, LastOf

LEMMA LastIs ==
  ASSUME NEW K, Forest(K)
  PROVE  /\ LastOf(K) \in [Nodes -> Nodes]
         /\ \A x \in Nodes : LastOf(K)[x] = IF K[x] = None THEN x ELSE LastOf(K)[Tree!Last(K[x])]
<1>1. CASE Nodes = {}
  <2>1. PICK f : f = [m \in Nodes |-> m]
    OBVIOUS
  <2>2. f = [m \in Nodes |-> IF K[m] = <<>> THEN m ELSE f[Tree!Last(K[m])]]
    BY ONLY <1>1, <2>1
  <2>3. PICK h : h = CHOOSE last : last = [m \in Nodes |-> IF K[m] = <<>> THEN m ELSE last[Tree!Last(K[m])]]
    OBVIOUS
  <2>4. h = [m \in Nodes |-> IF K[m] = <<>> THEN m ELSE h[Tree!Last(K[m])]]
    BY ONLY <2>2, <2>3
  <2>5. LastOf(K) = h
    BY ONLY <2>3 DEF LastOf
  <2> QED BY ONLY <1>1, <2>4, <2>5
<1>2. CASE Nodes # {}
  <2>0. PICK e \in Nodes : TRUE
    BY <1>2
  <2> DEFINE X == Nodes
             step == [x \in Nodes |-> [f \in [Nodes -> X] |-> IF K[x] = None THEN x ELSE f[Tree!Last(K[x])]]]
  <2>1. \A x \in Nodes : K[x] \in Rows /\ (K[x] # None => Tree!Last(K[x]) \in Nodes /\ Tree!Last(K[x]) \in Tree!Elems(K[x]))
    <3> SUFFICES ASSUME NEW x \in Nodes
                 PROVE  K[x] \in Rows /\ (K[x] # None => Tree!Last(K[x]) \in Nodes /\ Tree!Last(K[x]) \in Tree!Elems(K[x]))
      OBVIOUS
    <3>1. PICK s \in Rows : s = K[x]
      BY KidsApart
    <3> QED BY <3>1, SplitLast
  <2>2. ASSUME NEW x \in Nodes, NEW f \in [Nodes -> Nodes]
        PROVE  step[x][f] = (IF K[x] = None THEN x ELSE f[Tree!Last(K[x])]) /\ step[x][f] \in X
    BY <2>1
  <2>3. step \in [Nodes -> [[Nodes -> X] -> X]]
    <3> DEFINE val(x, f) == IF K[x] = None THEN x ELSE f[Tree!Last(K[x])]
    <3>1. \A x \in Nodes : \A f \in [Nodes -> X] : val(x, f) \in X
      BY <2>1
    <3>2. step = [x \in Nodes |-> [f \in [Nodes -> X] |-> val(x, f)]]
      OBVIOUS
    <3> HIDE DEF val, step, X
    <3> QED BY ONLY <3>1, <3>2
  <2>4. ASSUME NEW x \in Nodes, NEW f \in [Nodes -> X], NEW g \in [Nodes -> X],
               \A y \in Kids(K)[x] : f[y] = g[y]
        PROVE  step[x][f] = step[x][g]
    <3>1. \A y \in Tree!Elems(K[x]) : f[y] = g[y]
      BY <2>4, KidsTypes
    <3> QED BY <2>1, <2>2, <3>1
  <2>5. e \in X
    OBVIOUS
  <2> HIDE DEF step, X
  <2>6. PICK f : SolvesOn(Nodes, f, Nodes, X, Kids(K), step)
    <3>1. Founded(Nodes, X, Kids(K), step)
      BY <2>4, KidsTypes DEF Founded
    <3> QED BY ONLY <2>3, <2>5, <3>1, SolvesAll
  <2>7. f \in [Nodes -> Nodes] /\ \A x \in Nodes : f[x] = step[x][f]
    BY <2>6 DEF SolvesOn, X
  <2>8. \A x \in Nodes : f[x] = IF K[x] = None THEN x ELSE f[Tree!Last(K[x])]
    BY ONLY <2>2, <2>7
  <2>9. f = [m \in Nodes |-> IF K[m] = <<>> THEN m ELSE f[Tree!Last(K[m])]]
    BY ONLY <2>7, <2>8 DEF None
  <2>10. PICK h : h = CHOOSE last : last = [m \in Nodes |-> IF K[m] = <<>> THEN m ELSE last[Tree!Last(K[m])]]
    OBVIOUS
  <2>11. h = [m \in Nodes |-> IF K[m] = <<>> THEN m ELSE h[Tree!Last(K[m])]]
    BY ONLY <2>9, <2>10
  <2>12. \A m \in Nodes : h[m] = IF K[m] = None THEN m ELSE h[Tree!Last(K[m])]
    BY ONLY <2>11 DEF None
  <2>13. \A m \in Nodes : h[m] = f[m]
    <3> DEFINE Bad == {m \in Nodes : h[m] # f[m]}
    <3>1. SUFFICES ASSUME Bad # {} PROVE FALSE
      OBVIOUS
    <3>2. PICK m \in Bad : Kids(K)[m] \cap Bad = {}
      <4>1. Bad \in SUBSET Nodes
        OBVIOUS
      <4> HIDE DEF Bad
      <4> QED BY <3>1, <4>1, KidsTypes
    <3>3. m \in Nodes /\ h[m] # f[m]
      OBVIOUS
    <3>4. K[m] # None => h[Tree!Last(K[m])] = f[Tree!Last(K[m])]
      BY <2>1, <3>2, <3>3, KidsTypes
    <3> QED BY ONLY <2>8, <2>12, <3>3, <3>4
  <2>14. h \in [Nodes -> Nodes]
    BY ONLY <2>7, <2>11, <2>13
  <2>15. LastOf(K) = h
    BY ONLY <2>10 DEF LastOf
  <2> QED BY ONLY <2>12, <2>14, <2>15
<1> QED BY <1>1, <1>2

\* It is the last in order of the nodes below it.
LEMMA LastEnds ==
  ASSUME NEW K, Forest(K)
  PROVE  \A x \in Nodes : \E u \in Rows : PreOf(K)[x] = Join(u, One(LastOf(K)[x]))
<1>0. PICK P \in [Nodes -> Rows] : P = PreOf(K)
  BY PreIs
<1>1. PICK last \in [Nodes -> Nodes] : last = LastOf(K)
  BY LastIs
<1> DEFINE Bad == {x \in Nodes : ~\E u \in Rows : P[x] = Join(u, One(last[x]))}
<1>2. SUFFICES ASSUME Bad # {} PROVE FALSE
  BY <1>0, <1>1
<1>3. PICK x \in Bad : Kids(K)[x] \cap Bad = {}
  <2>1. Bad \in SUBSET Nodes
    OBVIOUS
  <2> HIDE DEF Bad
  <2> QED BY <1>2, <2>1, KidsTypes
<1>4. x \in Nodes /\ ~\E u \in Rows : P[x] = Join(u, One(last[x]))
  OBVIOUS
<1>5. PICK R \in Rows : R = K[x]
  BY <1>4, KidsApart
<1>6. P[x] = Join(One(x), Tree!Spread(R, P)) /\ One(x) \in Rows /\ None \in Rows
  BY <1>0, <1>4, <1>5, PreIs, RowTypes
<1>7. CASE R = None
  <2>1. Tree!Spread(R, P) = None /\ last[x] = x
    BY <1>1, <1>4, <1>5, <1>7, LastIs, SpreadNone
  <2>2. P[x] = Join(None, One(last[x]))
    BY ONLY <1>6, <2>1, JoinNone
  <2> QED BY ONLY <1>4, <1>6, <2>2
<1>8. CASE R # None
  <2>1. PICK a \in Rows : /\ R = Join(a, One(Tree!Last(R)))
                          /\ Tree!Last(R) \in Nodes /\ Tree!Last(R) \in Tree!Elems(R)
    BY <1>8, SplitLast
  <2>2. PICK c \in Nodes : c = Tree!Last(R)
    BY <2>1
  <2>3. last[x] = last[c]
    BY <1>1, <1>4, <1>5, <1>8, <2>2, LastIs
  <2>4. PICK u \in Rows : P[c] = Join(u, One(last[c]))
    <3>1. c \notin Bad
      BY <1>3, <1>4, <1>5, <2>1, <2>2, KidsTypes
    <3> QED BY <3>1
  <2>5. PICK A \in Rows : A = Tree!Spread(a, P)
    BY SpreadTypes
  <2>6. Tree!Spread(R, P) = Join(A, P[c])
    BY <2>1, <2>2, <2>5, SpreadMore
  <2>7. One(last[c]) \in Rows /\ Join(A, u) \in Rows
    BY ONLY RowTypes, JoinTypes, last \in [Nodes -> Nodes], c \in Nodes, A \in Rows, u \in Rows
  <2>8. Join(A, Join(u, One(last[c]))) = Join(Join(A, u), One(last[c]))
    BY ONLY <2>7, JoinJoin, A \in Rows, u \in Rows
  <2>9. Join(One(x), Join(Join(A, u), One(last[c]))) = Join(Join(One(x), Join(A, u)), One(last[c]))
    BY ONLY <1>6, <2>7, JoinJoin
  <2>10. Join(One(x), Join(A, u)) \in Rows
    BY ONLY <1>6, <2>7, JoinTypes
  <2>11. P[x] = Join(Join(One(x), Join(A, u)), One(last[x]))
    BY ONLY <1>6, <2>3, <2>4, <2>6, <2>8, <2>9
  <2> QED BY ONLY <1>4, <2>10, <2>11
<1> QED BY <1>7, <1>8

-----------------------------------------------------------------------------
(* The list as the trees of its roots, and one more node in it.            *)

\* No node has x as its child.
Top(K, x) == \A q \in Nodes : x \notin Tree!Elems(K[q])

\* The trees of two roots share no node.
LEMMA TopsApart ==
  ASSUME NEW K, Forest(K), NEW c \in Nodes, NEW d \in Nodes, c # d, Top(K, c), Top(K, d)
  PROVE  SubOf(K)[c] \cap SubOf(K)[d] = {}
<1>0. PICK Sub \in [Nodes -> SUBSET Nodes] : Sub = SubOf(K)
  BY SubIs
<1>1. c \in Sub[c] /\ \A z \in Sub[c] : z \in Nodes /\ Tree!Elems(K[z]) \subseteq Sub[c]
  BY <1>0, SubHas
<1>2. \A y \in Sub[d] : y # d => \E q \in Sub[d] : y \in Tree!Elems(K[q])
  BY <1>0, SubParent
<1>3. \A y \in Sub[d] : y # d => \A q \in Nodes : y \in Tree!Elems(K[q]) => q \in Sub[d]
  BY <1>0, SubParent
<1> DEFINE C == {z \in Sub[c] : z \notin Sub[d]}
<1>4. c \in C
  <2>1. Sub[d] \subseteq Nodes
    OBVIOUS
  <2> QED BY <1>1, <1>2, <2>1 DEF Top
<1>5. ASSUME NEW z \in C, NEW y \in Tree!Elems(K[z]) PROVE y \in C
  <2>1. z \in Nodes /\ z \in Sub[c] /\ z \notin Sub[d] /\ y \in Sub[c]
    BY <1>1
  <2>2. y # d
    BY <2>1 DEF Top
  <2>3. y \notin Sub[d]
    BY <1>3, <2>1, <2>2
  <2> QED BY <2>1, <2>3
<1>6. SubOf(K)[c] \subseteq C
  <2>1. C \in SUBSET Nodes /\ \A z \in C : Tree!Elems(K[z]) \subseteq C
    BY <1>1, <1>5
  <2> HIDE DEF C
  <2> QED BY ONLY <1>4, <2>1, SubLeast, Forest(K)
<1> QED BY <1>0, <1>6

\* The roots of a list.
Tops(K, R) == R \in Rows /\ Apart(R) /\ \A c \in Tree!Elems(R) : Top(K, c)

LEMMA TopsSubs ==
  ASSUME NEW K, Forest(K), NEW R, Tops(K, R)
  PROVE  /\ \A c, d \in Tree!Elems(R) : c # d => SubOf(K)[c] \cap SubOf(K)[d] = {}
         /\ \A y \in Nodes : y \in Tree!Elems(Tree!Spread(R, PreOf(K))) <=>
                               \E c \in Tree!Elems(R) : y \in SubOf(K)[c]
         /\ Tree!Spread(R, PreOf(K)) \in Rows
<1>1. R \in Rows /\ Tree!Elems(R) \subseteq Nodes /\ \A c \in Tree!Elems(R) : Top(K, c)
  BY RowTypes DEF Tops
<1>2. \A c, d \in Tree!Elems(R) : c # d => SubOf(K)[c] \cap SubOf(K)[d] = {}
  BY ONLY <1>1, TopsApart, Forest(K)
<1>3. PICK P \in [Nodes -> Rows] : P = PreOf(K)
  BY PreIs
<1>4. \A y \in Nodes : y \in Tree!Elems(Tree!Spread(R, P)) <=>
                         \E c \in Tree!Elems(R) : y \in Tree!Elems(P[c])
  BY <1>1, SpreadElems
<1>5. \A c \in Nodes : SubOf(K)[c] = Tree!Elems(P[c])
  BY <1>3, SubIs
<1>6. Tree!Spread(R, P) \in Rows
  BY <1>1, SpreadTypes
<1> QED BY ONLY <1>1, <1>2, <1>3, <1>4, <1>5, <1>6

\* Where only nodes below p have other children, the list differs where it has the tree of p, ...
LEMMA ListSegment ==
  ASSUME NEW K, Forest(K), NEW L, Forest(L), NEW R, Tops(K, R), NEW p \in Nodes,
         p \in Tree!Elems(Tree!Spread(R, PreOf(K))),
         \A y \in Tree!Elems(Tree!Spread(R, PreOf(K))) : y \notin SubOf(K)[p] => L[y] = K[y]
  PROVE  Segment(K, L, p, Tree!Spread(R, PreOf(K)), Tree!Spread(R, PreOf(L)))
<1>1. R \in Rows /\ Apart(R) /\ Tree!Elems(R) \subseteq Nodes
  BY RowTypes DEF Tops
<1>2. \A c, d \in Tree!Elems(R) : c # d => SubOf(K)[c] \cap SubOf(K)[d] = {}
  BY TopsSubs
<1>3. \A y \in Nodes : y \in Tree!Elems(Tree!Spread(R, PreOf(K))) <=>
                         \E c \in Tree!Elems(R) : y \in SubOf(K)[c]
  BY TopsSubs
<1>4. PICK c \in Tree!Elems(R) : p \in SubOf(K)[c]
  BY <1>3
<1>5. \A d \in Tree!Elems(R) : \A y \in SubOf(K)[d] : y \notin SubOf(K)[p] => L[y] = K[y]
  <2>1. \A d \in Tree!Elems(R) : SubOf(K)[d] \subseteq Nodes
    BY <1>1, SubIs
  <2> QED BY ONLY <1>3, <2>1, \A y \in Tree!Elems(Tree!Spread(R, PreOf(K))) : y \notin SubOf(K)[p] => L[y] = K[y]
<1>6. Segment(K, L, p, PreOf(K)[c], PreOf(L)[c])
  BY ONLY <1>1, <1>4, <1>5, SegmentIn, Forest(K), Forest(L), p \in Nodes
<1> QED BY ONLY <1>1, <1>2, <1>4, <1>5, <1>6, SegmentRow, Forest(K), Forest(L), p \in Nodes

\* ... and not at all where none of its nodes has.
LEMMA ListSame ==
  ASSUME NEW K, Forest(K), NEW L, Forest(L), NEW R, Tops(K, R),
         \A y \in Tree!Elems(Tree!Spread(R, PreOf(K))) : L[y] = K[y]
  PROVE  Tree!Spread(R, PreOf(L)) = Tree!Spread(R, PreOf(K))
<1>1. Tree!Elems(R) \subseteq Nodes
  BY RowTypes DEF Tops
<1>2. \A y \in Nodes : y \in Tree!Elems(Tree!Spread(R, PreOf(K))) <=>
                         \E c \in Tree!Elems(R) : y \in SubOf(K)[c]
  BY TopsSubs
<1>3. ASSUME NEW c \in Tree!Elems(R) PROVE PreOf(L)[c] = PreOf(K)[c]
  <2>1. c \in Nodes /\ SubOf(K)[c] \subseteq Nodes
    BY <1>1, SubIs
  <2>2. \A y \in SubOf(K)[c] : L[y] = K[y]
    BY <1>2, <2>1
  <2> QED BY ONLY <2>1, <2>2, PreSame, Forest(K), Forest(L)
<1> QED BY ONLY <1>3, SpreadSame

\* One more child of p, which was the child of none and has p not below it.
Adopts(K, L, p, n) ==
  /\ Top(K, n) /\ p \notin SubOf(K)[n]
  /\ L \in [Nodes -> Rows] /\ Apart(L[p]) /\ Tree!Elems(L[p]) = Tree!Elems(K[p]) \cup {n}
  /\ \A q \in Nodes \ {p} : L[q] = K[q]

LEMMA AdoptsForest ==
  ASSUME NEW K, Forest(K), NEW p \in Nodes, NEW n \in Nodes, NEW L, Adopts(K, L, p, n)
  PROVE  Forest(L)
<1>0. PICK Sub \in [Nodes -> SUBSET Nodes] : Sub = SubOf(K)
  BY SubIs
<1>1. /\ \A q \in Nodes : n \notin Tree!Elems(K[q])
      /\ p \notin Sub[n] /\ L \in [Nodes -> Rows]
      /\ Apart(L[p]) /\ Tree!Elems(L[p]) = Tree!Elems(K[p]) \cup {n}
      /\ \A q \in Nodes : q # p => L[q] = K[q]
  BY <1>0 DEF Adopts, Top
<1>2. /\ \A q \in Nodes : Apart(K[q])
      /\ \A q, r \in Nodes : q # r => Tree!Elems(K[q]) \cap Tree!Elems(K[r]) = {}
      /\ \A S \in SUBSET Nodes : S # {} => \E x \in S : Tree!Elems(K[x]) \cap S = {}
  BY KidsApart DEF Forest, Tree!IsForest
<1>3. \A q \in Nodes : Apart(L[q])
  BY <1>1, <1>2
<1>4. \A q, r \in Nodes : q # r => Tree!Elems(L[q]) \cap Tree!Elems(L[r]) = {}
  <2> SUFFICES ASSUME NEW q \in Nodes, NEW r \in Nodes, q # r
               PROVE  Tree!Elems(L[q]) \cap Tree!Elems(L[r]) = {}
    OBVIOUS
  <2>1. /\ Tree!Elems(K[q]) \cap Tree!Elems(K[r]) = {} /\ n \notin Tree!Elems(K[q]) /\ n \notin Tree!Elems(K[r])
    BY <1>1, <1>2
  <2>2. Tree!Elems(L[q]) = IF q = p THEN Tree!Elems(K[q]) \cup {n} ELSE Tree!Elems(K[q])
    BY ONLY <1>1, q \in Nodes
  <2>3. Tree!Elems(L[r]) = IF r = p THEN Tree!Elems(K[r]) \cup {n} ELSE Tree!Elems(K[r])
    BY ONLY <1>1, r \in Nodes
  <2> QED BY ONLY <2>1, <2>2, <2>3, q # r
<1>5. ASSUME NEW S \in SUBSET Nodes, S # {} PROVE \E x \in S : Tree!Elems(L[x]) \cap S = {}
  <2>1. PICK x \in S : Tree!Elems(K[x]) \cap S = {}
    BY <1>2, <1>5
  <2>2. CASE x # p \/ n \notin S
    <3>1. Tree!Elems(L[x]) \cap S = {}
      BY ONLY <1>1, <2>1, <2>2, S \in SUBSET Nodes, x \in S
    <3> QED BY <3>1
  <2>3. CASE x = p /\ n \in S
    <3> DEFINE T2 == S \cap Sub[n]
    <3>1. n \in T2 /\ T2 \in SUBSET Nodes
      BY <1>0, <2>3, SubHas
    <3>2. PICK y \in T2 : Tree!Elems(K[y]) \cap T2 = {}
      <4> HIDE DEF T2
      <4> QED BY <1>2, <3>1
    <3>3. y \in Sub[n] /\ y \in S /\ y \in Nodes /\ y # p
      BY <1>1
    <3>4. Tree!Elems(K[y]) \subseteq Sub[n]
      BY <1>0, <3>3, SubHas
    <3>5. Tree!Elems(K[y]) \cap S = {}
      BY <3>2, <3>4
    <3>6. Tree!Elems(L[y]) \cap S = {}
      BY ONLY <1>1, <3>3, <3>5
    <3> QED BY ONLY <3>3, <3>6
  <2> QED BY <2>2, <2>3
<1> QED BY ONLY <1>1, <1>3, <1>4, <1>5 DEF Forest, Tree!IsForest, Apart

\* The order of the other trees is as before; that of p has the tree of n with the child.
LEMMA AdoptsOrder ==
  ASSUME NEW K, Forest(K), NEW p \in Nodes, NEW n \in Nodes, NEW L, Adopts(K, L, p, n),
         NEW a \in Rows, NEW b \in Rows, K[p] = Join(a, b), L[p] = Join(Join(a, One(n)), b)
  PROVE  /\ PreOf(K)[p] = Join(Join(One(p), Tree!Spread(a, PreOf(K))), Tree!Spread(b, PreOf(K)))
         /\ PreOf(L)[p] = Join(Join(Join(One(p), Tree!Spread(a, PreOf(K))), PreOf(K)[n]),
                               Tree!Spread(b, PreOf(K)))
<1>0. Forest(L)
  BY AdoptsForest
<1>1. PICK P \in [Nodes -> Rows] : P = PreOf(K)
  BY PreIs
<1>2. PICK Q \in [Nodes -> Rows] : Q = PreOf(L)
  BY <1>0, PreIs
<1>3. ASSUME NEW x \in Nodes, p \notin SubOf(K)[x] PROVE Q[x] = P[x]
  <2>1. SubOf(K)[x] \subseteq Nodes
    BY SubIs
  <2>2. \A y \in SubOf(K)[x] : L[y] = K[y]
    BY ONLY <1>3, <2>1, Adopts(K, L, p, n) DEF Adopts
  <2> QED BY ONLY <1>0, <1>1, <1>2, <2>2, PreSame, Forest(K), x \in Nodes
<1>4. Q[n] = P[n]
  BY <1>3 DEF Adopts
<1>5. Tree!Elems(K[p]) = Tree!Elems(a) \cup Tree!Elems(b) /\ Tree!Elems(K[p]) \subseteq Nodes
  BY JoinElems, SubIs
<1>6. \A c \in Tree!Elems(K[p]) : Q[c] = P[c]
  BY ONLY <1>3, <1>5, SubOnce, Forest(K), p \in Nodes
<1>7. Tree!Spread(a, Q) = Tree!Spread(a, P) /\ Tree!Spread(b, Q) = Tree!Spread(b, P)
  BY ONLY <1>5, <1>6, SpreadSame
<1>8. One(n) \in Rows /\ One(p) \in Rows /\ Join(a, One(n)) \in Rows
  BY RowTypes, JoinTypes
<1>9. PICK A \in Rows : A = Tree!Spread(a, P)
  BY SpreadTypes
<1>10. PICK B \in Rows : B = Tree!Spread(b, P)
  BY SpreadTypes
<1>11. Tree!Spread(K[p], P) = Join(A, B)
  BY ONLY <1>9, <1>10, SpreadJoin, a \in Rows, b \in Rows, P \in [Nodes -> Rows], K[p] = Join(a, b)
<1>12. Tree!Spread(L[p], Q) = Join(Join(A, P[n]), B)
  <2>1. Tree!Spread(L[p], Q) = Join(Tree!Spread(Join(a, One(n)), Q), Tree!Spread(b, Q))
    BY ONLY <1>8, SpreadJoin, b \in Rows, Q \in [Nodes -> Rows], L[p] = Join(Join(a, One(n)), b)
  <2>2. Tree!Spread(Join(a, One(n)), Q) = Join(Tree!Spread(a, Q), Q[n])
    BY ONLY SpreadMore, a \in Rows, n \in Nodes, Q \in [Nodes -> Rows]
  <2> QED BY ONLY <1>4, <1>7, <1>9, <1>10, <2>1, <2>2
<1>13. P[p] = Join(One(p), Join(A, B)) /\ Q[p] = Join(One(p), Join(Join(A, P[n]), B))
  BY ONLY <1>0, <1>1, <1>2, <1>11, <1>12, PreIs, Forest(K), p \in Nodes
<1>14. P[n] \in Rows /\ Join(A, P[n]) \in Rows
  BY JoinTypes
<1>15. /\ P[p] = Join(Join(One(p), A), B)
       /\ Q[p] = Join(Join(One(p), Join(A, P[n])), B)
  BY ONLY <1>8, <1>13, <1>14, JoinJoin, A \in Rows, B \in Rows
<1>16. Join(One(p), Join(A, P[n])) = Join(Join(One(p), A), P[n])
  BY ONLY <1>8, <1>14, JoinJoin, A \in Rows
<1> QED BY ONLY <1>1, <1>2, <1>9, <1>10, <1>15, <1>16

\* A place inside the tree of p is one inside the list.
LEMMA PlaceInside ==
  ASSUME list \in Rows, Apart(list), NEW u \in Rows, NEW v \in Rows, NEW s \in Rows, NEW t \in Rows,
         list = Join(u, Join(Join(s, t), v))
  PROVE  /\ \A x \in Nodes, w \in Rows : t = Join(One(x), w) =>
              Tree!GetTreeIndex(x) = Len(u) + Len(s) /\ x \in Tree!Elems(list)
         /\ \A x \in Nodes : Tree!InsertAt(list, Len(u) + Len(s) + 1, x) =
              Join(u, Join(Join(Join(s, One(x)), t), v))
<1>1. Join(u, s) \in Rows /\ Join(t, v) \in Rows /\ Join(s, t) \in Rows /\ Join(s, Join(t, v)) \in Rows
  BY JoinTypes
<1>2. Join(Join(s, t), v) = Join(s, Join(t, v))
  BY ONLY JoinJoin, s \in Rows, t \in Rows, v \in Rows
<1>3. list = Join(Join(u, s), Join(t, v))
  BY ONLY <1>1, <1>2, JoinJoin, u \in Rows, s \in Rows, list = Join(u, Join(Join(s, t), v))
<1>4. Len(Join(u, s)) = Len(u) + Len(s) /\ Len(u) \in Nat /\ Len(s) \in Nat
  BY RowLen
<1>5. ASSUME NEW x \in Nodes, NEW w \in Rows, t = Join(One(x), w)
      PROVE  Tree!GetTreeIndex(x) = Len(u) + Len(s) /\ x \in Tree!Elems(list)
  <2>1. One(x) \in Rows /\ Join(w, v) \in Rows
    BY RowTypes, JoinTypes
  <2>2. Join(t, v) = Join(One(x), Join(w, v))
    BY ONLY <1>5, <2>1, JoinJoin, w \in Rows, v \in Rows
  <2>3. Around(list, Join(u, s), x, Join(w, v))
    BY ONLY <1>1, <1>3, <2>1, <2>2 DEF Around
  <2> QED BY ONLY <1>4, <2>3, IndexIs, list \in Rows, Apart(list), x \in Nodes
<1>6. ASSUME NEW x \in Nodes
      PROVE  Tree!InsertAt(list, Len(u) + Len(s) + 1, x) = Join(u, Join(Join(Join(s, One(x)), t), v))
  <2>1. Tree!InsertAt(list, Len(u) + Len(s) + 1, x) = Join(Join(Join(u, s), One(x)), Join(t, v))
    BY ONLY <1>1, <1>3, <1>4, InsertedBetween, x \in Nodes
  <2>2. One(x) \in Rows /\ Join(s, One(x)) \in Rows
    BY RowTypes, JoinTypes
  <2>3. Join(Join(u, s), One(x)) = Join(u, Join(s, One(x)))
    BY ONLY <2>2, JoinJoin, u \in Rows, s \in Rows
  <2>4. Join(Join(u, Join(s, One(x))), Join(t, v)) = Join(u, Join(Join(s, One(x)), Join(t, v)))
    BY ONLY <1>1, <2>2, JoinJoin, u \in Rows
  <2>5. Join(Join(Join(s, One(x)), t), v) = Join(Join(s, One(x)), Join(t, v))
    BY ONLY <2>2, JoinJoin, t \in Rows, v \in Rows
  <2> QED BY ONLY <2>1, <2>3, <2>4, <2>5
<1> QED BY <1>5, <1>6

-----------------------------------------------------------------------------
(* What the calls that remove come to.  The children of a node and of all  *)
(* below it are gone, and those the view knew are no longer in the list.   *)

\* L has no child that K has not.
Fewer(K, L) ==
  /\ L \in [Nodes -> Rows]
  /\ \A x \in Nodes : Apart(L[x]) /\ Tree!Elems(L[x]) \subseteq Tree!Elems(K[x])

\* A forest that loses children stays one.
LEMMA FewerForest ==
  ASSUME NEW K, Forest(K), NEW L, Fewer(K, L)
  PROVE  Forest(L)
<1>1. L \in [Nodes -> Rows] /\ \A x \in Nodes : Apart(L[x])
  BY DEF Fewer
<1>2. \A x \in Nodes : Tree!Elems(L[x]) \subseteq Tree!Elems(K[x])
  BY DEF Fewer
<1>3. /\ \A p, q \in Nodes : p # q => Tree!Elems(K[p]) \cap Tree!Elems(K[q]) = {}
      /\ \A S \in SUBSET Nodes : S # {} => \E n \in S : Tree!Elems(K[n]) \cap S = {}
  BY DEF Forest, Tree!IsForest
<1>4. \A p, q \in Nodes : p # q => Tree!Elems(L[p]) \cap Tree!Elems(L[q]) = {}
  BY ONLY <1>2, <1>3
<1>5. \A S \in SUBSET Nodes : S # {} => \E n \in S : Tree!Elems(L[n]) \cap S = {}
  BY ONLY <1>2, <1>3
<1>6. \A p \in Nodes : \A i, j \in DOMAIN L[p] : L[p][i] = L[p][j] => i = j
  BY ONLY <1>1 DEF Apart
<1>7. Tree!IsForest(L)
  BY ONLY <1>4, <1>5, <1>6 DEF Tree!IsForest
<1> QED BY <1>1, <1>7 DEF Forest

\* The nodes of X lose their children; n and all below it leave their parent p.
Shut(K, X) == [x \in Nodes |-> IF x \in X THEN None ELSE K[x]]
Cut(K, p, n) ==
  [x \in Nodes |-> IF x \in SubOf(K)[n] THEN None
                   ELSE IF x = p THEN Tree!Without(K[x], {n}) ELSE K[x]]

LEMMA ShutFewer ==
  ASSUME NEW K, Forest(K), NEW X
  PROVE  /\ Fewer(K, Shut(K, X))
         /\ \A x \in Nodes : Shut(K, X)[x] = IF x \in X THEN None ELSE K[x]
<1>1. \A x \in Nodes : K[x] \in Rows /\ Apart(K[x])
  BY KidsApart
<1>2. None \in Rows /\ Apart(None) /\ Tree!Elems(None) = {}
  BY RowTypes
<1>3. /\ Shut(K, X) \in [Nodes -> Rows]
      /\ \A x \in Nodes : Shut(K, X)[x] = IF x \in X THEN None ELSE K[x]
  BY ONLY <1>1, <1>2 DEF Shut
<1> QED BY ONLY <1>1, <1>2, <1>3 DEF Fewer

LEMMA CutFewer ==
  ASSUME NEW K, Forest(K), NEW p \in Nodes, NEW n \in Nodes
  PROVE  /\ Fewer(K, Cut(K, p, n))
         /\ \A x \in Nodes : Cut(K, p, n)[x] =
              IF x \in SubOf(K)[n] THEN None
              ELSE IF x = p THEN Tree!Without(K[x], {n}) ELSE K[x]
<1>1. \A x \in Nodes : K[x] \in Rows /\ Apart(K[x])
  BY KidsApart
<1>2. None \in Rows /\ Apart(None) /\ Tree!Elems(None) = {}
  BY RowTypes
<1>3. \A x \in Nodes : /\ Tree!Without(K[x], {n}) \in Rows /\ Apart(Tree!Without(K[x], {n}))
                       /\ Tree!Elems(Tree!Without(K[x], {n})) = Tree!Elems(K[x]) \ {n}
  BY ONLY <1>1, WithoutTypes, WithoutApart, WithoutElems
<1>4. /\ Cut(K, p, n) \in [Nodes -> Rows]
      /\ \A x \in Nodes : Cut(K, p, n)[x] =
              IF x \in SubOf(K)[n] THEN None
              ELSE IF x = p THEN Tree!Without(K[x], {n}) ELSE K[x]
  BY ONLY <1>1, <1>2, <1>3 DEF Cut
<1> QED BY ONLY <1>1, <1>2, <1>3, <1>4 DEF Fewer

\* A state of the removing calls.
St(l, K, a) == [list |-> l, kids |-> K, alive |-> a]

LEMMA StateIs ==
  \A s \in Tree!States : /\ s.list \in Rows /\ Forest(s.kids) /\ s.alive \in SUBSET Nodes
                         /\ s = St(s.list, s.kids, s.alive)
BY DEF Tree!States, Forest, Rows, St

LEMMA StateTypes ==
  \A K : \A l \in Rows, a \in SUBSET Nodes :
    /\ St(l, K, a).list = l /\ St(l, K, a).kids = K /\ St(l, K, a).alive = a
    /\ Forest(K) => St(l, K, a) \in Tree!States
BY DEF Tree!States, Forest, Rows, St

\* s with the children K and without the nodes of X in the list.
Rid(s, K, X) == St(Tree!Without(s.list, X), K, s.alive \ (X \cap Tree!Elems(s.list)))

RidIs(s, K, X) ==
  /\ Rid(s, K, X).list = Tree!Without(s.list, X) /\ Rid(s, K, X).kids = K
  /\ Rid(s, K, X).alive = s.alive \ (X \cap Tree!Elems(s.list))
  /\ Forest(K) => Rid(s, K, X) \in Tree!States

LEMMA RidTypes == \A K, X : \A s \in Tree!States : RidIs(s, K, X)
<1> SUFFICES ASSUME NEW s \in Tree!States, NEW K, NEW X PROVE RidIs(s, K, X)
  OBVIOUS
<1>1. s.list \in Rows /\ s.alive \in SUBSET Nodes
  BY StateIs
<1>2. PICK l \in Rows : l = Tree!Without(s.list, X)
  BY <1>1, WithoutTypes
<1>3. PICK a \in SUBSET Nodes : a = s.alive \ (X \cap Tree!Elems(s.list))
  BY <1>1
<1>4. Rid(s, K, X) = St(l, K, a)
  BY ONLY <1>2, <1>3 DEF Rid
<1>5. /\ St(l, K, a).list = l /\ St(l, K, a).kids = K /\ St(l, K, a).alive = a
      /\ Forest(K) => St(l, K, a) \in Tree!States
  BY ONLY StateTypes, l \in Rows, a \in SUBSET Nodes
<1> QED BY ONLY <1>2, <1>3, <1>4, <1>5 DEF RidIs

LEMMA RidNone == \A s \in Tree!States : Rid(s, s.kids, {}) = s
<1> SUFFICES ASSUME NEW s \in Tree!States PROVE Rid(s, s.kids, {}) = s
  OBVIOUS
<1>1. s.list \in Rows /\ s = St(s.list, s.kids, s.alive)
  BY StateIs
<1>2. Tree!Without(s.list, {}) = s.list
  BY ONLY <1>1, WithoutOthers
<1>3. s.alive \ ({} \cap Tree!Elems(s.list)) = s.alive
  BY StateIs
<1> QED BY ONLY <1>1, <1>2, <1>3 DEF Rid

LEMMA RidTwice ==
  \A K, L, X, Y : \A s \in Tree!States : Rid(Rid(s, K, X), L, Y) = Rid(s, L, X \cup Y)
<1> SUFFICES ASSUME NEW s \in Tree!States, NEW K, NEW L, NEW X, NEW Y
             PROVE  Rid(Rid(s, K, X), L, Y) = Rid(s, L, X \cup Y)
  OBVIOUS
<1>1. PICK l \in Rows, a \in SUBSET Nodes : l = s.list /\ a = s.alive
  BY StateIs
<1>2. /\ Rid(s, K, X).list = Tree!Without(l, X)
      /\ Rid(s, K, X).alive = a \ (X \cap Tree!Elems(l))
  BY <1>1, RidTypes DEF RidIs
<1>3. Tree!Without(Tree!Without(l, X), Y) = Tree!Without(l, X \cup Y)
  BY ONLY WithoutTwice, l \in Rows
<1>4. Tree!Elems(Tree!Without(l, X)) = Tree!Elems(l) \ X
  BY ONLY WithoutElems, l \in Rows
<1>5. (a \ (X \cap Tree!Elems(l))) \ (Y \cap Tree!Elems(Tree!Without(l, X)))
        = a \ ((X \cup Y) \cap Tree!Elems(l))
  BY ONLY <1>4
<1> QED BY ONLY <1>1, <1>2, <1>3, <1>5 DEF Rid

LEMMA DroppedIs == \A s \in Tree!States, n \in Nodes : Tree!Dropped(s, n) = Rid(s, s.kids, {n})
<1> SUFFICES ASSUME NEW s \in Tree!States, NEW n \in Nodes
             PROVE  Tree!Dropped(s, n) = Rid(s, s.kids, {n})
  OBVIOUS
<1>1. s.list \in Rows /\ s = St(s.list, s.kids, s.alive) /\ s.alive \in SUBSET Nodes
  BY StateIs
<1>2. CASE n \notin Tree!Elems(s.list)
  <2>1. Tree!Without(s.list, {n}) = s.list
    BY ONLY <1>1, <1>2, WithoutOthers
  <2>2. s.alive \ ({n} \cap Tree!Elems(s.list)) = s.alive
    BY <1>1, <1>2
  <2>3. Tree!Dropped(s, n) = s
    BY ONLY <1>2 DEF Tree!Dropped
  <2> QED BY ONLY <1>1, <2>1, <2>2, <2>3 DEF Rid
<1>3. CASE n \in Tree!Elems(s.list)
  <2>1. s.alive \ ({n} \cap Tree!Elems(s.list)) = s.alive \ {n}
    BY <1>1, <1>3
  <2>2. Tree!Dropped(s, n) = [s EXCEPT !.list = Tree!Without(@, {n}), !.alive = @ \ {n}]
    BY ONLY <1>3 DEF Tree!Dropped
  <2>3. [s EXCEPT !.list = Tree!Without(@, {n}), !.alive = @ \ {n}]
          = St(Tree!Without(s.list, {n}), s.kids, s.alive \ {n})
    <3>1. PICK l, K, a : s = St(l, K, a)
      BY ONLY <1>1
    <3>2. s.list = l /\ s.kids = K /\ s.alive = a
      BY ONLY <3>1 DEF St
    <3>3. \A m : [St(l, K, a) EXCEPT !.list = m] = St(m, K, a)
      BY ONLY TRUE DEF St
    <3>4. \A m, b : [St(m, K, a) EXCEPT !.alive = b] = St(m, K, b)
      BY ONLY TRUE DEF St
    <3>5. PICK m, b : m = Tree!Without(s.list, {n}) /\ b = s.alive \ {n}
      OBVIOUS
    <3>6. [s EXCEPT !.list = Tree!Without(@, {n}), !.alive = @ \ {n}] = [s EXCEPT !.list = m, !.alive = b]
      BY ONLY <3>5
    <3>7. [s EXCEPT !.list = m, !.alive = b] = St(m, K, b)
      BY ONLY <3>1, <3>3, <3>4
    <3> QED BY ONLY <3>2, <3>5, <3>6, <3>7
  <2> QED BY ONLY <2>1, <2>2, <2>3 DEF Rid
<1> QED BY <1>2, <1>3

\* The nodes whose parent knows the view.
Known(K) == {x \in Nodes : \E q \in Nodes : q \in pTreeView /\ x \in Tree!Elems(K[q])}

\* What Emptied and NodeRemoveAt come to.
Bare(s, n) ==
  Rid(s, Shut(s.kids, SubOf(s.kids)[n]), {x \in SubOf(s.kids)[n] : x # n /\ x \in Known(s.kids)})
CutOff(s, p, n) ==
  IF n \notin Tree!Elems(s.kids[p]) THEN s
  ELSE Rid(s, Cut(s.kids, p, n), {x \in SubOf(s.kids)[n] : x \in Known(s.kids)})

LEMMA BareTypes ==
  \A s \in Tree!States, n \in Nodes :
    /\ Bare(s, n) \in Tree!States
    /\ Bare(s, n).kids = Shut(s.kids, SubOf(s.kids)[n]) /\ Fewer(s.kids, Bare(s, n).kids)
<1> SUFFICES ASSUME NEW s \in Tree!States, NEW n \in Nodes
             PROVE  /\ Bare(s, n) \in Tree!States
                    /\ Bare(s, n).kids = Shut(s.kids, SubOf(s.kids)[n])
                    /\ Fewer(s.kids, Bare(s, n).kids)
  OBVIOUS
<1>1. Forest(s.kids)
  BY StateIs
<1>2. PICK L : L = Shut(s.kids, SubOf(s.kids)[n])
  OBVIOUS
<1>3. Fewer(s.kids, L)
  BY ONLY <1>1, <1>2, ShutFewer
<1>4. Forest(L)
  BY ONLY <1>1, <1>3, FewerForest
<1>5. RidIs(s, L, {x \in SubOf(s.kids)[n] : x # n /\ x \in Known(s.kids)})
  BY RidTypes
<1> QED BY ONLY <1>2, <1>3, <1>4, <1>5 DEF Bare, RidIs

LEMMA CutOffTypes ==
  \A s \in Tree!States, p, n \in Nodes :
    /\ CutOff(s, p, n) \in Tree!States /\ Fewer(s.kids, CutOff(s, p, n).kids)
    /\ n \in Tree!Elems(s.kids[p]) => CutOff(s, p, n).kids = Cut(s.kids, p, n)
<1> SUFFICES ASSUME NEW s \in Tree!States, NEW p \in Nodes, NEW n \in Nodes
             PROVE  /\ CutOff(s, p, n) \in Tree!States /\ Fewer(s.kids, CutOff(s, p, n).kids)
                    /\ n \in Tree!Elems(s.kids[p]) => CutOff(s, p, n).kids = Cut(s.kids, p, n)
  OBVIOUS
<1>1. Forest(s.kids)
  BY StateIs
<1>2. PICK L : L = Cut(s.kids, p, n)
  OBVIOUS
<1>3. Fewer(s.kids, L)
  BY ONLY <1>1, <1>2, CutFewer, p \in Nodes, n \in Nodes
<1>4. Forest(L)
  BY ONLY <1>1, <1>3, FewerForest
<1>5. RidIs(s, L, {x \in SubOf(s.kids)[n] : x \in Known(s.kids)})
  BY RidTypes
<1>6. CASE n \in Tree!Elems(s.kids[p])
  BY ONLY <1>2, <1>3, <1>4, <1>5, <1>6 DEF CutOff, RidIs
<1>7. CASE n \notin Tree!Elems(s.kids[p])
  <2>1. CutOff(s, p, n) = s
    BY ONLY <1>7 DEF CutOff
  <2>2. Fewer(s.kids, s.kids)
    BY <1>1, KidsApart DEF Fewer, Forest
  <2> QED BY ONLY <1>7, <2>1, <2>2, s \in Tree!States
<1> QED BY ONLY <1>6, <1>7

\* When a child has left, its subtree has left that of the parent.
LEMMA SubCut ==
  ASSUME NEW K, Forest(K), NEW n \in Nodes, NEW c \in Tree!Elems(K[n])
  PROVE  Forest(Cut(K, n, c)) /\ SubOf(Cut(K, n, c))[n] = SubOf(K)[n] \ SubOf(K)[c]
<1>0. PICK Sub \in [Nodes -> SUBSET Nodes] : Sub = SubOf(K)
  BY SubIs
<1>1. c \in Nodes /\ n \notin Sub[c] /\ c # n
  BY <1>0, SubIs, SubOnce
<1>2. PICK L : L = Cut(K, n, c)
  OBVIOUS
<1>3. Fewer(K, L) /\ Forest(L)
  BY <1>1, <1>2, CutFewer, FewerForest
<1>4. \A x \in Nodes : L[x] = IF x \in Sub[c] THEN None
                              ELSE IF x = n THEN Tree!Without(K[x], {c}) ELSE K[x]
  BY ONLY <1>0, <1>2 DEF Cut
<1>5. \A x \in Nodes : Tree!Elems(L[x]) = IF x \in Sub[c] THEN {}
                              ELSE IF x = n THEN Tree!Elems(K[x]) \ {c} ELSE Tree!Elems(K[x])
  <2>1. \A x \in Nodes : K[x] \in Rows
    BY KidsApart
  <2> QED BY ONLY <1>4, <2>1, WithoutElems, RowTypes
<1>6. PICK Tub \in [Nodes -> SUBSET Nodes] : Tub = SubOf(L)
  BY <1>3, SubIs
<1>7. \A x \in Nodes : x \in Sub[x] /\ \A z \in Sub[x] : z \in Nodes /\ Tree!Elems(K[z]) \subseteq Sub[x]
  BY <1>0, SubHas
<1>8. \A x \in Nodes : x \in Tub[x] /\ \A z \in Tub[x] : z \in Nodes /\ Tree!Elems(L[z]) \subseteq Tub[x]
  BY ONLY <1>3, <1>6, SubHas
<1>9. \A y \in Sub[c] : y # c => \A q \in Nodes : y \in Tree!Elems(K[q]) => q \in Sub[c]
  BY <1>0, <1>1, SubParent
<1>10. \A p, q \in Nodes : p # q => Tree!Elems(K[p]) \cap Tree!Elems(K[q]) = {}
  BY DEF Forest, Tree!IsForest
<1>11. c \in Tree!Elems(K[n])
  OBVIOUS
<1>12. Tub[n] \subseteq Sub[n] \ Sub[c]
  <2> DEFINE C == Sub[n] \ Sub[c]
  <2>1. n \in C /\ C \in SUBSET Nodes
    BY ONLY <1>1, <1>7, n \in Nodes, Sub \in [Nodes -> SUBSET Nodes]
  <2>2. ASSUME NEW z \in C, NEW y \in Tree!Elems(L[z]) PROVE y \in C
    <3>1. z \in Nodes /\ z \in Sub[n] /\ z \notin Sub[c]
      BY <2>1
    <3>2. y \in Tree!Elems(K[z]) /\ (z = n => y # c)
      BY ONLY <1>5, <2>2, <3>1
    <3>3. y \in Sub[n] /\ y # c
      BY ONLY <1>7, <1>10, <1>11, <3>1, <3>2, n \in Nodes
    <3>4. y \notin Sub[c]
      BY ONLY <1>9, <3>1, <3>2, <3>3
    <3> QED BY ONLY <3>3, <3>4
  <2>3. \A z \in C : Tree!Elems(L[z]) \subseteq C
    BY <2>2
  <2> HIDE DEF C
  <2>4. SubOf(L)[n] \subseteq C
    BY ONLY <1>3, <2>1, <2>3, SubLeast
  <2> QED BY ONLY <1>6, <2>4 DEF C
<1>13. Sub[n] \subseteq Tub[n] \cup Sub[c]
  <2> DEFINE C == Tub[n] \cup Sub[c]
  <2>1. n \in C /\ C \in SUBSET Nodes
    BY ONLY <1>1, <1>8, n \in Nodes, Sub \in [Nodes -> SUBSET Nodes], Tub \in [Nodes -> SUBSET Nodes]
  <2>2. ASSUME NEW z \in C, NEW y \in Tree!Elems(K[z]) PROVE y \in C
    <3>1. CASE z \in Sub[c]
      BY ONLY <1>1, <1>7, <2>2, <3>1
    <3>2. CASE z \notin Sub[c]
      <4>1. z \in Tub[n] /\ z \in Nodes
        BY <2>1, <3>2
      <4>2. y \in Tree!Elems(L[z]) \/ y = c
        BY ONLY <1>5, <2>2, <3>2, <4>1
      <4> QED BY ONLY <1>1, <1>7, <1>8, <4>1, <4>2, n \in Nodes
    <3> QED BY <3>1, <3>2
  <2>3. \A z \in C : Tree!Elems(K[z]) \subseteq C
    BY <2>2
  <2> HIDE DEF C
  <2>4. SubOf(K)[n] \subseteq C
    BY ONLY <2>1, <2>3, SubLeast, Forest(K)
  <2> QED BY ONLY <1>0, <2>4 DEF C
<1> QED BY ONLY <1>0, <1>2, <1>3, <1>6, <1>12, <1>13

\* To take the children one by one comes to the same as to take them all.
LEMMA BareByOne ==
  ASSUME NEW s \in Tree!States, NEW n \in Nodes, NEW c \in Tree!Elems(s.kids[n])
  PROVE  Bare(CutOff(s, n, c), n) = Bare(s, n)
<1>1. PICK K : K = s.kids
  OBVIOUS
<1>2. Forest(K) /\ c \in Tree!Elems(K[n])
  BY <1>1, StateIs
<1>3. PICK Sub \in [Nodes -> SUBSET Nodes] : Sub = SubOf(K)
  BY <1>2, SubIs
<1>4. c \in Nodes /\ n \notin Sub[c] /\ c # n
  BY <1>2, <1>3, SubIs, SubOnce
<1>5. PICK L : L = Cut(K, n, c)
  OBVIOUS
<1>6. Forest(L) /\ SubOf(L)[n] = Sub[n] \ Sub[c]
  BY ONLY <1>2, <1>3, <1>5, SubCut, n \in Nodes
<1>7. \A x \in Nodes : L[x] = IF x \in Sub[c] THEN None
                              ELSE IF x = n THEN Tree!Without(K[x], {c}) ELSE K[x]
  BY ONLY <1>3, <1>5 DEF Cut
<1>8. \A x \in Nodes : x \in Sub[x] /\ \A z \in Sub[x] : z \in Nodes /\ Tree!Elems(K[z]) \subseteq Sub[x]
  BY ONLY <1>2, <1>3, SubHas
<1>9. Sub[c] \subseteq Sub[n] \ {n}
  <2>1. c \in Sub[n]
    BY ONLY <1>2, <1>8, n \in Nodes
  <2>2. SubOf(K)[c] \subseteq SubOf(K)[n]
    BY ONLY <1>2, <1>3, <2>1, SubHas, n \in Nodes
  <2> QED BY ONLY <1>3, <1>4, <2>2
<1> DEFINE X == {x \in Sub[c] : x \in Known(K)}
           Y == {x \in Sub[n] \ Sub[c] : x # n /\ x \in Known(L)}
           Z == {x \in Sub[n] : x # n /\ x \in Known(K)}
<1>10. X \cup Y = Z
  <2>1. \A x \in Nodes : K[x] \in Rows
    BY <1>2, KidsApart
  <2>2. \A x \in Nodes : Tree!Elems(L[x]) = IF x \in Sub[c] THEN {}
                              ELSE IF x = n THEN Tree!Elems(K[x]) \ {c} ELSE Tree!Elems(K[x])
    BY ONLY <1>7, <2>1, WithoutElems, RowTypes
  <2>3. \A x \in Nodes : x \notin Sub[c] => (x \in Known(L) <=> x \in Known(K))
    <3>1. ASSUME NEW x \in Nodes, x \notin Sub[c], NEW q \in Nodes, x \in Tree!Elems(K[q])
          PROVE  x \in Tree!Elems(L[q])
      <4>1. q \notin Sub[c] /\ x # c
        BY ONLY <1>4, <1>8, <3>1
      <4> QED BY ONLY <2>2, <3>1, <4>1
    <3>2. \A x, q \in Nodes : x \in Tree!Elems(L[q]) => x \in Tree!Elems(K[q])
      BY ONLY <2>2
    <3> QED BY ONLY <3>1, <3>2 DEF Known
  <2>4. Sub[n] \in SUBSET Nodes
    OBVIOUS
  <2> QED BY ONLY <1>9, <2>3, <2>4
<1>11. Shut(L, Sub[n] \ Sub[c]) = Shut(K, Sub[n])
  <2>1. \A x \in Nodes : (IF x \in Sub[n] \ Sub[c] THEN None ELSE L[x]) = (IF x \in Sub[n] THEN None ELSE K[x])
    BY ONLY <1>7, <1>8, <1>9, n \in Nodes
  <2> QED BY ONLY <2>1 DEF Shut
<1>12. CutOff(s, n, c) = Rid(s, L, X)
  BY ONLY <1>1, <1>2, <1>3, <1>5 DEF CutOff
<1> DEFINE t == Rid(s, L, X)
<1>13. t.kids = L
  BY RidTypes DEF RidIs
<1> HIDE DEF t, X, Y, Z
<1>14. Bare(t, n) = Rid(t, Shut(K, Sub[n]), Y)
  <2>1. Bare(t, n) = Rid(t, Shut(L, Sub[n] \ Sub[c]), {x \in Sub[n] \ Sub[c] : x # n /\ x \in Known(L)})
    BY ONLY <1>6, <1>13 DEF Bare
  <2> QED BY ONLY <1>11, <2>1 DEF Y
<1>15. Bare(s, n) = Rid(s, Shut(K, Sub[n]), Z)
  BY ONLY <1>1, <1>3 DEF Bare, Z
<1>16. Rid(t, Shut(K, Sub[n]), Y) = Rid(s, Shut(K, Sub[n]), X \cup Y)
  BY ONLY RidTwice, s \in Tree!States DEF t
<1> QED BY ONLY <1>10, <1>12, <1>14, <1>15, <1>16 DEF t

\* The child whose children are gone leaves its parent, and the list if the parent is shown.
Unlinked(s, p, n) == [Bare(s, n) EXCEPT !.kids[p] = Tree!Without(@, {n})]

UnlinkedIs(s, p, n, t) ==
  /\ t \in Tree!States /\ t.kids[n] = None
  /\ CutOff(s, p, n) = IF p \in pTreeView THEN Tree!Dropped(t, n) ELSE t

LEMMA CutOffFromBare ==
  ASSUME NEW s \in Tree!States, NEW p \in Nodes, NEW n \in Tree!Elems(s.kids[p])
  PROVE  UnlinkedIs(s, p, n, Unlinked(s, p, n))
<1>1. PICK K : K = s.kids
  OBVIOUS
<1>2. Forest(K) /\ n \in Tree!Elems(K[p])
  BY <1>1, StateIs
<1>3. PICK Sub \in [Nodes -> SUBSET Nodes] : Sub = SubOf(K)
  BY <1>2, SubIs
<1>4. n \in Nodes /\ p \notin Sub[n] /\ n # p /\ n \in Sub[n]
  BY <1>2, <1>3, SubIs, SubOnce
<1>5. PICK L : L = Cut(K, p, n)
  OBVIOUS
<1>6. Fewer(K, L) /\ Forest(L)
  BY <1>2, <1>4, <1>5, CutFewer, FewerForest
<1>7. \A x \in Nodes : L[x] = IF x \in Sub[n] THEN None
                              ELSE IF x = p THEN Tree!Without(K[x], {n}) ELSE K[x]
  BY ONLY <1>3, <1>5 DEF Cut
<1> DEFINE X == {x \in Sub[n] : x # n /\ x \in Known(K)}
           Y == {x \in Sub[n] : x \in Known(K)}
<1>8. Bare(s, n) = Rid(s, Shut(K, Sub[n]), X)
  BY ONLY <1>1, <1>3 DEF Bare
<1>9. [Shut(K, Sub[n]) EXCEPT ![p] = Tree!Without(@, {n})] = L
  <2>1. PICK M : M = Shut(K, Sub[n])
    OBVIOUS
  <2>2. M \in [Nodes -> Rows] /\ \A x \in Nodes : M[x] = IF x \in Sub[n] THEN None ELSE K[x]
    BY ONLY <1>2, <2>1, ShutFewer DEF Fewer
  <2>3. L \in [Nodes -> Rows]
    BY <1>6 DEF Fewer
  <2>4. PICK r : r = Tree!Without(M[p], {n})
    OBVIOUS
  <2>5. L[p] = r /\ \A x \in Nodes : x # p => L[x] = M[x]
    <3>1. M[p] = K[p] /\ L[p] = Tree!Without(K[p], {n})
      BY ONLY <1>4, <1>7, <2>2, p \in Nodes
    <3>2. \A x \in Nodes : x # p => L[x] = M[x]
      BY ONLY <1>7, <2>2
    <3> QED BY ONLY <2>4, <3>1, <3>2
  <2>6. [M EXCEPT ![p] = r] = L
    BY ONLY <2>2, <2>3, <2>5, p \in Nodes
  <2> QED BY ONLY <2>1, <2>4, <2>6
<1>11. \A l, M, a : St(l, M, a).kids = M
  BY ONLY TRUE DEF St
<1>12. Unlinked(s, p, n) = Rid(s, L, X)
  <2>1. PICK l, a : Rid(s, Shut(K, Sub[n]), X) = St(l, Shut(K, Sub[n]), a) /\ Rid(s, L, X) = St(l, L, a)
    BY ONLY TRUE DEF Rid
  <2>2. PICK m : m = Tree!Without(Shut(K, Sub[n])[p], {n})
    OBVIOUS
  <2>3. L = [Shut(K, Sub[n]) EXCEPT ![p] = m]
    BY ONLY <1>9, <2>2
  <2>4. Unlinked(s, p, n) = [St(l, Shut(K, Sub[n]), a) EXCEPT !.kids[p] = Tree!Without(@, {n})]
    BY ONLY <1>8, <2>1 DEF Unlinked
  <2>5. [St(l, Shut(K, Sub[n]), a) EXCEPT !.kids[p] = Tree!Without(@, {n})]
          = [St(l, Shut(K, Sub[n]), a) EXCEPT !.kids[p] = m]
    BY ONLY <1>11, <2>2
  <2>6. \A M : [St(l, M, a) EXCEPT !.kids[p] = m] = St(l, [M EXCEPT ![p] = m], a)
    BY ONLY TRUE DEF St
  <2>7. [St(l, Shut(K, Sub[n]), a) EXCEPT !.kids[p] = m] = St(l, L, a)
    BY ONLY <2>3, <2>6
  <2> HIDE DEF X
  <2> QED BY ONLY <2>1, <2>4, <2>5, <2>7
<1> DEFINE t == Rid(s, L, X)
<1>13. t \in Tree!States /\ t.kids = L
  BY <1>6, RidTypes DEF RidIs
<1>14. t.kids[n] = None
  BY ONLY <1>4, <1>7, <1>13
<1>15. CutOff(s, p, n) = Rid(s, L, Y)
  BY ONLY <1>1, <1>2, <1>3, <1>5 DEF CutOff
<1>16. CASE p \in pTreeView
  <2>1. n \in Known(K)
    BY ONLY <1>2, <1>4, <1>16, p \in Nodes DEF Known
  <2>2. X \cup {n} = Y
    BY ONLY <1>4, <2>1
  <2>3. Tree!Dropped(t, n) = Rid(t, L, {n})
    BY ONLY <1>4, <1>13, DroppedIs
  <2>4. Rid(Rid(s, L, X), L, {n}) = Rid(s, L, X \cup {n})
    BY ONLY RidTwice, s \in Tree!States
  <2> QED BY ONLY <1>12, <1>13, <1>14, <1>15, <1>16, <2>2, <2>3, <2>4 DEF UnlinkedIs
<1>17. CASE p \notin pTreeView
  <2>1. \A q \in Nodes : q # p => Tree!Elems(K[p]) \cap Tree!Elems(K[q]) = {}
    BY <1>2 DEF Forest, Tree!IsForest
  <2>2. n \notin Known(K)
    BY ONLY <1>2, <1>17, <2>1 DEF Known
  <2>3. X = Y
    BY ONLY <2>2
  <2> QED BY ONLY <1>12, <1>13, <1>14, <1>15, <1>17, <2>3 DEF UnlinkedIs
<1> QED BY <1>16, <1>17

-----------------------------------------------------------------------------
(* The calls that remove: After is a solution of its equation, since what  *)
(* was found above is one, and comes to the same.                          *)

LEMMA CallTypes ==
  \A s \in Tree!States, p, n \in Nodes :
    /\ Tree!NodeRemoveAt(s, p, n) \in Tree!Calls
    /\ Tree!Emptied(s, n) \in Tree!Calls /\ Tree!ViewRemove(s, n) \in Tree!Calls
BY DEF Tree!NodeRemoveAt, Tree!Emptied, Tree!ViewRemove, Tree!Calls

LEMMA CallFields ==
  \A call \in Tree!Calls :
    /\ call.s \in Tree!States /\ call.p \in Nodes /\ call.n \in Nodes
    /\ call.do \in {"NodeRemoveAt", "Emptied", "ViewRemove"}
BY DEF Tree!Calls

\* The children one by one from the state s, where g gives what removing one leaves.
VisitsBy(e, s, n, g) ==
  e = [k \in 0..Len(s.kids[n]) |->
         IF k = 0 THEN s
         ELSE IF k <= Len(e[k - 1].kids[n])
              THEN g[Tree!NodeRemoveAt(e[k - 1], n, e[k - 1].kids[n][k])] ELSE e[k - 1]]

LEMMA VisitChosen ==
  ASSUME NEW s, NEW n, NEW g
  PROVE  Tree!AfterViewRemove(g, s, n) = Tree!Dropped((CHOOSE e : VisitsBy(e, s, n, g))[Len(s.kids[n])], n)
BY DEF Tree!AfterViewRemove, VisitsBy

\* No child and one child.
LEMMA VisitNone ==
  ASSUME NEW s \in Tree!States, NEW n \in Nodes, NEW g, s.kids[n] = None
  PROVE  Tree!AfterViewRemove(g, s, n) = Tree!Dropped(s, n)
<1>1. Len(s.kids[n]) = 0
  BY RowLen, RowTypes
<1> DEFINE d == [k \in 0..0 |-> s]
<1>2. VisitsBy(d, s, n, g)
  BY ONLY <1>1 DEF VisitsBy
<1>3. PICK e : e = CHOOSE f : VisitsBy(f, s, n, g)
  OBVIOUS
<1>4. VisitsBy(e, s, n, g)
  BY ONLY <1>2, <1>3
<1>5. e[0] = s
  BY ONLY <1>1, <1>4 DEF VisitsBy
<1> QED BY ONLY <1>1, <1>3, <1>5, VisitChosen

LEMMA VisitOne ==
  ASSUME NEW s \in Tree!States, NEW n \in Nodes, NEW g, NEW c \in Nodes, s.kids[n] = One(c)
  PROVE  Tree!AfterViewRemove(g, s, n) = Tree!Dropped(g[Tree!NodeRemoveAt(s, n, c)], n)
<1>1. Len(s.kids[n]) = 1
  BY RowLen
<1>2. s.kids[n][1] = c
  BY DEF One
<1>3. PICK v : v = g[Tree!NodeRemoveAt(s, n, c)]
  OBVIOUS
<1> DEFINE d == [k \in 0..1 |-> IF k = 0 THEN s ELSE v]
<1>4. d[0] = s /\ d[1] = v
  OBVIOUS
<1>5. VisitsBy(d, s, n, g)
  <2>1. \A k \in 0..1 : d[k] = IF k = 0 THEN s
         ELSE IF k <= Len(d[k - 1].kids[n])
              THEN g[Tree!NodeRemoveAt(d[k - 1], n, d[k - 1].kids[n][k])] ELSE d[k - 1]
    <3>1. d[0] = s /\ d[1 - 1] = s /\ d[1] = v
      OBVIOUS
    <3>2. \A k \in 0..1 : k = 0 \/ k = 1
      OBVIOUS
    <3> HIDE DEF d
    <3>3. d[1] = IF 1 <= Len(d[1 - 1].kids[n])
                 THEN g[Tree!NodeRemoveAt(d[1 - 1], n, d[1 - 1].kids[n][1])] ELSE d[1 - 1]
      BY ONLY <1>1, <1>2, <1>3, <3>1
    <3> QED BY ONLY <3>1, <3>2, <3>3
  <2>2. d = [k \in 0..1 |-> d[k]]
    OBVIOUS
  <2> HIDE DEF d
  <2> QED BY ONLY <1>1, <2>1, <2>2 DEF VisitsBy
<1>6. PICK e : e = CHOOSE f : VisitsBy(f, s, n, g)
  OBVIOUS
<1>7. VisitsBy(e, s, n, g)
  <2> HIDE DEF d
  <2> QED BY ONLY <1>5, <1>6
<1>8. e[0] = s
  BY ONLY <1>1, <1>7 DEF VisitsBy
<1>9. e[1] = IF 1 <= Len(e[0].kids[n]) THEN g[Tree!NodeRemoveAt(e[0], n, e[0].kids[n][1])] ELSE e[0]
  <2>1. 1 - 1 = 0 /\ 1 \in 0..1 /\ 1 # 0
    OBVIOUS
  <2> QED BY ONLY <1>1, <1>7, <2>1 DEF VisitsBy
<1>10. e[1] = v
  BY ONLY <1>1, <1>2, <1>3, <1>8, <1>9
<1> QED BY ONLY <1>1, <1>3, <1>6, <1>10, VisitChosen

\* The same with what removing one was found to leave.
Visited(t, n, k) == IF k <= Len(t.kids[n]) THEN CutOff(t, n, t.kids[n][k]) ELSE t
Visit(e, s, n) ==
  /\ e \in [0..Len(s.kids[n]) -> Tree!States]
  /\ e[0] = s
  /\ \A k \in 1..Len(s.kids[n]) : e[k] = Visited(e[k - 1], n, k)
VisitOf(s, n) == CHOOSE e : Visit(e, s, n)

LEMMA VisitedTypes ==
  \A t \in Tree!States, n \in Nodes, k \in Nat \ {0} :
    /\ Visited(t, n, k) \in Tree!States
    /\ k <= Len(t.kids[n]) => t.kids[n][k] \in Nodes
<1> SUFFICES ASSUME NEW t \in Tree!States, NEW n \in Nodes, NEW k \in Nat \ {0}
             PROVE  /\ Visited(t, n, k) \in Tree!States
                    /\ k <= Len(t.kids[n]) => t.kids[n][k] \in Nodes
  OBVIOUS
<1>1. t.kids[n] \in Seq(Nodes)
  BY StateIs DEF Forest, Rows
<1>2. PICK r \in Seq(Nodes) : r = t.kids[n]
  BY <1>1
<1>3. k <= Len(r) => r[k] \in Nodes
  OBVIOUS
<1>4. k <= Len(t.kids[n]) => CutOff(t, n, t.kids[n][k]) \in Tree!States
  BY <1>2, <1>3, CutOffTypes
<1> QED BY ONLY <1>2, <1>3, <1>4, t \in Tree!States DEF Visited

LEMMA VisitExists ==
  ASSUME NEW s \in Tree!States, NEW n \in Nodes
  PROVE  Visit(VisitOf(s, n), s, n) /\ Len(s.kids[n]) \in Nat
<1>1. s.kids[n] \in Rows
  BY StateIs DEF Forest
<1>2. PICK m \in Nat : m = Len(s.kids[n])
  BY <1>1, RowLen
<1> DEFINE step == [k \in Nat |-> [t \in Tree!States |-> IF k = 0 THEN t ELSE Visited(t, n, k)]]
<1>3. step \in [Nat -> [Tree!States -> Tree!States]]
  <2>1. \A k \in Nat, t \in Tree!States : (IF k = 0 THEN t ELSE Visited(t, n, k)) \in Tree!States
    BY VisitedTypes
  <2> QED BY ONLY <2>1
<1>4. \A k \in 1..m, t \in Tree!States : step[k][t] = Visited(t, n, k)
  OBVIOUS
<1> HIDE DEF step
<1>5. PICK e : Recurs(e, Tree!States, s, step, m)
  BY ONLY <1>3, s \in Tree!States, m \in Nat, RecursionExists
<1>6. e \in [0..m -> Tree!States] /\ e[0] = s /\ \A k \in 1..m : e[k] = step[k][e[k - 1]]
  BY ONLY <1>5 DEF Recurs
<1>7. \A k \in 1..m : e[k] = Visited(e[k - 1], n, k)
  <2>1. \A k \in 1..m : k - 1 \in 0..m
    OBVIOUS
  <2> QED BY ONLY <1>4, <1>6, <2>1
<1>8. Visit(e, s, n)
  BY ONLY <1>2, <1>6, <1>7 DEF Visit
<1>9. Visit(VisitOf(s, n), s, n)
  BY ONLY <1>8 DEF VisitOf
<1> QED BY ONLY <1>2, <1>9

\* A loop whose calls leave what was found.
LEMMA VisitIs ==
  ASSUME NEW s \in Tree!States, NEW n \in Nodes, NEW g,
         \A t \in Tree!States, m \in Nodes : g[Tree!NodeRemoveAt(t, n, m)] = CutOff(t, n, m)
  PROVE  Tree!AfterViewRemove(g, s, n) = Tree!Dropped(VisitOf(s, n)[Len(s.kids[n])], n)
<1>0. PICK d : d = VisitOf(s, n)
  OBVIOUS
<1>1. PICK m \in Nat : m = Len(s.kids[n])
  BY VisitExists
<1>2. d \in [0..m -> Tree!States] /\ d[0] = s /\ \A k \in 1..m : d[k] = Visited(d[k - 1], n, k)
  BY <1>0, <1>1, VisitExists DEF Visit
<1> DEFINE by(t, k) == IF k <= Len(t.kids[n]) THEN g[Tree!NodeRemoveAt(t, n, t.kids[n][k])] ELSE t
<1>3. \A t \in Tree!States, k \in 1..m : by(t, k) = Visited(t, n, k)
  BY VisitedTypes DEF Visited
<1>4. \A e : VisitsBy(e, s, n, g) <=> e = [k \in 0..m |-> IF k = 0 THEN s ELSE by(e[k - 1], k)]
  BY ONLY <1>1 DEF VisitsBy
<1> HIDE DEF by
<1>5. VisitsBy(d, s, n, g)
  <2>1. \A k \in 0..m : d[k] = IF k = 0 THEN s ELSE by(d[k - 1], k)
    <3>1. \A k \in 0..m : k = 0 \/ (k \in 1..m /\ k - 1 \in 0..m)
      OBVIOUS
    <3>2. \A k \in 1..m : k # 0
      OBVIOUS
    <3> QED BY ONLY <1>2, <1>3, <3>1, <3>2
  <2>2. d = [k \in 0..m |-> IF k = 0 THEN s ELSE by(d[k - 1], k)]
    BY ONLY <1>2, <2>1
  <2> QED BY ONLY <1>4, <2>2
<1>6. PICK e : e = CHOOSE f : VisitsBy(f, s, n, g)
  OBVIOUS
<1>7. e = [k \in 0..m |-> IF k = 0 THEN s ELSE by(e[k - 1], k)]
  BY ONLY <1>4, <1>5, <1>6
<1> DEFINE S == {k \in 0..m : e[k] = d[k]}
<1>8. 0 \in S
  BY ONLY <1>2, <1>7, m \in Nat
<1>9. ASSUME NEW k \in 0..(m - 1), k \in S PROVE k + 1 \in S
  <2>1. k + 1 \in 0..m /\ k + 1 \in 1..m /\ k + 1 # 0 /\ (k + 1) - 1 = k /\ k \in 0..m
    OBVIOUS
  <2>2. e[k] = d[k] /\ d[k] \in Tree!States
    BY <1>2, <1>9, <2>1
  <2>3. e[k + 1] = by(e[k], k + 1)
    BY ONLY <1>7, <2>1
  <2>4. d[k + 1] = Visited(d[k], n, k + 1)
    BY ONLY <1>2, <2>1
  <2>5. e[k + 1] = d[k + 1]
    BY ONLY <1>3, <2>1, <2>2, <2>3, <2>4
  <2> QED BY ONLY <2>1, <2>5
<1> HIDE DEF S
<1>10. \A k \in 0..m : k \in S
  BY ONLY <1>8, <1>9, m \in Nat, UpTo
<1>11. e[m] = d[m]
  BY <1>10 DEF S
<1> QED BY ONLY <1>0, <1>1, <1>6, <1>11, VisitChosen

\* What each call comes to.
Came ==
  [call \in Tree!Calls |->
     IF call.do = "NodeRemoveAt" THEN CutOff(call.s, call.p, call.n)
     ELSE IF call.do = "Emptied" THEN Bare(call.s, call.n)
     ELSE Tree!Dropped(VisitOf(call.s, call.n)[Len(call.s.kids[call.n])], call.n)]

LEMMA CameIs ==
  \A s \in Tree!States, p, n \in Nodes :
    /\ Came[Tree!NodeRemoveAt(s, p, n)] = CutOff(s, p, n)
    /\ Came[Tree!Emptied(s, n)] = Bare(s, n)
    /\ Came[Tree!ViewRemove(s, n)] = Tree!Dropped(VisitOf(s, n)[Len(s.kids[n])], n)
<1> SUFFICES ASSUME NEW s \in Tree!States, NEW p \in Nodes, NEW n \in Nodes
             PROVE  /\ Came[Tree!NodeRemoveAt(s, p, n)] = CutOff(s, p, n)
                    /\ Came[Tree!Emptied(s, n)] = Bare(s, n)
                    /\ Came[Tree!ViewRemove(s, n)] = Tree!Dropped(VisitOf(s, n)[Len(s.kids[n])], n)
  OBVIOUS
<1>1. PICK a \in Tree!Calls : a = Tree!NodeRemoveAt(s, p, n)
  BY CallTypes
<1>2. a.do = "NodeRemoveAt" /\ a.s = s /\ a.p = p /\ a.n = n
  BY ONLY <1>1 DEF Tree!NodeRemoveAt
<1>3. PICK b \in Tree!Calls : b = Tree!Emptied(s, n)
  BY CallTypes
<1>4. b.do = "Emptied" /\ b.s = s /\ b.n = n
  BY ONLY <1>3 DEF Tree!Emptied
<1>5. PICK c \in Tree!Calls : c = Tree!ViewRemove(s, n)
  BY CallTypes
<1>6. c.do = "ViewRemove" /\ c.s = s /\ c.n = n
  BY ONLY <1>5 DEF Tree!ViewRemove
<1>7. Came[a] = CutOff(s, p, n)
  BY ONLY <1>2, a \in Tree!Calls DEF Came
<1>8. Came[b] = Bare(s, n)
  BY ONLY <1>4, b \in Tree!Calls DEF Came
<1>9. Came[c] = Tree!Dropped(VisitOf(s, n)[Len(s.kids[n])], n)
  BY ONLY <1>6, c \in Tree!Calls DEF Came
<1> QED BY ONLY <1>1, <1>3, <1>5, <1>7, <1>8, <1>9

\* The state after a call, by the states after the calls that it makes.
AfterCall(after, call) ==
  CASE call.do = "NodeRemoveAt" -> Tree!AfterRemoveAt(after, call.s, call.p, call.n)
    [] call.do = "Emptied" -> Tree!AfterEmptied(after, call.s, call.n)
    [] call.do = "ViewRemove" -> Tree!AfterViewRemove(after, call.s, call.n)

LEMMA AfterChosen == Tree!After = CHOOSE f : f = [call \in Tree!Calls |-> AfterCall(f, call)]
BY DEF Tree!After, AfterCall

LEMMA FirstChild ==
  ASSUME NEW s \in Tree!States, NEW n \in Nodes, s.kids[n] # None
  PROVE  Head(s.kids[n]) \in Nodes /\ Head(s.kids[n]) \in Tree!Elems(s.kids[n])
<1>1. PICK r \in Seq(Nodes) : r = s.kids[n]
  BY StateIs DEF Forest, Rows
<1>2. r # <<>>
  BY <1>1 DEF None
<1>3. Len(r) \in Nat /\ Len(r) > 0
  BY <1>2, EmptySeq
<1>4. Head(r) = r[1] /\ 1 \in DOMAIN r /\ r[1] \in Nodes
  BY <1>2, <1>3
<1>5. Head(r) \in Tree!Elems(r)
  BY ONLY <1>4 DEF Tree!Elems
<1> QED BY <1>1, <1>4, <1>5

\* The child at the head is the first to leave.
LEMMA AfterEmptiedIs ==
  ASSUME NEW g, NEW s \in Tree!States, NEW n \in Nodes
  PROVE  /\ s.kids[n] = None => Tree!AfterEmptied(g, s, n) = s
         /\ s.kids[n] # None => Tree!AfterEmptied(g, s, n)
              = g[Tree!Emptied(g[Tree!NodeRemoveAt(s, n, Head(s.kids[n]))], n)]
BY DEF Tree!AfterEmptied, None

LEMMA BareNone ==
  ASSUME NEW s \in Tree!States, NEW n \in Nodes, s.kids[n] = None
  PROVE  Bare(s, n) = s
<1>1. PICK K : K = s.kids
  OBVIOUS
<1>2. Forest(K) /\ K[n] = None
  BY <1>1, StateIs
<1>3. PICK Sub \in [Nodes -> SUBSET Nodes] : Sub = SubOf(K)
  BY <1>2, SubIs
<1>4. Tree!Elems(K[n]) = {}
  BY <1>2, RowTypes
<1>5. Sub[n] = {n}
  BY ONLY <1>2, <1>3, <1>4, SubIs, n \in Nodes
<1>6. Shut(K, Sub[n]) = K
  <2>1. K \in [Nodes -> Rows]
    BY <1>2 DEF Forest
  <2>2. \A x \in Nodes : (IF x \in Sub[n] THEN None ELSE K[x]) = K[x]
    BY ONLY <1>2, <1>5
  <2> QED BY ONLY <2>1, <2>2 DEF Shut
<1>7. {x \in Sub[n] : x # n /\ x \in Known(K)} = {}
  BY ONLY <1>5
<1>8. Bare(s, n) = Rid(s, K, {})
  BY ONLY <1>1, <1>3, <1>6, <1>7 DEF Bare
<1> QED BY ONLY <1>1, <1>8, RidNone, s \in Tree!States

\* It is a solution.
LEMMA CameSolves == Came = [call \in Tree!Calls |-> AfterCall(Came, call)]
<1>1. \A t \in Tree!States, m, n \in Nodes : Came[Tree!NodeRemoveAt(t, n, m)] = CutOff(t, n, m)
  BY CameIs
<1>2. ASSUME NEW s \in Tree!States, NEW n \in Nodes
      PROVE  Tree!AfterEmptied(Came, s, n) = Bare(s, n)
  <2>1. CASE s.kids[n] = None
    BY <2>1, AfterEmptiedIs, BareNone
  <2>2. CASE s.kids[n] # None
    <3>1. PICK c \in Nodes : c = Head(s.kids[n]) /\ c \in Tree!Elems(s.kids[n])
      BY <2>2, FirstChild
    <3>2. PICK t \in Tree!States : t = CutOff(s, n, c)
      BY CutOffTypes
    <3>3. Tree!AfterEmptied(Came, s, n) = Came[Tree!Emptied(t, n)]
      BY <1>1, <2>2, <3>1, <3>2, AfterEmptiedIs
    <3>4. Came[Tree!Emptied(t, n)] = Bare(t, n)
      BY ONLY CameIs, t \in Tree!States, n \in Nodes
    <3>5. Bare(t, n) = Bare(s, n)
      BY ONLY <3>1, <3>2, BareByOne, s \in Tree!States, n \in Nodes
    <3> QED BY ONLY <3>3, <3>4, <3>5
  <2> QED BY <2>1, <2>2
<1>3. ASSUME NEW s \in Tree!States, NEW p \in Nodes, NEW n \in Nodes
      PROVE  Tree!AfterRemoveAt(Came, s, p, n) = CutOff(s, p, n)
  <2>1. CASE n \notin Tree!Elems(s.kids[p])
    BY ONLY <2>1 DEF Tree!AfterRemoveAt, CutOff
  <2>2. CASE n \in Tree!Elems(s.kids[p])
    <3>1. PICK t : t = Unlinked(s, p, n)
      OBVIOUS
    <3>2. UnlinkedIs(s, p, n, t)
      BY ONLY <2>2, <3>1, CutOffFromBare, s \in Tree!States, p \in Nodes
    <3>3. Came[Tree!Emptied(s, n)] = Bare(s, n)
      BY CameIs
    <3>4. Tree!AfterRemoveAt(Came, s, p, n) = IF p \in pTreeView THEN Came[Tree!ViewRemove(t, n)] ELSE t
      BY ONLY <2>2, <3>1, <3>3 DEF Tree!AfterRemoveAt, Unlinked
    <3>5. t \in Tree!States /\ t.kids[n] = None
      BY ONLY <3>2 DEF UnlinkedIs
    <3>6. Len(t.kids[n]) = 0
      BY ONLY <3>5, RowLen, RowTypes
    <3>7. VisitOf(t, n)[0] = t
      BY <3>5, <3>6, VisitExists DEF Visit
    <3>8. Came[Tree!ViewRemove(t, n)] = Tree!Dropped(t, n)
      BY ONLY <3>5, <3>6, <3>7, CameIs, n \in Nodes
    <3> QED BY ONLY <3>2, <3>4, <3>8 DEF UnlinkedIs
  <2> QED BY <2>1, <2>2
<1>4. ASSUME NEW s \in Tree!States, NEW n \in Nodes
      PROVE  Tree!AfterViewRemove(Came, s, n) = Tree!Dropped(VisitOf(s, n)[Len(s.kids[n])], n)
  BY ONLY <1>1, VisitIs, s \in Tree!States, n \in Nodes
<1>5. ASSUME NEW call \in Tree!Calls PROVE Came[call] = AfterCall(Came, call)
  <2>1. PICK s \in Tree!States, p \in Nodes, n \in Nodes : s = call.s /\ p = call.p /\ n = call.n
    BY CallFields
  <2>2. Came[call] = IF call.do = "NodeRemoveAt" THEN CutOff(s, p, n)
                     ELSE IF call.do = "Emptied" THEN Bare(s, n)
                     ELSE Tree!Dropped(VisitOf(s, n)[Len(s.kids[n])], n)
    BY ONLY <2>1, call \in Tree!Calls DEF Came
  <2>3. AfterCall(Came, call) =
          CASE call.do = "NodeRemoveAt" -> CutOff(s, p, n)
            [] call.do = "Emptied" -> Bare(s, n)
            [] call.do = "ViewRemove" -> Tree!Dropped(VisitOf(s, n)[Len(s.kids[n])], n)
    BY ONLY <1>2, <1>3, <1>4, <2>1 DEF AfterCall
  <2>4. call.do = "NodeRemoveAt" \/ call.do = "Emptied" \/ call.do = "ViewRemove"
    BY CallFields
  <2> QED BY ONLY <2>2, <2>3, <2>4
<1>6. Came = [call \in Tree!Calls |-> Came[call]]
  BY ONLY TRUE DEF Came
<1> QED BY ONLY <1>5, <1>6

LEMMA AfterIs ==
  \A s \in Tree!States, p, n \in Nodes :
    /\ Tree!After[Tree!NodeRemoveAt(s, p, n)] = Tree!AfterRemoveAt(Tree!After, s, p, n)
    /\ Tree!After[Tree!Emptied(s, n)] = Tree!AfterEmptied(Tree!After, s, n)
    /\ Tree!After[Tree!ViewRemove(s, n)] = Tree!AfterViewRemove(Tree!After, s, n)
<1>1. PICK f : f = Tree!After
  OBVIOUS
<1>2. f = CHOOSE g : g = [call \in Tree!Calls |-> AfterCall(g, call)]
  BY ONLY <1>1, AfterChosen
<1>3. f = [call \in Tree!Calls |-> AfterCall(f, call)]
  BY ONLY <1>2, CameSolves
<1> SUFFICES ASSUME NEW s \in Tree!States, NEW p \in Nodes, NEW n \in Nodes
             PROVE  /\ f[Tree!NodeRemoveAt(s, p, n)] = Tree!AfterRemoveAt(f, s, p, n)
                    /\ f[Tree!Emptied(s, n)] = Tree!AfterEmptied(f, s, n)
                    /\ f[Tree!ViewRemove(s, n)] = Tree!AfterViewRemove(f, s, n)
  BY <1>1
<1>4. PICK a \in Tree!Calls, b \in Tree!Calls, c \in Tree!Calls :
        a = Tree!NodeRemoveAt(s, p, n) /\ b = Tree!Emptied(s, n) /\ c = Tree!ViewRemove(s, n)
  BY CallTypes
<1>5. f[a] = AfterCall(f, a) /\ f[b] = AfterCall(f, b) /\ f[c] = AfterCall(f, c)
  BY ONLY <1>3, a \in Tree!Calls, b \in Tree!Calls, c \in Tree!Calls
<1>6. AfterCall(f, a) = Tree!AfterRemoveAt(f, s, p, n)
  <2>1. a.do = "NodeRemoveAt" /\ a.s = s /\ a.p = p /\ a.n = n
    BY ONLY <1>4 DEF Tree!NodeRemoveAt
  <2> QED BY ONLY <2>1 DEF AfterCall
<1>7. AfterCall(f, b) = Tree!AfterEmptied(f, s, n)
  <2>1. b.do = "Emptied" /\ b.s = s /\ b.n = n
    BY ONLY <1>4 DEF Tree!Emptied
  <2> QED BY ONLY <2>1 DEF AfterCall
<1>8. AfterCall(f, c) = Tree!AfterViewRemove(f, s, n)
  <2>1. c.do = "ViewRemove" /\ c.s = s /\ c.n = n
    BY ONLY <1>4 DEF Tree!ViewRemove
  <2> QED BY ONLY <2>1 DEF AfterCall
<1> QED BY ONLY <1>4, <1>5, <1>6, <1>7, <1>8

LEMMA FewerSelf ==
  ASSUME NEW K, Forest(K)
  PROVE  Fewer(K, K)
BY KidsApart DEF Fewer, Forest

LEMMA FewerChain ==
  ASSUME NEW K, NEW L, Fewer(K, L), NEW M, Fewer(L, M)
  PROVE  Fewer(K, M)
BY DEF Fewer

\* The calls for n come to what was found, from each state with no more children than K.
Goes(K, n) ==
  \A s \in Tree!States : Fewer(K, s.kids) =>
    /\ Tree!After[Tree!Emptied(s, n)] = Bare(s, n)
    /\ \A p \in Nodes : Tree!After[Tree!NodeRemoveAt(s, p, n)] = CutOff(s, p, n)

\* The loop over the children of n, if the calls for them come to what was found.
LEMMA EmptiedIs ==
  ASSUME NEW K, Forest(K), NEW n \in Nodes, \A c \in Tree!Elems(K[n]) : Goes(K, c),
         NEW u \in Tree!States, Fewer(K, u.kids)
  PROVE  Tree!After[Tree!Emptied(u, n)] = Bare(u, n)
<1> DEFINE S == {k \in Nat : \A s \in Tree!States : Fewer(K, s.kids) /\ Len(s.kids[n]) <= k =>
                               Tree!After[Tree!Emptied(s, n)] = Bare(s, n)}
<1>1. \A s \in Tree!States : s.kids[n] \in Rows /\ Len(s.kids[n]) \in Nat
  BY StateIs, RowLen DEF Forest
<1>2. ASSUME NEW s \in Tree!States, s.kids[n] = None
      PROVE  Tree!After[Tree!Emptied(s, n)] = Bare(s, n)
  <2>1. Tree!After[Tree!Emptied(s, n)] = Tree!AfterEmptied(Tree!After, s, n)
    BY AfterIs
  <2> QED BY <1>2, <2>1, AfterEmptiedIs, BareNone
<1>3. 0 \in S
  <2>1. ASSUME NEW s \in Tree!States, Len(s.kids[n]) <= 0 PROVE s.kids[n] = None
    <3>1. PICK r \in Rows : r = s.kids[n]
      BY <1>1
    <3>2. Len(r) \in Nat /\ Len(r) <= 0
      BY <2>1, <3>1, RowLen
    <3>3. Len(r) = 0
      BY ONLY <3>2
    <3> QED BY ONLY <3>1, <3>3, RowLen
  <2> QED BY <1>2, <2>1
<1>4. ASSUME NEW k \in Nat, k \in S PROVE k + 1 \in S
  <2> SUFFICES ASSUME NEW s \in Tree!States, Fewer(K, s.kids), Len(s.kids[n]) <= k + 1
               PROVE  Tree!After[Tree!Emptied(s, n)] = Bare(s, n)
    OBVIOUS
  <2>1. CASE s.kids[n] = None
    BY <1>2, <2>1
  <2>2. CASE s.kids[n] # None
    <3>1. PICK c \in Nodes : c = Head(s.kids[n]) /\ c \in Tree!Elems(s.kids[n])
      BY <2>2, FirstChild
    <3>2. PICK t \in Tree!States : t = CutOff(s, n, c)
      BY CutOffTypes
    <3>3. Fewer(K, t.kids)
      <4>1. Fewer(s.kids, t.kids)
        BY <3>2, CutOffTypes
      <4> QED BY ONLY <4>1, FewerChain, Fewer(K, s.kids)
    <3>4. Tree!After[Tree!NodeRemoveAt(s, n, c)] = t
      <4>1. c \in Tree!Elems(K[n])
        BY <3>1 DEF Fewer
      <4>2. Goes(K, c)
        BY <4>1
      <4> QED BY ONLY <3>2, <4>2, Fewer(K, s.kids), s \in Tree!States, n \in Nodes DEF Goes
    <3>5. Len(t.kids[n]) <= k
      <4>1. PICK L : L = s.kids
        OBVIOUS
      <4>2. Forest(L) /\ c \in Tree!Elems(L[n])
        BY <3>1, <4>1, StateIs
      <4>3. t.kids = Cut(L, n, c)
        BY ONLY <3>1, <3>2, <4>1, CutOffTypes, s \in Tree!States, n \in Nodes
      <4>4. n \notin SubOf(L)[c]
        BY <4>2, SubOnce
      <4>5. t.kids[n] = Tree!Without(L[n], {c})
        BY ONLY <4>3, <4>4, n \in Nodes DEF Cut
      <4>6. L[n] \in Rows /\ Apart(L[n])
        BY <4>2, KidsApart
      <4>7. PICK i \in Nat, j \in Nat : i = Len(L[n]) /\ j = Len(Tree!Without(L[n], {c})) /\ j < i
        BY <4>2, <4>6, WithoutShorter
      <4>8. i <= k + 1
        BY <4>1, <4>7
      <4> QED BY ONLY <4>5, <4>7, <4>8, k \in Nat
    <3>6. Tree!After[Tree!Emptied(t, n)] = Bare(t, n)
      BY <1>4, <3>3, <3>5
    <3>7. Tree!After[Tree!Emptied(s, n)] = Tree!After[Tree!Emptied(t, n)]
      <4>1. Tree!After[Tree!Emptied(s, n)] = Tree!AfterEmptied(Tree!After, s, n)
        BY AfterIs
      <4>2. Tree!AfterEmptied(Tree!After, s, n)
              = Tree!After[Tree!Emptied(Tree!After[Tree!NodeRemoveAt(s, n, c)], n)]
        BY ONLY <2>2, <3>1, AfterEmptiedIs, s \in Tree!States, n \in Nodes
      <4> QED BY ONLY <3>4, <4>1, <4>2
    <3>8. Bare(t, n) = Bare(s, n)
      BY ONLY <3>1, <3>2, BareByOne, s \in Tree!States, n \in Nodes
    <3> QED BY ONLY <3>6, <3>7, <3>8
  <2> QED BY <2>1, <2>2
<1>5. PICK m \in Nat : m = Len(u.kids[n])
  BY <1>1
<1>6. m \in S
  <2> HIDE DEF S
  <2>1. \A k \in 0..(m - 1) : k \in S => k + 1 \in S
    BY <1>4
  <2>2. \A k \in 0..m : k \in S
    BY ONLY <1>3, <2>1, m \in Nat, UpTo
  <2> QED BY <2>2
<1>7. Fewer(K, u.kids) /\ Len(u.kids[n]) <= m
  BY <1>5
<1> QED BY <1>6, <1>7

\* The removal of a child, if the loop over its children comes to what was found.
LEMMA RemoveAtFromEmptied ==
  ASSUME NEW s \in Tree!States, NEW p \in Nodes, NEW n \in Nodes,
         Tree!After[Tree!Emptied(s, n)] = Bare(s, n)
  PROVE  Tree!After[Tree!NodeRemoveAt(s, p, n)] = CutOff(s, p, n)
<1>1. Tree!After[Tree!NodeRemoveAt(s, p, n)] = Tree!AfterRemoveAt(Tree!After, s, p, n)
  BY AfterIs
<1>2. CASE n \notin Tree!Elems(s.kids[p])
  BY ONLY <1>1, <1>2 DEF Tree!AfterRemoveAt, CutOff
<1>3. CASE n \in Tree!Elems(s.kids[p])
  <2>1. PICK t : t = Unlinked(s, p, n)
    OBVIOUS
  <2>2. UnlinkedIs(s, p, n, t)
    BY ONLY <1>3, <2>1, CutOffFromBare, s \in Tree!States, p \in Nodes
  <2>3. PICK after : after = Tree!After
    OBVIOUS
  <2>4. Tree!AfterRemoveAt(after, s, p, n) = IF p \in pTreeView THEN after[Tree!ViewRemove(t, n)] ELSE t
    <3>1. after[Tree!Emptied(s, n)] = Bare(s, n)
      BY <2>3
    <3> QED BY ONLY <1>3, <2>1, <3>1 DEF Tree!AfterRemoveAt, Unlinked
  <2>5. t \in Tree!States /\ t.kids[n] = None
    BY ONLY <2>2 DEF UnlinkedIs
  <2>6. after[Tree!ViewRemove(t, n)] = Tree!Dropped(t, n)
    <3>1. after[Tree!ViewRemove(t, n)] = Tree!AfterViewRemove(after, t, n)
      BY ONLY <2>3, <2>5, AfterIs, n \in Nodes
    <3> QED BY ONLY <2>5, <3>1, VisitNone, n \in Nodes
  <2> QED BY ONLY <1>1, <2>2, <2>3, <2>4, <2>6 DEF UnlinkedIs
<1> QED BY <1>2, <1>3

\* The calls for each node come to what was found.
LEMMA AllGo ==
  ASSUME NEW K, Forest(K), NEW m \in Nodes
  PROVE  Goes(K, m)
<1> DEFINE Bad == {n \in Nodes : ~Goes(K, n)}
<1>1. SUFFICES ASSUME Bad # {} PROVE FALSE
  OBVIOUS
<1>2. PICK n \in Bad : Kids(K)[n] \cap Bad = {}
  <2>1. Bad \in SUBSET Nodes
    OBVIOUS
  <2> HIDE DEF Bad
  <2> QED BY <1>1, <2>1, KidsTypes
<1>3. n \in Nodes /\ ~Goes(K, n)
  OBVIOUS
<1>4. \A c \in Tree!Elems(K[n]) : Goes(K, c)
  <2>1. Kids(K)[n] = Tree!Elems(K[n]) /\ Tree!Elems(K[n]) \subseteq Nodes
    BY <1>3, KidsTypes, SubIs
  <2> QED BY <1>2, <2>1
<1>5. ASSUME NEW s \in Tree!States, Fewer(K, s.kids)
      PROVE  /\ Tree!After[Tree!Emptied(s, n)] = Bare(s, n)
             /\ \A p \in Nodes : Tree!After[Tree!NodeRemoveAt(s, p, n)] = CutOff(s, p, n)
  <2>1. Tree!After[Tree!Emptied(s, n)] = Bare(s, n)
    BY ONLY <1>3, <1>4, <1>5, EmptiedIs, Forest(K)
  <2> QED BY ONLY <1>3, <2>1, RemoveAtFromEmptied, s \in Tree!States
<1>6. Goes(K, n)
  BY ONLY <1>5 DEF Goes
<1> QED BY <1>3, <1>6

\* CTreeNodeUI::RemoveAt: the child and all below it.
LEMMA RemoveAtIs ==
  \A s \in Tree!States, p, n \in Nodes : Tree!After[Tree!NodeRemoveAt(s, p, n)] = CutOff(s, p, n)
<1> SUFFICES ASSUME NEW s \in Tree!States, NEW p \in Nodes, NEW n \in Nodes
             PROVE  Tree!After[Tree!NodeRemoveAt(s, p, n)] = CutOff(s, p, n)
  OBVIOUS
<1>1. Forest(s.kids)
  BY StateIs
<1>2. Goes(s.kids, n)
  BY ONLY <1>1, AllGo, n \in Nodes
<1>3. Fewer(s.kids, s.kids)
  BY ONLY <1>1, FewerSelf
<1> QED BY ONLY <1>2, <1>3, s \in Tree!States, p \in Nodes DEF Goes

\* CTreeViewUI::Remove of a node with one child or none: the node and all below it.
LEMMA ViewRemoveIs ==
  ASSUME NEW s \in Tree!States, NEW n \in Nodes,
         s.kids[n] = None \/ \E c \in Nodes : s.kids[n] = One(c)
  PROVE  Tree!After[Tree!ViewRemove(s, n)] =
           Rid(s, Shut(s.kids, SubOf(s.kids)[n]),
               {x \in SubOf(s.kids)[n] : x = n \/ x \in Known(s.kids)})
<1>1. PICK K : K = s.kids
  OBVIOUS
<1>2. Forest(K)
  BY <1>1, StateIs
<1>3. PICK Sub \in [Nodes -> SUBSET Nodes] : Sub = SubOf(K)
  BY <1>2, SubIs
<1>4. PICK after : after = Tree!After
  OBVIOUS
<1>5. after[Tree!ViewRemove(s, n)] = Tree!AfterViewRemove(after, s, n)
  BY <1>4, AfterIs
<1>6. K \in [Nodes -> Rows]
  BY <1>2 DEF Forest
<1> DEFINE Z == {x \in Sub[n] : x = n \/ x \in Known(K)}
<1>7. CASE s.kids[n] = None
  <2>1. after[Tree!ViewRemove(s, n)] = Tree!Dropped(s, n)
    BY ONLY <1>5, <1>7, VisitNone, s \in Tree!States, n \in Nodes
  <2>2. Tree!Dropped(s, n) = Rid(s, K, {n})
    BY <1>1, DroppedIs
  <2>3. Tree!Elems(K[n]) = {}
    BY <1>1, <1>7, RowTypes
  <2>4. Sub[n] = {n}
    BY ONLY <1>2, <1>3, <2>3, SubIs, n \in Nodes
  <2>5. Z = {n}
    BY ONLY <2>4
  <2>6. Shut(K, Sub[n]) = K
    <3>1. \A x \in Nodes : (IF x \in Sub[n] THEN None ELSE K[x]) = K[x]
      BY ONLY <1>1, <1>7, <2>4
    <3> QED BY ONLY <1>6, <3>1 DEF Shut
  <2> HIDE DEF Z
  <2> QED BY ONLY <1>1, <1>3, <1>4, <2>1, <2>2, <2>5, <2>6 DEF Z
<1>8. ASSUME NEW c \in Nodes, s.kids[n] = One(c)
      PROVE  after[Tree!ViewRemove(s, n)] = Rid(s, Shut(K, Sub[n]), Z)
  <2>1. after[Tree!ViewRemove(s, n)] = Tree!Dropped(after[Tree!NodeRemoveAt(s, n, c)], n)
    BY ONLY <1>5, <1>8, VisitOne, s \in Tree!States, n \in Nodes
  <2>2. K[n] = One(c) /\ Tree!Elems(K[n]) = {c}
    BY <1>1, <1>8, RowTypes
  <2>3. Sub[n] = {n} \cup Sub[c] /\ n \notin Sub[c]
    <3>1. \A y \in Nodes : y \in Sub[n] <=> y = n \/ \E d \in Tree!Elems(K[n]) : y \in Sub[d]
      BY ONLY <1>2, <1>3, SubIs, n \in Nodes
    <3>2. n \notin Sub[c]
      BY ONLY <1>2, <1>3, <2>2, SubOnce, n \in Nodes
    <3>3. Sub[n] \in SUBSET Nodes /\ Sub[c] \in SUBSET Nodes
      OBVIOUS
    <3> QED BY ONLY <2>2, <3>1, <3>2, <3>3, n \in Nodes
  <2> DEFINE X == {x \in Sub[c] : x \in Known(K)}
             L == Cut(K, n, c)
  <2>4. after[Tree!NodeRemoveAt(s, n, c)] = Rid(s, L, X)
    <3>1. after[Tree!NodeRemoveAt(s, n, c)] = CutOff(s, n, c)
      BY <1>4, RemoveAtIs
    <3> QED BY ONLY <1>1, <1>3, <2>2, <3>1 DEF CutOff
  <2>5. L = Shut(K, Sub[n])
    <3>1. Tree!Without(One(c), {c}) = None
      BY RowTypes, WithoutAll
    <3>2. \A x \in Nodes : (IF x \in Sub[c] THEN None ELSE IF x = n THEN Tree!Without(K[x], {c}) ELSE K[x])
                             = IF x \in Sub[n] THEN None ELSE K[x]
      BY ONLY <2>2, <2>3, <3>1
    <3> QED BY ONLY <1>3, <3>2 DEF Cut, Shut
  <2> HIDE DEF L
  <2>6. PICK t : t = Rid(s, L, X)
    OBVIOUS
  <2>7. t \in Tree!States /\ t.kids = L
    <3>1. Forest(L)
      BY <1>2, <2>2, SubCut DEF L
    <3> QED BY ONLY <2>6, <3>1, RidTypes, s \in Tree!States DEF RidIs
  <2>8. Tree!Dropped(t, n) = Rid(t, L, {n})
    BY ONLY <2>7, DroppedIs, n \in Nodes
  <2>9. Rid(t, L, {n}) = Rid(s, L, X \cup {n})
    BY ONLY <2>6, RidTwice, s \in Tree!States
  <2>10. X \cup {n} = Z
    BY ONLY <2>3
  <2> HIDE DEF X, Z
  <2> QED BY ONLY <2>1, <2>4, <2>5, <2>6, <2>8, <2>9, <2>10
<1> HIDE DEF Z
<1>9. CASE \E c \in Nodes : s.kids[n] = One(c)
  <2>1. after[Tree!ViewRemove(s, n)] = Rid(s, Shut(K, Sub[n]), Z)
    BY <1>8, <1>9
  <2> QED BY ONLY <1>1, <1>3, <1>4, <2>1 DEF Z
<1> QED BY <1>7, <1>9

-----------------------------------------------------------------------------
(* The invariant of the tree view, of a list l, children K, parents P, the *)
(* nodes v that know the view, the nodes a that exist and the removed r.   *)

Shape(l, K, P, v, a, r) ==
  /\ l \in Rows /\ Apart(l) /\ Forest(K) /\ P \in [Nodes -> Nodes \cup {NULL}]
  /\ v \in SUBSET Nodes /\ a \in SUBSET Nodes /\ r \in SUBSET Nodes
  /\ \A p \in Nodes : \A n \in Tree!Elems(K[p]) : P[n] = p /\ (n \in v <=> p \in v) /\ (n \in a <=> p \in a)
  /\ \A n \in Tree!Elems(l) : P[n] # NULL => n \in Tree!Elems(K[P[n]])
  /\ a \cap v = Tree!Elems(l) /\ a \cup v = Nodes /\ r \cap a = {} /\ a \cup r = Nodes

\* The list l shows the tree in order.
InOrder(l, K, P) == l = Tree!Spread(Tree!Without(l, {n \in Nodes : P[n] # NULL}), PreOf(K))

LEMMA NullIsNoNode == NULL \notin Nodes
BY ContainersAssumption DEF Tree!ConstantsAssumption

\* A node without a parent is nobody's child.
LEMMA ShapeTop ==
  ASSUME NEW l, NEW K, NEW P, NEW v, NEW a, NEW r, Shape(l, K, P, v, a, r),
         NEW n \in Nodes, P[n] = NULL
  PROVE  Top(K, n)
<1>1. \A q \in Nodes : n \in Tree!Elems(K[q]) => P[n] = q
  BY DEF Shape
<1> QED BY <1>1, NullIsNoNode DEF Top

\* All below a node know the view, and exist, if it does.
LEMMA ShapeSub ==
  ASSUME NEW l, NEW K, NEW P, NEW v, NEW a, NEW r, Shape(l, K, P, v, a, r), NEW n \in Nodes
  PROVE  \A y \in SubOf(K)[n] : /\ y \in Nodes /\ (y \in v <=> n \in v) /\ (y \in a <=> n \in a)
                                /\ y # n => P[y] \in Nodes
<1>1. Forest(K)
  BY DEF Shape
<1>2. /\ \A p \in Nodes : \A y \in Tree!Elems(K[p]) : y \in Nodes
      /\ n \in SubOf(K)[n] /\ SubOf(K)[n] \in SUBSET Nodes
  BY <1>1, SubIs, SubHas
<1> DEFINE C == {y \in Nodes : (y \in v <=> n \in v) /\ (y \in a <=> n \in a)}
<1>3. SubOf(K)[n] \subseteq C
  <2>1. n \in C /\ C \in SUBSET Nodes
    OBVIOUS
  <2>2. \A z \in C : Tree!Elems(K[z]) \subseteq C
    BY <1>2 DEF Shape
  <2> HIDE DEF C
  <2> QED BY ONLY <1>1, <2>1, <2>2, SubLeast
<1>4. ASSUME NEW y \in SubOf(K)[n], y # n PROVE P[y] \in Nodes
  <2>1. PICK q \in SubOf(K)[n] : y \in Tree!Elems(K[q])
    BY <1>1, <1>4, SubParent
  <2>2. q \in Nodes
    BY <1>2
  <2> QED BY <2>1, <2>2 DEF Shape
<1> QED BY <1>3, <1>4

\* The roots of the list.
RootsOf(l, P) == Tree!Without(l, {n \in Nodes : P[n] # NULL})

LEMMA ShapeRoots ==
  ASSUME NEW l, NEW K, NEW P, NEW v, NEW a, NEW r, Shape(l, K, P, v, a, r)
  PROVE  /\ Tops(K, RootsOf(l, P))
         /\ \A n \in Nodes : n \in Tree!Elems(RootsOf(l, P)) <=> n \in Tree!Elems(l) /\ P[n] = NULL
<1>1. l \in Rows /\ Apart(l)
  BY DEF Shape
<1> DEFINE X == {n \in Nodes : P[n] # NULL}
<1>2. /\ Tree!Without(l, X) \in Rows /\ Apart(Tree!Without(l, X))
      /\ Tree!Elems(Tree!Without(l, X)) = Tree!Elems(l) \ X
  BY ONLY <1>1, WithoutTypes, WithoutApart, WithoutElems
<1>3. Tree!Elems(l) \subseteq Nodes
  BY <1>1, RowTypes
<1>4. \A n \in Nodes : n \in Tree!Elems(RootsOf(l, P)) <=> n \in Tree!Elems(l) /\ P[n] = NULL
  BY ONLY <1>2 DEF RootsOf
<1>5. \A n \in Tree!Elems(RootsOf(l, P)) : Top(K, n)
  <2>1. \A n \in Tree!Elems(RootsOf(l, P)) : n \in Nodes
    BY ONLY <1>2, <1>3 DEF RootsOf
  <2> QED BY <1>4, <2>1, ShapeTop
<1> QED BY ONLY <1>2, <1>4, <1>5 DEF Tops, RootsOf

\* A parent takes a new node.
LEMMA ShapeTakes ==
  ASSUME NEW l, NEW K, NEW P, NEW v, NEW a, NEW r, Shape(l, K, P, v, a, r),
         NEW p \in Nodes, NEW n \in Nodes, p \in a, n \in a, P[n] = NULL, n \notin Tree!Elems(l),
         p \in v => K[n] = None,
         NEW L, Adopts(K, L, p, n),
         NEW m, m \in Rows, Apart(m),
         p \in v => Tree!Elems(m) = Tree!Elems(l) \cup {n},
         p \notin v => m = l
  PROVE  Shape(m, L, [P EXCEPT ![n] = p], IF p \in v THEN v \cup {n} ELSE v, a, r)
<1>1. /\ l \in Rows /\ Apart(l) /\ Forest(K) /\ P \in [Nodes -> Nodes \cup {NULL}]
      /\ v \in SUBSET Nodes /\ a \in SUBSET Nodes /\ r \in SUBSET Nodes
      /\ a \cap v = Tree!Elems(l) /\ a \cup v = Nodes /\ r \cap a = {} /\ a \cup r = Nodes
  BY DEF Shape
<1>2. \A q \in Nodes : \A y \in Tree!Elems(K[q]) : P[y] = q /\ (y \in v <=> q \in v) /\ (y \in a <=> q \in a)
  BY DEF Shape
<1>3. \A y \in Tree!Elems(l) : P[y] # NULL => y \in Tree!Elems(K[P[y]])
  BY DEF Shape
<1>4. Forest(L)
  BY <1>1, AdoptsForest
<1>5. /\ Tree!Elems(L[p]) = Tree!Elems(K[p]) \cup {n}
      /\ \A q \in Nodes \ {p} : L[q] = K[q]
      /\ \A q \in Nodes : n \notin Tree!Elems(K[q])
  BY DEF Adopts, Top
<1>6. n \notin v
  BY <1>1
<1> DEFINE Q == [P EXCEPT ![n] = p]
           w == IF p \in v THEN v \cup {n} ELSE v
<1>7. Q \in [Nodes -> Nodes \cup {NULL}] /\ Q[n] = p /\ \A y \in Nodes : y # n => Q[y] = P[y]
  BY <1>1
<1>8. w \in SUBSET Nodes /\ a \cap w = Tree!Elems(m) /\ a \cup w = Nodes
  BY <1>1
<1>9. \A q \in Nodes : Tree!Elems(L[q]) \subseteq Nodes
  BY <1>4, SubIs
<1>10. ASSUME NEW q \in Nodes, NEW y \in Tree!Elems(L[q])
       PROVE  Q[y] = q /\ (y \in w <=> q \in w) /\ (y \in a <=> q \in a)
  <2>1. CASE y = n
    <3>1. q = p
      BY ONLY <1>5, <1>10, <2>1
    <3> QED BY <1>6, <1>7, <2>1, <3>1
  <2>2. CASE y # n
    <3>1. y \in Tree!Elems(K[q]) /\ y \in Nodes
      BY ONLY <1>5, <1>9, <1>10, <2>2
    <3>2. Q[y] = q /\ (y \in v <=> q \in v) /\ (y \in a <=> q \in a)
      BY ONLY <1>2, <1>7, <2>2, <3>1
    <3>3. p \in v => q # n
      BY <3>1, RowTypes
    <3>4. y \in w <=> q \in w
      BY ONLY <2>2, <3>2, <3>3
    <3> QED BY ONLY <3>2, <3>4
  <2> QED BY <2>1, <2>2
<1>11. ASSUME NEW y \in Tree!Elems(m), Q[y] # NULL PROVE y \in Tree!Elems(L[Q[y]])
  <2>1. CASE y = n
    BY <1>5, <1>7, <2>1
  <2>2. CASE y # n
    <3>1. y \in Tree!Elems(l) /\ y \in Nodes
      BY <1>1, <2>2
    <3>2. Q[y] = P[y] /\ P[y] \in Nodes /\ y \in Tree!Elems(K[P[y]])
      BY <1>1, <1>3, <1>7, <1>11, <2>2, <3>1
    <3> QED BY ONLY <1>5, <3>2
  <2> QED BY <2>1, <2>2
<1> HIDE DEF Q, w
<1>12. Shape(m, L, Q, w, a, r)
  BY ONLY <1>1, <1>4, <1>7, <1>8, <1>10, <1>11, m \in Rows, Apart(m) DEF Shape
<1> QED BY <1>12 DEF Q, w

\* A root and all below it come into the list.
LEMMA ShapeShows ==
  ASSUME NEW l, NEW K, NEW P, NEW v, NEW a, NEW r, Shape(l, K, P, v, a, r),
         NEW n \in Nodes, n \in a, P[n] = NULL, n \notin Tree!Elems(l)
  PROVE  Shape(Join(l, PreOf(K)[n]), K, P, v \cup SubOf(K)[n], a, r)
<1>1. /\ l \in Rows /\ Apart(l) /\ Forest(K) /\ P \in [Nodes -> Nodes \cup {NULL}]
      /\ v \in SUBSET Nodes /\ a \in SUBSET Nodes /\ r \in SUBSET Nodes
      /\ a \cap v = Tree!Elems(l) /\ a \cup v = Nodes /\ r \cap a = {} /\ a \cup r = Nodes
  BY DEF Shape
<1>2. \A q \in Nodes : \A y \in Tree!Elems(K[q]) : P[y] = q /\ (y \in v <=> q \in v) /\ (y \in a <=> q \in a)
  BY DEF Shape
<1>3. \A y \in Tree!Elems(l) : P[y] # NULL => y \in Tree!Elems(K[P[y]])
  BY DEF Shape
<1>4. PICK S \in SUBSET Nodes : S = SubOf(K)[n]
  BY <1>1, SubIs
<1>5. PICK u \in Rows : u = PreOf(K)[n] /\ Apart(u) /\ Tree!Elems(u) = S
  BY <1>1, <1>4, PreIs, PreApart, SubIs
<1>6. n \notin v
  BY <1>1
<1>7. \A y \in S : y \notin v /\ y \in a /\ (y # n => P[y] \in Nodes)
  BY <1>4, <1>6, ShapeSub
<1>8. S \cap Tree!Elems(l) = {}
  BY <1>1, <1>7
<1>9. Join(l, u) \in Rows /\ Apart(Join(l, u)) /\ Tree!Elems(Join(l, u)) = Tree!Elems(l) \cup S
  <2>1. l \in Rows /\ u \in Rows /\ Tree!Elems(l) \cap Tree!Elems(u) = {}
    BY <1>1, <1>5, <1>8
  <2>2. Join(l, u) \in Rows
    BY ONLY <2>1, JoinTypes
  <2>3. Apart(Join(l, u))
    BY ONLY <1>1, <1>5, <2>1, JoinApart
  <2>4. Tree!Elems(Join(l, u)) = Tree!Elems(l) \cup S
    BY ONLY <1>5, <2>1, JoinElems
  <2> QED BY ONLY <2>2, <2>3, <2>4
<1>10. Top(K, n)
  BY ShapeTop
<1>11. \A q \in Nodes : \A y \in Tree!Elems(K[q]) : y \in S <=> q \in S
  <2>1. \A q \in S : Tree!Elems(K[q]) \subseteq S
    BY ONLY <1>1, <1>4, SubHas, n \in Nodes
  <2>2. \A y \in S : y # n => \A q \in Nodes : y \in Tree!Elems(K[q]) => q \in S
    BY ONLY <1>1, <1>4, SubParent, n \in Nodes
  <2>3. \A q \in Nodes : n \notin Tree!Elems(K[q])
    BY ONLY <1>10 DEF Top
  <2> QED BY ONLY <2>1, <2>2, <2>3
<1>12. \A q \in Nodes : \A y \in Tree!Elems(K[q]) :
         P[y] = q /\ (y \in v \cup S <=> q \in v \cup S) /\ (y \in a <=> q \in a)
  BY ONLY <1>2, <1>11
<1>13. \A y \in S : P[y] # NULL => y \in Tree!Elems(K[P[y]])
  <2>1. ASSUME NEW y \in S, P[y] # NULL PROVE y \in Tree!Elems(K[P[y]])
    <3>1. y # n
      BY <2>1
    <3>2. PICK q \in S : y \in Tree!Elems(K[q])
      BY <1>1, <1>4, <3>1, SubParent
    <3>3. P[y] = q
      BY <1>2, <3>2
    <3> QED BY <3>2, <3>3
  <2> QED BY <2>1
<1>14. a \cap (v \cup S) = Tree!Elems(l) \cup S /\ a \cup (v \cup S) = Nodes
  BY <1>1, <1>7
<1>15. Shape(Join(l, u), K, P, v \cup S, a, r)
  BY ONLY <1>1, <1>3, <1>9, <1>12, <1>13, <1>14 DEF Shape
<1> QED BY <1>4, <1>5, <1>15

\* Children and what the list has of them are gone.
LEMMA ShapeLoses ==
  ASSUME NEW l, NEW K, NEW P, NEW v, NEW a, NEW r, Shape(l, K, P, v, a, r),
         NEW L, Fewer(K, L), NEW D, D \subseteq Tree!Elems(l),
         \A q \in Nodes : \A y \in Tree!Elems(L[q]) : y \notin D /\ q \notin D,
         \A q \in Nodes : \A y \in Tree!Elems(K[q]) :
           y \in Tree!Elems(l) /\ y \notin D => y \in Tree!Elems(L[q])
  PROVE  Shape(Tree!Without(l, D), L, P, v, a \ D, r \cup D)
<1>1. /\ l \in Rows /\ Apart(l) /\ Forest(K) /\ P \in [Nodes -> Nodes \cup {NULL}]
      /\ v \in SUBSET Nodes /\ a \in SUBSET Nodes /\ r \in SUBSET Nodes
      /\ a \cap v = Tree!Elems(l) /\ a \cup v = Nodes /\ r \cap a = {} /\ a \cup r = Nodes
  BY DEF Shape
<1>2. \A q \in Nodes : \A y \in Tree!Elems(K[q]) : P[y] = q /\ (y \in v <=> q \in v) /\ (y \in a <=> q \in a)
  BY DEF Shape
<1>3. \A y \in Tree!Elems(l) : P[y] # NULL => y \in Tree!Elems(K[P[y]])
  BY DEF Shape
<1>4. Forest(L)
  BY <1>1, FewerForest
<1>5. PICK m \in Rows : m = Tree!Without(l, D) /\ Apart(m) /\ Tree!Elems(m) = Tree!Elems(l) \ D
  BY <1>1, WithoutTypes, WithoutApart, WithoutElems
<1>6. \A q \in Nodes : \A y \in Tree!Elems(L[q]) : y \in Tree!Elems(K[q])
  BY DEF Fewer
<1>7. \A q \in Nodes : \A y \in Tree!Elems(L[q]) :
        P[y] = q /\ (y \in v <=> q \in v) /\ (y \in a \ D <=> q \in a \ D)
  BY <1>2, <1>6
<1>8. \A y \in Tree!Elems(m) : P[y] # NULL => y \in Tree!Elems(L[P[y]])
  <2>1. Tree!Elems(l) \subseteq Nodes
    BY <1>1
  <2>2. \A y \in Tree!Elems(l) : P[y] # NULL => P[y] \in Nodes
    BY <1>1, <2>1
  <2> QED BY <1>3, <1>5, <2>2
<1>9. /\ a \ D \in SUBSET Nodes /\ r \cup D \in SUBSET Nodes
      /\ (a \ D) \cap v = Tree!Elems(m) /\ (a \ D) \cup v = Nodes /\ (r \cup D) \cap (a \ D) = {}
      /\ (a \ D) \cup (r \cup D) = Nodes
  BY <1>1, <1>5
<1> QED BY ONLY <1>1, <1>4, <1>5, <1>7, <1>8, <1>9 DEF Shape

\* Nothing is left in the list.
LEMMA ShapeClears ==
  ASSUME NEW l, NEW K, NEW P, NEW v, NEW a, NEW r, Shape(l, K, P, v, a, r)
  PROVE  Shape(None, K, P, v, a \ Tree!Elems(l), r \cup Tree!Elems(l))
<1>1. /\ l \in Rows /\ Apart(l) /\ Forest(K) /\ P \in [Nodes -> Nodes \cup {NULL}]
      /\ v \in SUBSET Nodes /\ a \in SUBSET Nodes /\ r \in SUBSET Nodes
      /\ a \cap v = Tree!Elems(l) /\ a \cup v = Nodes /\ r \cap a = {} /\ a \cup r = Nodes
  BY DEF Shape
<1>2. \A q \in Nodes : \A y \in Tree!Elems(K[q]) : P[y] = q /\ (y \in v <=> q \in v) /\ (y \in a <=> q \in a)
  BY DEF Shape
<1>3. None \in Rows /\ Apart(None) /\ Tree!Elems(None) = {}
  BY RowTypes
<1>4. PICK D : D = Tree!Elems(l)
  OBVIOUS
<1>5. \A q \in Nodes : \A y \in Tree!Elems(K[q]) :
        P[y] = q /\ (y \in v <=> q \in v) /\ (y \in a \ D <=> q \in a \ D)
  <2>1. \A q \in Nodes : \A y \in Tree!Elems(K[q]) : y \in D <=> q \in D
    BY <1>1, <1>2, <1>4
  <2> QED BY ONLY <1>2, <2>1
<1>6. /\ a \ D \in SUBSET Nodes /\ r \cup D \in SUBSET Nodes
      /\ (a \ D) \cap v = {} /\ (a \ D) \cup v = Nodes /\ (r \cup D) \cap (a \ D) = {}
      /\ (a \ D) \cup (r \cup D) = Nodes
  BY <1>1, <1>4
<1> QED BY ONLY <1>1, <1>3, <1>4, <1>5, <1>6 DEF Shape

LEMMA OrderClears ==
  ASSUME NEW K, NEW P
  PROVE  InOrder(None, K, P)
BY WithoutNone, SpreadNone DEF InOrder

\* One more node with a parent, which is not in the list, changes no root.
LEMMA SameRoots ==
  ASSUME NEW l, l \in Rows, NEW P, P \in [Nodes -> Nodes \cup {NULL}], NEW n \in Nodes, NEW p \in Nodes,
         n \notin Tree!Elems(l)
  PROVE  RootsOf(l, [P EXCEPT ![n] = p]) = RootsOf(l, P)
<1> DEFINE X == {x \in Nodes : P[x] # NULL}
           Y == {x \in Nodes : [P EXCEPT ![n] = p][x] # NULL}
<1>1. Y = X \cup {n}
  BY NullIsNoNode
<1>2. Tree!Without(Tree!Without(l, X), {n}) = Tree!Without(l, X \cup {n})
  BY ONLY WithoutTwice, l \in Rows
<1>3. Tree!Without(l, X) \in Rows /\ Tree!Elems(Tree!Without(l, X)) \cap {n} = {}
  BY WithoutTypes, WithoutElems
<1>4. Tree!Without(Tree!Without(l, X), {n}) = Tree!Without(l, X)
  BY ONLY <1>3, WithoutOthers
<1> QED BY ONLY <1>1, <1>2, <1>4 DEF RootsOf

LEMMA InOrderIs ==
  ASSUME NEW l, NEW K, NEW P
  PROVE  InOrder(l, K, P) <=> l = Tree!Spread(RootsOf(l, P), PreOf(K))
BY DEF InOrder, RootsOf

\* The list with a root and all below it behind it.
LEMMA OrderShows ==
  ASSUME NEW l, NEW K, NEW P, NEW v, NEW a, NEW r, Shape(l, K, P, v, a, r), InOrder(l, K, P),
         NEW n \in Nodes, P[n] = NULL
  PROVE  InOrder(Join(l, PreOf(K)[n]), K, P)
<1>1. l \in Rows /\ Forest(K)
  BY DEF Shape
<1> DEFINE X == {x \in Nodes : P[x] # NULL}
<1>2. PICK R \in Rows : R = Tree!Without(l, X)
  BY <1>1, WithoutTypes
<1>3. PICK f \in [Nodes -> Rows] : f = PreOf(K)
  BY <1>1, PreIs
<1>4. PICK u \in Rows : u = Tree!Spread(K[n], f)
  <2>1. K[n] \in Rows
    BY <1>1, KidsApart
  <2> QED BY <2>1, SpreadTypes
<1>5. f[n] = Join(One(n), u) /\ f[n] \in Rows /\ One(n) \in Rows /\ Tree!Elems(One(n)) = {n}
  BY <1>1, <1>3, <1>4, PreIs, RowTypes
<1>6. Tree!Elems(u) \subseteq X
  <2>1. Apart(f[n]) /\ Tree!Elems(f[n]) = SubOf(K)[n]
    BY <1>1, <1>3, PreApart, SubIs
  <2>2. n \notin Tree!Elems(u) /\ Tree!Elems(u) \subseteq SubOf(K)[n]
    BY ONLY <1>5, <2>1, JoinApart, JoinElems, u \in Rows
  <2>3. \A y \in SubOf(K)[n] : y \in Nodes /\ (y # n => P[y] \in Nodes)
    BY ShapeSub
  <2> QED BY <2>2, <2>3, NullIsNoNode
<1>7. Tree!Without(f[n], X) = One(n)
  <2>1. Tree!Without(u, X) = None
    BY ONLY <1>6, WithoutAll, u \in Rows
  <2>2. n \notin X
    OBVIOUS
  <2>3. Tree!Without(One(n), X) = One(n)
    BY ONLY <1>5, <2>2, WithoutOthers
  <2> QED BY ONLY <1>5, <2>1, <2>3, WithoutJoin, JoinNone, u \in Rows
<1>8. Tree!Without(Join(l, f[n]), X) = Join(R, One(n))
  BY ONLY <1>1, <1>2, <1>5, <1>7, WithoutJoin
<1>9. Tree!Spread(Join(R, One(n)), f) = Join(Tree!Spread(R, f), f[n])
  BY ONLY SpreadMore, R \in Rows, n \in Nodes, f \in [Nodes -> Rows]
<1>10. l = Tree!Spread(R, f)
  BY ONLY <1>2, <1>3, InOrder(l, K, P) DEF InOrder
<1> QED BY ONLY <1>3, <1>8, <1>9, <1>10 DEF InOrder

\* The list when a parent takes a node that it does not show.
LEMMA OrderSame ==
  ASSUME NEW l, NEW K, NEW P, NEW v, NEW a, NEW r, Shape(l, K, P, v, a, r), InOrder(l, K, P),
         NEW p \in Nodes, NEW n \in Nodes, p \notin Tree!Elems(l), n \notin Tree!Elems(l),
         NEW L, Adopts(K, L, p, n)
  PROVE  InOrder(l, L, [P EXCEPT ![n] = p])
<1>1. l \in Rows /\ Forest(K) /\ P \in [Nodes -> Nodes \cup {NULL}]
  BY DEF Shape
<1>2. Forest(L)
  BY <1>1, AdoptsForest
<1>3. PICK R : R = RootsOf(l, P)
  OBVIOUS
<1>4. Tops(K, R)
  BY <1>3, ShapeRoots
<1>5. l = Tree!Spread(R, PreOf(K))
  BY <1>3, InOrderIs
<1>6. \A y \in Tree!Elems(l) : L[y] = K[y]
  <2>1. Tree!Elems(l) \subseteq Nodes
    BY <1>1, RowTypes
  <2> QED BY <2>1 DEF Adopts
<1>7. Tree!Spread(R, PreOf(L)) = Tree!Spread(R, PreOf(K))
  BY ONLY <1>1, <1>2, <1>4, <1>5, <1>6, ListSame
<1>8. RootsOf(l, [P EXCEPT ![n] = p]) = R
  BY <1>1, <1>3, SameRoots
<1> QED BY ONLY <1>5, <1>7, <1>8, InOrderIs

\* Where a shown parent's new node comes: s and t are what its row has before and behind it.
Inserts(l, m, s, x, t) ==
  \E u, w \in Rows : /\ l = Join(u, Join(Join(s, t), w))
                     /\ m = Join(u, Join(Join(Join(s, One(x)), t), w))

LEMMA OrderTakes ==
  ASSUME NEW l, NEW K, NEW P, NEW v, NEW a, NEW r, Shape(l, K, P, v, a, r), InOrder(l, K, P),
         NEW p \in Nodes, NEW n \in Nodes, p \in Tree!Elems(l), n \notin Tree!Elems(l),
         NEW L, Adopts(K, L, p, n), NEW s \in Rows, NEW t \in Rows,
         PreOf(K)[p] = Join(s, t), PreOf(L)[p] = Join(Join(s, One(n)), t)
  PROVE  \E m : Inserts(l, m, s, n, t) /\ InOrder(m, L, [P EXCEPT ![n] = p])
<1>1. l \in Rows /\ Forest(K) /\ P \in [Nodes -> Nodes \cup {NULL}]
  BY DEF Shape
<1>2. Forest(L)
  BY <1>1, AdoptsForest
<1>3. PICK R : R = RootsOf(l, P)
  OBVIOUS
<1>4. Tops(K, R)
  BY <1>3, ShapeRoots
<1>5. l = Tree!Spread(R, PreOf(K))
  BY <1>3, InOrderIs
<1>6. \A y \in Tree!Elems(l) : y \notin SubOf(K)[p] => L[y] = K[y]
  <2>1. Tree!Elems(l) \subseteq Nodes /\ p \in SubOf(K)[p]
    BY <1>1, RowTypes, SubHas
  <2> QED BY <2>1 DEF Adopts
<1>7. Segment(K, L, p, Tree!Spread(R, PreOf(K)), Tree!Spread(R, PreOf(L)))
  BY ONLY <1>1, <1>2, <1>4, <1>5, <1>6, ListSegment, p \in Nodes, p \in Tree!Elems(l)
<1>8. PICK m : m = Tree!Spread(R, PreOf(L))
  OBVIOUS
<1>9. PICK u \in Rows, w \in Rows : /\ l = Join(u, Join(Join(s, t), w))
                                    /\ m = Join(u, Join(Join(Join(s, One(n)), t), w))
  BY ONLY <1>5, <1>7, <1>8, PreOf(K)[p] = Join(s, t), PreOf(L)[p] = Join(Join(s, One(n)), t) DEF Segment
<1>10. PICK Q \in [Nodes -> Nodes \cup {NULL}] : Q = [P EXCEPT ![n] = p]
  BY <1>1
<1>11. RootsOf(l, Q) = R
  <2>1. RootsOf(l, [P EXCEPT ![n] = p]) = RootsOf(l, P)
    BY <1>1, SameRoots
  <2> QED BY ONLY <1>3, <1>10, <2>1
<1>12. RootsOf(m, Q) = RootsOf(l, Q)
  <2> DEFINE Y == {x \in Nodes : Q[x] # NULL}
             W(z) == Tree!Without(z, Y)
  <2>1. One(n) \in Rows /\ Tree!Elems(One(n)) = {n}
    BY RowTypes
  <2>2. n \in Y
    BY <1>1, <1>10, NullIsNoNode
  <2>3. W(One(n)) = None
    BY ONLY <2>1, <2>2, WithoutAll
  <2>4. W(Join(s, One(n))) = W(s)
    <3>1. W(Join(s, One(n))) = Join(W(s), W(One(n)))
      BY ONLY <2>1, WithoutJoin, s \in Rows
    <3>2. W(s) \in Rows
      BY WithoutTypes
    <3> QED BY ONLY <2>3, <3>1, <3>2, JoinNone
  <2>5. Join(s, One(n)) \in Rows /\ Join(s, t) \in Rows /\ Join(Join(s, One(n)), t) \in Rows
    BY ONLY <2>1, JoinTypes, s \in Rows, t \in Rows
  <2>6. W(Join(Join(s, One(n)), t)) = W(Join(s, t))
    BY ONLY <2>4, <2>5, WithoutJoin, s \in Rows, t \in Rows
  <2>7. Join(Join(Join(s, One(n)), t), w) \in Rows /\ Join(Join(s, t), w) \in Rows
    BY ONLY <2>5, JoinTypes, w \in Rows
  <2>8. W(m) = Join(W(u), Join(W(Join(Join(s, One(n)), t)), W(w)))
    BY ONLY <1>9, <2>5, <2>7, WithoutJoin, u \in Rows, w \in Rows
  <2>9. W(l) = Join(W(u), Join(W(Join(s, t)), W(w)))
    BY ONLY <1>9, <2>5, <2>7, WithoutJoin, u \in Rows, w \in Rows
  <2> QED BY ONLY <2>6, <2>8, <2>9 DEF RootsOf
<1>13. Inserts(l, m, s, n, t)
  BY ONLY <1>9, u \in Rows, w \in Rows DEF Inserts
<1>14. InOrder(m, L, Q)
  BY ONLY <1>8, <1>11, <1>12, InOrderIs
<1> QED BY ONLY <1>10, <1>13, <1>14

\* What is in the middle of a row is gone.
LEMMA WithoutPart ==
  ASSUME NEW A \in Rows, NEW B \in Rows, NEW C \in Rows, NEW l, l = Join(A, Join(B, C)), Apart(l)
  PROVE  Tree!Without(l, Tree!Elems(B)) = Join(A, C)
<1> DEFINE D == Tree!Elems(B)
           W(z) == Tree!Without(z, D)
<1>1. Join(B, C) \in Rows
  BY JoinTypes
<1>2. Apart(Join(B, C)) /\ Tree!Elems(A) \cap Tree!Elems(Join(B, C)) = {}
  BY ONLY <1>1, JoinApart, l = Join(A, Join(B, C)), Apart(l), A \in Rows
<1>3. D \cap Tree!Elems(C) = {} /\ Tree!Elems(A) \cap D = {}
  BY ONLY <1>2, JoinApart, JoinElems, B \in Rows, C \in Rows
<1>4. W(A) = A /\ W(C) = C
  BY ONLY <1>3, WithoutOthers, A \in Rows, C \in Rows
<1>5. W(B) = None
  BY WithoutAll
<1>6. W(Join(B, C)) = C
  <2>1. W(Join(B, C)) = Join(W(B), W(C))
    BY ONLY WithoutJoin, B \in Rows, C \in Rows
  <2> QED BY ONLY <1>4, <1>5, <2>1, JoinNone, C \in Rows
<1>7. W(l) = Join(W(A), W(Join(B, C)))
  BY ONLY <1>1, WithoutJoin, l = Join(A, Join(B, C)), A \in Rows
<1> QED BY ONLY <1>4, <1>6, <1>7

\* The roots without some nodes of the list.
LEMMA RootsWithout ==
  ASSUME NEW l \in Rows, NEW P, NEW D
  PROVE  RootsOf(Tree!Without(l, D), P) = Tree!Without(RootsOf(l, P), D)
<1> DEFINE X == {x \in Nodes : P[x] # NULL}
<1>1. Tree!Without(Tree!Without(l, D), X) = Tree!Without(l, D \cup X)
  BY ONLY WithoutTwice, l \in Rows
<1>2. Tree!Without(Tree!Without(l, X), D) = Tree!Without(l, X \cup D)
  BY ONLY WithoutTwice, l \in Rows
<1>3. D \cup X = X \cup D
  OBVIOUS
<1> QED BY ONLY <1>1, <1>2, <1>3 DEF RootsOf

\* The list when a shown child and all below it leave.
LEMMA OrderCut ==
  ASSUME NEW l, NEW K, NEW P, NEW v, NEW a, NEW r, Shape(l, K, P, v, a, r), InOrder(l, K, P),
         NEW p \in Nodes, NEW n \in Tree!Elems(K[p]), p \in Tree!Elems(l)
  PROVE  InOrder(Tree!Without(l, SubOf(K)[n]), Cut(K, p, n), P)
<1>1. l \in Rows /\ Apart(l) /\ Forest(K)
  BY DEF Shape
<1>2. n \in Nodes /\ p \notin SubOf(K)[n]
  BY <1>1, SubIs, SubOnce
<1>3. PICK L : L = Cut(K, p, n)
  OBVIOUS
<1>4. Forest(L)
  BY <1>1, <1>3, SubCut
<1>5. \A x \in Nodes : L[x] = IF x \in SubOf(K)[n] THEN None
                              ELSE IF x = p THEN Tree!Without(K[x], {n}) ELSE K[x]
  BY ONLY <1>3 DEF Cut
<1>6. K[p] \in Rows /\ Apart(K[p])
  BY <1>1, KidsApart
<1>7. PICK c \in Rows, d \in Rows : Around(K[p], c, n, d)
  BY <1>2, <1>6, Splits DEF Around
<1>8. /\ Tree!Without(K[p], {n}) = Join(c, d)
      /\ n \notin Tree!Elems(c) /\ n \notin Tree!Elems(d)
      /\ Tree!Elems(K[p]) = Tree!Elems(c) \cup {n} \cup Tree!Elems(d)
  BY ONLY <1>2, <1>6, <1>7, WithoutMiddle
<1>9. PICK f \in [Nodes -> Rows], g \in [Nodes -> Rows] : f = PreOf(K) /\ g = PreOf(L)
  BY <1>1, <1>4, PreIs
<1>10. \A x \in Tree!Elems(K[p]) : x # n => g[x] = f[x]
  <2> SUFFICES ASSUME NEW x \in Tree!Elems(K[p]), x # n PROVE g[x] = f[x]
    OBVIOUS
  <2>1. x \in Nodes /\ p \notin SubOf(K)[x] /\ SubOf(K)[x] \cap SubOf(K)[n] = {}
    BY <1>1, SubIs, SubOnce, SubApart
  <2>2. \A y \in SubOf(K)[x] : y \in Nodes
    BY <1>1, <2>1, SubHas
  <2>3. \A y \in SubOf(K)[x] : L[y] = K[y]
    BY ONLY <1>5, <2>1, <2>2
  <2> QED BY ONLY <1>1, <1>4, <1>9, <2>1, <2>3, PreSame
<1>11. PICK i \in Rows, j \in Rows : i = Tree!Spread(c, f) /\ j = Tree!Spread(d, f)
  BY SpreadTypes
<1>12. Tree!Spread(c, g) = i /\ Tree!Spread(d, g) = j
  <2>1. \A x \in Tree!Elems(c) : g[x] = f[x]
    BY ONLY <1>8, <1>10
  <2>2. \A x \in Tree!Elems(d) : g[x] = f[x]
    BY ONLY <1>8, <1>10
  <2> QED BY ONLY <1>11, <2>1, <2>2, SpreadSame
<1>13. One(p) \in Rows /\ One(n) \in Rows /\ f[n] \in Rows
  BY <1>2, RowTypes
<1>14. f[p] = Join(One(p), Join(i, Join(f[n], j)))
  <2>1. K[p] = Join(c, Join(One(n), d)) /\ Join(One(n), d) \in Rows
    BY ONLY <1>7, <1>13, JoinTypes, d \in Rows DEF Around
  <2>2. Tree!Spread(Join(One(n), d), f) = Join(f[n], j)
    BY ONLY <1>2, <1>11, <1>13, SpreadJoin, SpreadSingle, d \in Rows, f \in [Nodes -> Rows]
  <2>3. Tree!Spread(K[p], f) = Join(i, Join(f[n], j))
    BY ONLY <1>11, <2>1, <2>2, SpreadJoin, c \in Rows, f \in [Nodes -> Rows]
  <2>4. f[p] = Join(One(p), Tree!Spread(K[p], f))
    BY ONLY <1>1, <1>9, PreIs, p \in Nodes
  <2> QED BY ONLY <2>3, <2>4
<1>15. g[p] = Join(One(p), Join(i, j))
  <2>1. L[p] = Join(c, d)
    BY ONLY <1>2, <1>5, <1>8, p \in Nodes
  <2>2. Tree!Spread(L[p], g) = Join(i, j)
    BY ONLY <1>12, <2>1, SpreadJoin, c \in Rows, d \in Rows, g \in [Nodes -> Rows]
  <2>3. g[p] = Join(One(p), Tree!Spread(L[p], g))
    BY ONLY <1>4, <1>9, PreIs, p \in Nodes
  <2> QED BY ONLY <2>2, <2>3
<1>16. PICK R : R = RootsOf(l, P)
  OBVIOUS
<1>17. /\ Tops(K, R)
       /\ \A x \in Nodes : x \in Tree!Elems(R) <=> x \in Tree!Elems(l) /\ P[x] = NULL
  BY ONLY <1>16, ShapeRoots, Shape(l, K, P, v, a, r)
<1>18. l = Tree!Spread(R, f)
  BY ONLY <1>9, <1>16, InOrderIs, InOrder(l, K, P)
<1>19. Segment(K, L, p, Tree!Spread(R, f), Tree!Spread(R, g))
  <2>1. \A y \in Tree!Elems(l) : y \notin SubOf(K)[p] => L[y] = K[y]
    <3>1. /\ n \in SubOf(K)[p] /\ p \in SubOf(K)[p]
          /\ \A y \in SubOf(K)[p] : SubOf(K)[y] \subseteq SubOf(K)[p]
          /\ Tree!Elems(K[p]) \subseteq SubOf(K)[p]
      BY <1>1, SubHas
    <3>2. Tree!Elems(l) \subseteq Nodes
      BY <1>1, RowTypes
    <3> QED BY ONLY <1>5, <3>1, <3>2
  <2> QED BY ONLY <1>1, <1>4, <1>9, <1>17, <1>18, <2>1, ListSegment, p \in Nodes, p \in Tree!Elems(l)
<1>20. PICK m : m = Tree!Spread(R, g)
  OBVIOUS
<1>21. PICK u \in Rows, w \in Rows : l = Join(u, Join(f[p], w)) /\ m = Join(u, Join(g[p], w))
  BY ONLY <1>9, <1>18, <1>19, <1>20 DEF Segment
<1>22. Tree!Without(l, SubOf(K)[n]) = m
  <2>1. PICK h \in Rows : h = Join(One(p), i)
    BY <1>13, JoinTypes
  <2>2. PICK A \in Rows : A = Join(u, h)
    BY JoinTypes
  <2>3. PICK B \in Rows : B = f[n]
    BY <1>13
  <2>4. PICK C \in Rows : C = Join(j, w)
    BY JoinTypes
  <2>5. f[p] = Join(h, Join(B, j)) /\ Join(B, j) \in Rows
    <3>1. PICK k \in Rows : k = Join(B, j)
      BY JoinTypes
    <3>2. Join(h, k) = Join(One(p), Join(i, k))
      BY ONLY <1>13, <2>1, JoinJoin, i \in Rows, k \in Rows
    <3> QED BY ONLY <1>14, <2>3, <3>1, <3>2, k \in Rows
  <2>6. Join(f[p], w) = Join(h, Join(B, C))
    BY ONLY <2>4, <2>5, JoinJoin, h \in Rows, B \in Rows, j \in Rows, w \in Rows
  <2>7. Join(B, C) \in Rows
    BY ONLY JoinTypes, B \in Rows, C \in Rows
  <2>8. l = Join(A, Join(B, C))
    BY ONLY <1>21, <2>2, <2>6, <2>7, JoinJoin, u \in Rows, h \in Rows
  <2>9. g[p] = Join(h, j)
    BY ONLY <1>13, <1>15, <2>1, JoinJoin, i \in Rows, j \in Rows
  <2>10. Join(g[p], w) = Join(h, C)
    BY ONLY <2>4, <2>9, JoinJoin, h \in Rows, j \in Rows, w \in Rows
  <2>11. m = Join(A, C)
    BY ONLY <1>21, <2>2, <2>10, JoinJoin, u \in Rows, h \in Rows, C \in Rows
  <2>12. Tree!Elems(B) = SubOf(K)[n]
    BY ONLY <1>1, <1>2, <1>9, <2>3, SubIs
  <2> QED BY ONLY <1>1, <2>8, <2>11, <2>12, WithoutPart, A \in Rows, B \in Rows, C \in Rows
<1>23. RootsOf(m, P) = R
  <2>1. RootsOf(m, P) = Tree!Without(R, SubOf(K)[n])
    BY ONLY <1>1, <1>16, <1>22, RootsWithout
  <2>2. \A y \in SubOf(K)[n] : y \in Nodes /\ P[y] # NULL
    <3>1. \A y \in SubOf(K)[n] : y \in Nodes /\ (y # n => P[y] \in Nodes)
      BY <1>2, ShapeSub
    <3>2. P[n] = p
      BY DEF Shape
    <3> QED BY ONLY <3>1, <3>2, NullIsNoNode, p \in Nodes
  <2>3. Tree!Elems(R) \cap SubOf(K)[n] = {} /\ R \in Rows
    BY ONLY <1>17, <2>2 DEF Tops
  <2> QED BY ONLY <2>1, <2>3, WithoutOthers
<1> QED BY ONLY <1>3, <1>9, <1>20, <1>22, <1>23, InOrderIs

\* The list when a child leaves a parent that is not shown.
LEMMA OrderCutUnseen ==
  ASSUME NEW l, NEW K, NEW P, NEW v, NEW a, NEW r, Shape(l, K, P, v, a, r), InOrder(l, K, P),
         NEW p \in Nodes, NEW n \in Tree!Elems(K[p]), p \notin v
  PROVE  InOrder(l, Cut(K, p, n), P)
<1>1. l \in Rows /\ Forest(K) /\ Tree!Elems(l) \subseteq v /\ n \notin v
  BY DEF Shape
<1>2. n \in Nodes
  BY <1>1, SubIs
<1>3. PICK L : L = Cut(K, p, n)
  OBVIOUS
<1>4. Forest(L)
  BY <1>1, <1>3, SubCut
<1>5. PICK R : R = RootsOf(l, P)
  OBVIOUS
<1>6. Tops(K, R)
  BY <1>5, ShapeRoots
<1>7. l = Tree!Spread(R, PreOf(K))
  BY <1>5, InOrderIs
<1>8. \A y \in Tree!Elems(l) : L[y] = K[y]
  <2>1. \A y \in Tree!Elems(l) : y \in Nodes /\ y \notin SubOf(K)[n]
    BY <1>1, <1>2, RowTypes, ShapeSub
  <2> QED BY <1>1, <1>3, <2>1 DEF Cut
<1>9. Tree!Spread(R, PreOf(L)) = Tree!Spread(R, PreOf(K))
  BY ONLY <1>1, <1>4, <1>6, <1>7, <1>8, ListSame
<1> QED BY ONLY <1>3, <1>5, <1>7, <1>9, InOrderIs

\* The list when a root and all below it leave.
LEMMA OrderRoot ==
  ASSUME NEW l, NEW K, NEW P, NEW v, NEW a, NEW r, Shape(l, K, P, v, a, r), InOrder(l, K, P),
         NEW n \in Nodes, n \in Tree!Elems(l), P[n] = NULL
  PROVE  InOrder(Tree!Without(l, SubOf(K)[n]), Shut(K, SubOf(K)[n]), P)
<1>1. l \in Rows /\ Apart(l) /\ Forest(K)
  BY DEF Shape
<1>2. PICK D : D = SubOf(K)[n]
  OBVIOUS
<1>3. PICK L : L = Shut(K, D)
  OBVIOUS
<1>4. Forest(L) /\ \A x \in Nodes : L[x] = IF x \in D THEN None ELSE K[x]
  BY ONLY <1>1, <1>3, ShutFewer, FewerForest
<1>5. PICK f \in [Nodes -> Rows], g \in [Nodes -> Rows] : f = PreOf(K) /\ g = PreOf(L)
  BY <1>1, <1>4, PreIs
<1>6. PICK R : R = RootsOf(l, P)
  OBVIOUS
<1>7. /\ Tops(K, R)
      /\ \A x \in Nodes : x \in Tree!Elems(R) <=> x \in Tree!Elems(l) /\ P[x] = NULL
  BY ONLY <1>6, ShapeRoots, Shape(l, K, P, v, a, r)
<1>8. R \in Rows /\ Apart(R) /\ n \in Tree!Elems(R)
  BY <1>7 DEF Tops
<1>9. l = Tree!Spread(R, f)
  BY ONLY <1>5, <1>6, InOrderIs, InOrder(l, K, P)
<1>10. PICK c \in Rows, d \in Rows : Around(R, c, n, d)
  BY <1>8, Splits DEF Around
<1>11. /\ Tree!Without(R, {n}) = Join(c, d)
       /\ n \notin Tree!Elems(c) /\ n \notin Tree!Elems(d)
       /\ Tree!Elems(R) = Tree!Elems(c) \cup {n} \cup Tree!Elems(d)
  BY ONLY <1>8, <1>10, WithoutMiddle, n \in Nodes
<1>12. \A x \in Tree!Elems(R) : x # n => x \in Nodes /\ SubOf(K)[x] \cap D = {} /\ x \notin D
  <2>1. Tree!Elems(R) \subseteq Nodes
    BY <1>8, RowTypes
  <2>2. \A x \in Tree!Elems(R) : x # n => SubOf(K)[x] \cap SubOf(K)[n] = {}
    BY ONLY <1>1, <1>7, <1>8, TopsSubs
  <2>3. \A x \in Nodes : x \in SubOf(K)[x]
    BY <1>1, SubHas
  <2> QED BY ONLY <1>2, <2>1, <2>2, <2>3
<1>13. \A x \in Tree!Elems(R) : x # n => g[x] = f[x]
  <2> SUFFICES ASSUME NEW x \in Tree!Elems(R), x # n PROVE g[x] = f[x]
    OBVIOUS
  <2>1. x \in Nodes /\ SubOf(K)[x] \cap D = {}
    BY <1>12
  <2>2. \A y \in SubOf(K)[x] : y \in Nodes
    BY <1>1, <2>1, SubHas
  <2>3. \A y \in SubOf(K)[x] : L[y] = K[y]
    BY ONLY <1>4, <2>1, <2>2
  <2> QED BY ONLY <1>1, <1>4, <1>5, <2>1, <2>3, PreSame
<1>14. PICK i \in Rows, j \in Rows : i = Tree!Spread(c, f) /\ j = Tree!Spread(d, f)
  BY SpreadTypes
<1>15. Tree!Spread(c, g) = i /\ Tree!Spread(d, g) = j
  <2>1. \A x \in Tree!Elems(c) : g[x] = f[x]
    BY ONLY <1>11, <1>13
  <2>2. \A x \in Tree!Elems(d) : g[x] = f[x]
    BY ONLY <1>11, <1>13
  <2> QED BY ONLY <1>14, <2>1, <2>2, SpreadSame
<1>16. One(n) \in Rows /\ f[n] \in Rows
  BY RowTypes
<1>17. l = Join(i, Join(f[n], j))
  <2>1. R = Join(c, Join(One(n), d)) /\ Join(One(n), d) \in Rows
    BY ONLY <1>10, <1>16, JoinTypes, d \in Rows DEF Around
  <2>2. Tree!Spread(Join(One(n), d), f) = Join(f[n], j)
    BY ONLY <1>14, <1>16, SpreadJoin, SpreadSingle, d \in Rows, n \in Nodes, f \in [Nodes -> Rows]
  <2> QED BY ONLY <1>9, <1>14, <2>1, <2>2, SpreadJoin, c \in Rows, f \in [Nodes -> Rows]
<1>18. Tree!Elems(f[n]) = D
  BY ONLY <1>1, <1>2, <1>5, SubIs, n \in Nodes
<1>19. Tree!Without(l, D) = Join(i, j)
  <2>1. PICK B \in Rows : B = f[n]
    BY <1>16
  <2> QED BY ONLY <1>1, <1>17, <1>18, <2>1, WithoutPart, i \in Rows, j \in Rows, B \in Rows
<1>20. Tree!Spread(Join(c, d), g) = Join(i, j)
  BY ONLY <1>15, SpreadJoin, c \in Rows, d \in Rows, g \in [Nodes -> Rows]
<1>21. RootsOf(Tree!Without(l, D), P) = Join(c, d)
  <2>1. RootsOf(Tree!Without(l, D), P) = Tree!Without(R, D)
    BY ONLY <1>1, <1>6, RootsWithout
  <2>2. n \in D
    BY <1>1, <1>2, SubHas
  <2>3. Tree!Without(Tree!Without(R, {n}), D) = Tree!Without(R, {n} \cup D)
    BY ONLY <1>8, WithoutTwice
  <2>4. {n} \cup D = D
    BY <2>2
  <2>5. Join(c, d) \in Rows /\ Tree!Elems(Join(c, d)) = Tree!Elems(c) \cup Tree!Elems(d)
    BY JoinTypes, JoinElems
  <2>6. Tree!Elems(Join(c, d)) \cap D = {}
    BY ONLY <1>11, <1>12, <2>5
  <2>7. Tree!Without(Join(c, d), D) = Join(c, d)
    BY ONLY <2>5, <2>6, WithoutOthers
  <2> QED BY ONLY <1>11, <2>1, <2>3, <2>4, <2>7
<1> QED BY ONLY <1>2, <1>3, <1>5, <1>19, <1>20, <1>21, InOrderIs

-----------------------------------------------------------------------------
(* The steps of the tree view.                                             *)

TreeShape == Shape(list, mTreeNodes, parent, pTreeView, aliveNodes, removed)
TreeOrder == InOrder(list, mTreeNodes, parent) /\ ~fault
KeepsTree == TreeShape' /\ (TreeOrder => TreeOrder')

LEMMA TreeShapeIs ==
  ASSUME TreeShape
  PROVE  /\ list \in Rows /\ Apart(list) /\ Forest(mTreeNodes) /\ mTreeNodes \in [Nodes -> Rows]
         /\ parent \in [Nodes -> Nodes \cup {NULL}]
         /\ pTreeView \in SUBSET Nodes /\ aliveNodes \in SUBSET Nodes /\ removed \in SUBSET Nodes
         /\ aliveNodes \cap pTreeView = Tree!Elems(list) /\ Tree!Elems(list) \subseteq Nodes
BY DEF TreeShape, Shape, Forest

\* A shown parent takes no node with children.
Plain(p, n) == p \in pTreeView => mTreeNodes[n] = None

LEMMA PlainIs ==
  ASSUME NEW p, NEW n
  PROVE  Plain(p, n) <=> ~Tree!TakesBranch(p, n)
BY DEF Plain, Tree!TakesBranch, None

\* What a node needs to come below another.
LEMMA MayTakeIs ==
  ASSUME TreeShape, NEW p \in Nodes, NEW n \in Nodes, Tree!MayTake(p, n)
  PROVE  /\ p \in aliveNodes /\ n \in aliveNodes /\ parent[n] = NULL /\ n \notin Tree!Elems(list)
         /\ p \notin SubOf(mTreeNodes)[n] /\ Top(mTreeNodes, n)
<1>1. /\ p \in aliveNodes /\ n \in aliveNodes /\ parent[n] = NULL /\ n \notin Tree!Elems(list)
      /\ p \notin Tree!Subtree(n)
  BY DEF Tree!MayTake, Tree!New
<1>2. Tree!Subtree(n) = SubOf(mTreeNodes)[n]
  BY TreeShapeIs, SubtreeIs
<1>3. Top(mTreeNodes, n)
  BY <1>1, ShapeTop DEF TreeShape
<1> QED BY <1>1, <1>2, <1>3

LEMMA PlacedIs ==
  ASSUME NEW p, NEW n, NEW i, Tree!Placed(p, n, i), Plain(p, n)
  PROVE  /\ parent' = [parent EXCEPT ![n] = p]
         /\ pTreeView' = IF p \in pTreeView THEN pTreeView \cup {n} ELSE pTreeView
         /\ p \in pTreeView => list' = Tree!InsertAt(list, i + 1, n)
         /\ p \notin pTreeView => list' = list
         /\ aliveNodes' = aliveNodes /\ removed' = removed /\ fault' = fault
BY DEF Tree!Placed, Tree!AddedAt, Plain, None

\* A node comes below another, wherever in the list.
LEMMA TakesShape ==
  ASSUME TreeShape, NEW p \in Nodes, NEW n \in Nodes, Tree!MayTake(p, n), Plain(p, n),
         NEW i, Tree!Placed(p, n, i), p \in pTreeView => i \in 0..Len(list),
         Adopts(mTreeNodes, mTreeNodes', p, n)
  PROVE  TreeShape'
<1>1. /\ p \in aliveNodes /\ n \in aliveNodes /\ parent[n] = NULL /\ n \notin Tree!Elems(list)
      /\ p \in pTreeView => mTreeNodes[n] = None
  BY MayTakeIs DEF Plain
<1>2. list \in Rows /\ Apart(list)
  BY TreeShapeIs
<1>3. /\ parent' = [parent EXCEPT ![n] = p]
      /\ pTreeView' = IF p \in pTreeView THEN pTreeView \cup {n} ELSE pTreeView
      /\ p \in pTreeView => list' = Tree!InsertAt(list, i + 1, n)
      /\ p \notin pTreeView => list' = list
      /\ aliveNodes' = aliveNodes /\ removed' = removed
  BY PlacedIs
<1>4. PICK m : m = list'
  OBVIOUS
<1>5. /\ m \in Rows /\ Apart(m)
      /\ p \in pTreeView => Tree!Elems(m) = Tree!Elems(list) \cup {n}
      /\ p \notin pTreeView => m = list
  <2>1. CASE p \in pTreeView
    <3>1. PICK k \in 0..Len(list) : k = i
      BY <2>1
    <3>2. m = Tree!InsertAt(list, k + 1, n)
      BY <1>3, <1>4, <2>1, <3>1
    <3>3. /\ Tree!InsertAt(list, k + 1, n) \in Rows
          /\ Tree!Elems(Tree!InsertAt(list, k + 1, n)) = Tree!Elems(list) \cup {n}
          /\ Apart(Tree!InsertAt(list, k + 1, n))
      BY ONLY <1>1, <1>2, InsertedTypes, k \in 0..Len(list), n \in Nodes
    <3> QED BY ONLY <2>1, <3>2, <3>3
  <2>2. CASE p \notin pTreeView
    BY ONLY <1>2, <1>3, <1>4, <2>2
  <2> QED BY <2>1, <2>2
<1>6. PICK L : L = mTreeNodes' /\ Adopts(mTreeNodes, L, p, n)
  OBVIOUS
<1>7. Shape(m, L, [parent EXCEPT ![n] = p], IF p \in pTreeView THEN pTreeView \cup {n} ELSE pTreeView,
            aliveNodes, removed)
  BY ONLY <1>1, <1>5, <1>6, ShapeTakes, TreeShape, p \in Nodes, n \in Nodes DEF TreeShape
<1>8. Shape(list', mTreeNodes', parent', pTreeView', aliveNodes', removed')
  BY ONLY <1>3, <1>4, <1>6, <1>7
<1> QED BY <1>8 DEF TreeShape

\* A node comes below another, where the order of the tree has it.
LEMMA TakesOrder ==
  ASSUME TreeShape, NEW p \in Nodes, NEW n \in Nodes, Tree!MayTake(p, n), Plain(p, n),
         NEW i, Tree!Placed(p, n, i), Adopts(mTreeNodes, mTreeNodes', p, n),
         NEW s \in Rows, NEW t \in Rows, PreOf(mTreeNodes)[p] = Join(s, t),
         p \in pTreeView => PreOf(mTreeNodes')[p] = Join(Join(s, One(n)), t),
         \A u, w \in Rows : list = Join(u, Join(Join(s, t), w)) /\ p \in Tree!Elems(list) =>
           i = Len(u) + Len(s)
  PROVE  TreeOrder => TreeOrder'
<1> SUFFICES ASSUME TreeOrder PROVE TreeOrder'
  OBVIOUS
<1>0. InOrder(list, mTreeNodes, parent) /\ ~fault
  BY DEF TreeOrder
<1>1. p \in aliveNodes /\ n \notin Tree!Elems(list)
  BY MayTakeIs
<1>2. list \in Rows /\ Apart(list) /\ (p \in Tree!Elems(list) <=> p \in pTreeView)
  BY <1>1, TreeShapeIs
<1>3. /\ parent' = [parent EXCEPT ![n] = p]
      /\ p \in pTreeView => list' = Tree!InsertAt(list, i + 1, n)
      /\ p \notin pTreeView => list' = list
      /\ fault' = fault
  BY PlacedIs
<1>4. PICK L : L = mTreeNodes'
  OBVIOUS
<1>5. /\ Adopts(mTreeNodes, L, p, n)
      /\ p \in pTreeView => PreOf(L)[p] = Join(Join(s, One(n)), t)
  BY ONLY <1>4, Adopts(mTreeNodes, mTreeNodes', p, n),
          p \in pTreeView => PreOf(mTreeNodes')[p] = Join(Join(s, One(n)), t)
<1>6. Shape(list, mTreeNodes, parent, pTreeView, aliveNodes, removed)
  BY DEF TreeShape
<1>7. InOrder(list', L, [parent EXCEPT ![n] = p])
  <2>1. CASE p \in pTreeView
    <3>1. PICK m : Inserts(list, m, s, n, t) /\ InOrder(m, L, [parent EXCEPT ![n] = p])
      BY ONLY <1>0, <1>1, <1>2, <1>5, <1>6, <2>1, OrderTakes, PreOf(mTreeNodes)[p] = Join(s, t),
              p \in Nodes, n \in Nodes, s \in Rows, t \in Rows
    <3>2. PICK u \in Rows, w \in Rows : /\ list = Join(u, Join(Join(s, t), w))
                                        /\ m = Join(u, Join(Join(Join(s, One(n)), t), w))
      BY ONLY <3>1 DEF Inserts
    <3>3. i = Len(u) + Len(s)
      BY <1>2, <2>1, <3>2
    <3>4. Tree!InsertAt(list, Len(u) + Len(s) + 1, n) = m
      BY ONLY <1>2, <3>2, PlaceInside, u \in Rows, w \in Rows, s \in Rows, t \in Rows, n \in Nodes
    <3>5. list' = m
      BY ONLY <1>3, <2>1, <3>3, <3>4
    <3> QED BY ONLY <3>1, <3>5
  <2>2. CASE p \notin pTreeView
    <3>1. InOrder(list, L, [parent EXCEPT ![n] = p])
      BY ONLY <1>0, <1>1, <1>2, <1>5, <1>6, <2>2, OrderSame, p \in Nodes, n \in Nodes
    <3> QED BY ONLY <1>3, <2>2, <3>1
  <2> QED BY <2>1, <2>2
<1>8. InOrder(list', mTreeNodes', parent')
  BY ONLY <1>3, <1>4, <1>7
<1> QED BY <1>0, <1>3, <1>8 DEF TreeOrder

\* A place behind the item of a node, or the first if it has none.
LEMMA PlaceTypes ==
  ASSUME TreeShape, NEW x \in Nodes
  PROVE  Tree!GetTreeIndex(x) + 1 \in 0..Len(list)
<1>1. Len(list) \in Nat /\ Tree!GetTreeIndex(x) \in -1..(Len(list) - 1)
  BY TreeShapeIs, IndexTypes
<1> QED BY <1>1

\* A child behind the others.
LEMMA AppendAdopts ==
  ASSUME NEW K, Forest(K), NEW p \in Nodes, NEW n \in Nodes, Top(K, n), p \notin SubOf(K)[n],
         NEW L, L = [K EXCEPT ![p] = Append(@, n)]
  PROVE  /\ Adopts(K, L, p, n)
         /\ PreOf(K)[p] = Join(PreOf(K)[p], None)
         /\ PreOf(L)[p] = Join(Join(PreOf(K)[p], PreOf(K)[n]), None)
         /\ PreOf(K)[p] \in Rows
<1>1. K \in [Nodes -> Rows] /\ Apart(K[p]) /\ K[p] \in Rows
  BY KidsApart DEF Forest
<1>2. One(n) \in Rows /\ Tree!Elems(One(n)) = {n} /\ Apart(One(n)) /\ None \in Rows
  BY RowTypes
<1>3. Append(K[p], n) = Join(K[p], One(n)) /\ Join(K[p], One(n)) \in Rows
  BY ONLY <1>1, <1>2, AppendJoins, JoinTypes, n \in Nodes
<1>4. L \in [Nodes -> Rows] /\ L[p] = Join(K[p], One(n)) /\ \A q \in Nodes \ {p} : L[q] = K[q]
  BY ONLY <1>1, <1>3, L = [K EXCEPT ![p] = Append(@, n)], p \in Nodes
<1>5. n \notin Tree!Elems(K[p])
  BY DEF Top
<1>6. Apart(L[p]) /\ Tree!Elems(L[p]) = Tree!Elems(K[p]) \cup {n}
  <2>1. Tree!Elems(K[p]) \cap {n} = {}
    BY <1>5
  <2>2. Apart(Join(K[p], One(n)))
    BY ONLY <1>1, <1>2, <2>1, JoinApart
  <2>3. Tree!Elems(Join(K[p], One(n))) = Tree!Elems(K[p]) \cup {n}
    BY ONLY <1>1, <1>2, JoinElems
  <2> QED BY ONLY <1>4, <2>2, <2>3
<1>7. Adopts(K, L, p, n)
  BY ONLY <1>4, <1>6, Top(K, n), p \notin SubOf(K)[n] DEF Adopts
<1>8. PreOf(K)[p] \in Rows /\ PreOf(K)[p] = Join(One(p), Tree!Spread(K[p], PreOf(K)))
  BY PreIs
<1>9. K[p] = Join(K[p], None) /\ L[p] = Join(Join(K[p], One(n)), None)
  BY ONLY <1>1, <1>3, <1>4, JoinNone
<1>10. Tree!Spread(None, PreOf(K)) = None
  BY SpreadNone
<1>11. PreOf(L)[p] = Join(Join(Join(One(p), Tree!Spread(K[p], PreOf(K))), PreOf(K)[n]),
                          Tree!Spread(None, PreOf(K)))
  BY ONLY <1>1, <1>2, <1>7, <1>9, AdoptsOrder, Forest(K), p \in Nodes, n \in Nodes
<1>12. PreOf(K)[p] = Join(PreOf(K)[p], None)
  BY ONLY <1>8, JoinNone
<1> QED BY ONLY <1>7, <1>8, <1>10, <1>11, <1>12

LEMMA LeafRow ==
  ASSUME NEW K, Forest(K), NEW n \in Nodes, K[n] = None
  PROVE  PreOf(K)[n] = One(n) /\ LastOf(K)[n] = n
<1>1. PreOf(K)[n] = Join(One(n), Tree!Spread(K[n], PreOf(K)))
  BY PreIs
<1>2. Tree!Spread(None, PreOf(K)) = None /\ One(n) \in Rows
  BY SpreadNone, RowTypes
<1>3. PreOf(K)[n] = One(n)
  BY ONLY <1>1, <1>2, JoinNone, K[n] = None
<1>4. LastOf(K)[n] = n
  BY LastIs
<1> QED BY <1>3, <1>4

\* A child behind the others, placed behind the last node below its parent.
LEMMA AddsLast ==
  ASSUME TreeShape, NEW p \in Nodes, NEW n \in Nodes, Tree!MayTake(p, n), Plain(p, n),
         Tree!Placed(p, n, Tree!GetTreeIndex(LastOf(mTreeNodes)[p]) + 1),
         mTreeNodes' = [mTreeNodes EXCEPT ![p] = Append(@, n)]
  PROVE  KeepsTree
<1>1. /\ list \in Rows /\ Apart(list) /\ Forest(mTreeNodes)
      /\ Top(mTreeNodes, n) /\ p \notin SubOf(mTreeNodes)[n]
      /\ p \in pTreeView => mTreeNodes[n] = None
  BY TreeShapeIs, MayTakeIs DEF Plain
<1>2. PICK L : L = mTreeNodes'
  OBVIOUS
<1>3. L = [mTreeNodes EXCEPT ![p] = Append(@, n)]
  BY <1>2
<1>4. PICK s \in Rows : s = PreOf(mTreeNodes)[p]
  BY <1>1, PreIs
<1>5. /\ Adopts(mTreeNodes, L, p, n)
      /\ PreOf(mTreeNodes)[p] = Join(s, None)
      /\ PreOf(L)[p] = Join(Join(s, PreOf(mTreeNodes)[n]), None)
  BY ONLY <1>1, <1>3, <1>4, AppendAdopts, p \in Nodes, n \in Nodes
<1>6. p \in pTreeView => PreOf(L)[p] = Join(Join(s, One(n)), None)
  <2>1. p \in pTreeView => PreOf(mTreeNodes)[n] = One(n)
    BY ONLY <1>1, LeafRow, n \in Nodes
  <2> QED BY ONLY <1>5, <2>1
<1>7. PICK x \in Nodes : x = LastOf(mTreeNodes)[p]
  BY <1>1, LastIs
<1>8. PICK i : i = Tree!GetTreeIndex(x) + 1
  OBVIOUS
<1>9. i \in 0..Len(list)
  BY <1>8, PlaceTypes
<1>10. \A u, w \in Rows : list = Join(u, Join(Join(s, None), w)) => i = Len(u) + Len(s)
  <2> SUFFICES ASSUME NEW u \in Rows, NEW w \in Rows, list = Join(u, Join(Join(s, None), w))
               PROVE  i = Len(u) + Len(s)
    OBVIOUS
  <2>1. PICK h \in Rows : s = Join(h, One(x))
    BY <1>1, <1>4, <1>7, LastEnds
  <2>2. One(x) \in Rows /\ None \in Rows
    BY RowTypes
  <2>3. Join(s, None) = s /\ One(x) = Join(One(x), None)
    BY ONLY <2>2, JoinNone, s \in Rows
  <2>4. list = Join(u, Join(Join(h, One(x)), w))
    BY ONLY <2>1, <2>3, list = Join(u, Join(Join(s, None), w))
  <2>5. Tree!GetTreeIndex(x) = Len(u) + Len(h)
    BY ONLY <1>1, <2>2, <2>3, <2>4, PlaceInside, u \in Rows, w \in Rows, h \in Rows, x \in Nodes
  <2>6. Len(u) \in Nat /\ Len(h) \in Nat /\ Len(s) = Len(h) + 1
    <3>1. Len(One(x)) = 1
      BY RowLen
    <3>2. Len(s) = Len(h) + Len(One(x))
      BY ONLY <2>1, <2>2, RowLen, h \in Rows
    <3> QED BY ONLY <3>1, <3>2, RowLen, u \in Rows, h \in Rows
  <2>7. PICK j \in Nat, k \in Nat : j = Len(u) /\ k = Len(h)
    BY <2>6
  <2>8. i = (j + k) + 1 /\ Len(s) = k + 1 /\ Len(u) = j
    BY ONLY <1>8, <2>5, <2>6, <2>7
  <2> QED BY ONLY <2>8, j \in Nat, k \in Nat
<1>11. Tree!Placed(p, n, i)
  BY <1>7, <1>8
<1>12. TreeShape'
  BY <1>2, <1>5, <1>9, <1>11, TakesShape
<1>13. TreeOrder => TreeOrder'
  <2>1. Adopts(mTreeNodes, mTreeNodes', p, n) /\ None \in Rows
    BY <1>2, <1>5, RowTypes
  <2>2. p \in pTreeView => PreOf(mTreeNodes')[p] = Join(Join(s, One(n)), None)
    BY ONLY <1>2, <1>6
  <2>3. \A u, w \in Rows : list = Join(u, Join(Join(s, None), w)) /\ p \in Tree!Elems(list) =>
          i = Len(u) + Len(s)
    BY ONLY <1>10
  <2> QED BY ONLY <1>5, <1>11, <2>1, <2>2, <2>3, TakesOrder, TreeShape, Tree!MayTake(p, n),
              Plain(p, n), p \in Nodes, n \in Nodes, s \in Rows
<1> QED BY <1>12, <1>13 DEF KeepsTree

\* CTreeNodeUI::AddChildNode
LEMMA AddChildNodeKeeps ==
  ASSUME TreeShape, NEW p \in Nodes, NEW n \in Nodes, Tree!AddChildNode(p, n), Plain(p, n)
  PROVE  KeepsTree
<1>1. /\ Tree!MayTake(p, n)
      /\ Tree!Placed(p, n, Tree!GetTreeIndex(Tree!GetLastNode(p)) + 1)
      /\ mTreeNodes' = [mTreeNodes EXCEPT ![p] = Append(@, n)]
  BY DEF Tree!AddChildNode
<1>2. Tree!GetLastNode(p) = LastOf(mTreeNodes)[p]
  BY LastNodeIs
<1> QED BY <1>1, <1>2, AddsLast

\* CTreeNodeUI::AddAt behind the last child, without the search.
TailPlaced(p, n) ==
  /\ Tree!Placed(p, n, IF Len(mTreeNodes[p]) = 0 THEN Tree!GetTreeIndex(p) + 1
                       ELSE Tree!GetTreeIndex(Tree!Last(mTreeNodes[p])) + 1)
  /\ mTreeNodes' = [mTreeNodes EXCEPT ![p] = Append(@, n)]
TailFault ==
  /\ fault' = TRUE
  /\ UNCHANGED <<list, mTreeNodes, aliveNodes, parent, pTreeView, removed>>

LEMMA AddTailIs ==
  ASSUME NEW p \in Nodes, NEW n \in Nodes, Tree!AddTail(p, n)
  PROVE  /\ Tree!MayTake(p, n)
         /\ \/ /\ p \in pTreeView /\ Len(mTreeNodes[p]) > 0
               /\ Tree!GetTreeIndex(Tree!Last(mTreeNodes[p])) > Tree!GetTreeIndex(p) + Len(mTreeNodes[p])
               /\ TailFault
            \/ TailPlaced(p, n)
BY DEF Tree!AddTail, TailPlaced, TailFault, Tree!tree

\* The place of a child that comes behind the others.
LEMMA TailPlaces ==
  ASSUME TreeShape, NEW p \in Nodes, NEW n \in Nodes, Tree!MayTake(p, n), TailPlaced(p, n)
  PROVE  \E i \in 0..Len(list) : Tree!Placed(p, n, i) /\ Adopts(mTreeNodes, mTreeNodes', p, n)
<1>1. /\ Forest(mTreeNodes) /\ Top(mTreeNodes, n) /\ p \notin SubOf(mTreeNodes)[n]
      /\ mTreeNodes[p] \in Rows
  BY TreeShapeIs, MayTakeIs
<1>2. PICK L : L = mTreeNodes' /\ L = [mTreeNodes EXCEPT ![p] = Append(@, n)]
  BY DEF TailPlaced
<1>3. Adopts(mTreeNodes, L, p, n)
  BY ONLY <1>1, <1>2, AppendAdopts, p \in Nodes, n \in Nodes
<1>4. PICK x \in Nodes : x = IF Len(mTreeNodes[p]) = 0 THEN p ELSE Tree!Last(mTreeNodes[p])
  <2>1. Len(mTreeNodes[p]) # 0 => Tree!Last(mTreeNodes[p]) \in Nodes
    BY ONLY <1>1, SplitLast, RowLen
  <2> QED BY <2>1
<1>5. PICK i : i = Tree!GetTreeIndex(x) + 1
  OBVIOUS
<1>6. i \in 0..Len(list)
  BY <1>5, PlaceTypes
<1>7. Tree!Placed(p, n, i)
  BY <1>4, <1>5 DEF TailPlaced
<1> QED BY <1>2, <1>3, <1>6, <1>7

\* An insertion behind the last child keeps the shape, wherever the child lies.
LEMMA TailShape ==
  ASSUME TreeShape, NEW p \in Nodes, NEW n \in Nodes, Tree!MayTake(p, n), Plain(p, n),
         TailFault \/ TailPlaced(p, n)
  PROVE  TreeShape'
<1>1. CASE TailFault
  BY <1>1 DEF TailFault, TreeShape
<1>2. CASE TailPlaced(p, n)
  BY <1>2, TailPlaces, TakesShape
<1> QED BY <1>1, <1>2

\* ... and the order, if its parent is not shown.
LEMMA TailUnseen ==
  ASSUME TreeShape, NEW p \in Nodes, NEW n \in Nodes, Tree!MayTake(p, n), Plain(p, n),
         p \notin pTreeView, TailPlaced(p, n)
  PROVE  KeepsTree
<1>1. TreeShape'
  BY TailShape
<1>2. PICK i \in 0..Len(list) : Tree!Placed(p, n, i) /\ Adopts(mTreeNodes, mTreeNodes', p, n)
  BY TailPlaces
<1>3. /\ Forest(mTreeNodes) /\ Top(mTreeNodes, n) /\ p \notin SubOf(mTreeNodes)[n]
      /\ p \notin Tree!Elems(list)
  BY TreeShapeIs, MayTakeIs
<1>4. PICK s \in Rows : s = PreOf(mTreeNodes)[p]
  BY <1>3, PreIs
<1>5. None \in Rows /\ PreOf(mTreeNodes)[p] = Join(s, None)
  BY ONLY <1>4, RowTypes, JoinNone, s \in Rows
<1>6. TreeOrder => TreeOrder'
  BY ONLY <1>2, <1>3, <1>5, TakesOrder, TreeShape, Tree!MayTake(p, n), Plain(p, n), p \notin pTreeView,
          p \in Nodes, n \in Nodes, s \in Rows
<1> QED BY <1>1, <1>6 DEF KeepsTree

\* If no child has children, the last one lies as many places behind its parent as there are.
LEMMA TailFound ==
  ASSUME TreeShape, TreeOrder, NEW p \in Nodes, p \in Tree!Elems(list), mTreeNodes[p] # None,
         \A c \in Tree!Elems(mTreeNodes[p]) : mTreeNodes[c] = None
  PROVE  ~(Tree!GetTreeIndex(Tree!Last(mTreeNodes[p])) > Tree!GetTreeIndex(p) + Len(mTreeNodes[p]))
<1>1. list \in Rows /\ Apart(list) /\ Forest(mTreeNodes)
  BY TreeShapeIs
<1>2. PICK K : K = mTreeNodes /\ Forest(K)
  BY <1>1
<1>3. PICK r \in Rows : r = K[p]
  BY <1>2, KidsApart
<1>4. PICK f \in [Nodes -> Rows] : f = PreOf(K)
  BY <1>2, PreIs
<1>5. Tree!Spread(r, f) = r
  <2>1. Tree!Elems(r) \subseteq Nodes
    BY RowTypes
  <2>2. \A c \in Tree!Elems(r) : f[c] = One(c)
    BY <1>2, <1>3, <1>4, <2>1, LeafRow
  <2>3. \A c \in Tree!Elems(r) : f[c] = Keeping({})[c]
    BY <2>1, <2>2, KeepingTypes
  <2>4. Tree!Spread(r, f) = Tree!Spread(r, Keeping({}))
    BY ONLY <2>3, SpreadSame
  <2>5. Tree!Without(r, {}) = Tree!Spread(r, Keeping({}))
    BY KeepingTypes
  <2>6. Tree!Without(r, {}) = r
    BY WithoutOthers
  <2> QED BY ONLY <2>4, <2>5, <2>6
<1>6. f[p] = Join(One(p), r)
  <2>1. f[p] = Join(One(p), Tree!Spread(K[p], f))
    BY <1>2, <1>4, PreIs
  <2> QED BY ONLY <1>3, <1>5, <2>1
<1>7. PICK h \in Rows, y \in Nodes : r = Join(h, One(y)) /\ y = Tree!Last(r)
  BY <1>2, <1>3, SplitLast
<1>8. PICK u \in Rows, w \in Rows : list = Join(u, Join(f[p], w))
  <2>1. PICK R : R = RootsOf(list, parent)
    OBVIOUS
  <2>2. Tops(K, R)
    BY <1>2, <2>1, ShapeRoots DEF TreeShape
  <2>3. list = Tree!Spread(R, PreOf(K))
    BY <1>2, <2>1, InOrderIs DEF TreeOrder
  <2>4. Segment(K, K, p, Tree!Spread(R, PreOf(K)), Tree!Spread(R, PreOf(K)))
    BY ONLY <1>2, <2>2, <2>3, ListSegment, p \in Nodes, p \in Tree!Elems(list)
  <2> QED BY ONLY <1>4, <2>3, <2>4 DEF Segment
<1>9. One(p) \in Rows /\ One(y) \in Rows /\ None \in Rows /\ Len(One(p)) = 1 /\ Len(One(y)) = 1
  BY RowTypes, RowLen
<1>10. Tree!GetTreeIndex(p) = Len(u)
  <2>1. Join(f[p], w) = Join(One(p), Join(r, w)) /\ Join(r, w) \in Rows
    BY ONLY <1>6, <1>9, JoinJoin, JoinTypes, r \in Rows, w \in Rows
  <2>2. Around(list, u, p, Join(r, w))
    BY ONLY <1>8, <2>1, u \in Rows DEF Around
  <2> QED BY ONLY <1>1, <2>2, IndexIs, p \in Nodes
<1>11. Tree!GetTreeIndex(y) = Len(u) + (1 + Len(h))
  <2>1. PICK k \in Rows : k = Join(One(p), h)
    BY <1>9, JoinTypes
  <2>2. f[p] = Join(k, One(y))
    BY ONLY <1>6, <1>7, <1>9, <2>1, JoinJoin, h \in Rows
  <2>3. One(y) = Join(One(y), None)
    BY ONLY <1>9, JoinNone
  <2>4. list = Join(u, Join(Join(k, One(y)), w))
    BY ONLY <1>8, <2>2
  <2>5. Tree!GetTreeIndex(y) = Len(u) + Len(k)
    BY ONLY <1>1, <1>9, <2>3, <2>4, PlaceInside, u \in Rows, w \in Rows, k \in Rows, y \in Nodes
  <2>6. Len(k) = 1 + Len(h)
    BY ONLY <1>9, <2>1, RowLen, h \in Rows
  <2> QED BY ONLY <2>5, <2>6
<1>12. Len(r) = Len(h) + 1
  <2>1. Len(Join(h, One(y))) = Len(h) + Len(One(y))
    BY ONLY <1>9, RowLen, h \in Rows
  <2> QED BY ONLY <1>7, <1>9, <2>1
<1>13. PICK i \in Nat, j \in Nat : i = Len(u) /\ j = Len(h)
  BY RowLen
<1>14. Tree!GetTreeIndex(y) = i + (1 + j) /\ Tree!GetTreeIndex(p) = i /\ Len(r) = j + 1
  BY ONLY <1>10, <1>11, <1>12, <1>13
<1>15. ~(Tree!GetTreeIndex(y) > Tree!GetTreeIndex(p) + Len(r))
  BY ONLY <1>14, i \in Nat, j \in Nat
<1> QED BY <1>2, <1>3, <1>7, <1>15

\* CTreeNodeUI::AddAt behind the last child, if none has children
LEMMA AddTailKeeps ==
  ASSUME TreeShape, NEW p \in Nodes, NEW n \in Nodes, Tree!OnlyLeaves(p), Tree!AddTail(p, n), Plain(p, n)
  PROVE  KeepsTree
<1>1. /\ Tree!MayTake(p, n)
      /\ \/ /\ p \in pTreeView /\ Len(mTreeNodes[p]) > 0
            /\ Tree!GetTreeIndex(Tree!Last(mTreeNodes[p])) > Tree!GetTreeIndex(p) + Len(mTreeNodes[p])
            /\ TailFault
         \/ TailPlaced(p, n)
  BY AddTailIs
<1>2. /\ Forest(mTreeNodes) /\ mTreeNodes[p] \in Rows
      /\ aliveNodes \cap pTreeView = Tree!Elems(list)
  BY TreeShapeIs
<1>3. Len(mTreeNodes[p]) \in Nat /\ (Len(mTreeNodes[p]) = 0 <=> mTreeNodes[p] = None)
  BY ONLY <1>2, RowLen
<1>4. \A c \in Tree!Elems(mTreeNodes[p]) : mTreeNodes[c] = None
  BY DEF Tree!OnlyLeaves, None
<1>5. CASE TailPlaced(p, n)
  <2>1. LastOf(mTreeNodes)[p] = IF Len(mTreeNodes[p]) = 0 THEN p ELSE Tree!Last(mTreeNodes[p])
    <3>1. CASE mTreeNodes[p] = None
      BY <1>2, <1>3, <3>1, LeafRow
    <3>2. CASE mTreeNodes[p] # None
      <4>1. PICK y : y = Tree!Last(mTreeNodes[p]) /\ y \in Nodes /\ y \in Tree!Elems(mTreeNodes[p])
        BY <1>2, <3>2, SplitLast
      <4>2. LastOf(mTreeNodes)[p] = LastOf(mTreeNodes)[y]
        BY <1>2, <3>2, <4>1, LastIs
      <4>3. LastOf(mTreeNodes)[y] = y
        BY <1>2, <1>4, <4>1, LeafRow
      <4> QED BY ONLY <1>3, <3>2, <4>1, <4>2, <4>3
    <3> QED BY <3>1, <3>2
  <2>2. Tree!Placed(p, n, Tree!GetTreeIndex(LastOf(mTreeNodes)[p]) + 1)
    BY <1>5, <2>1 DEF TailPlaced
  <2>3. mTreeNodes' = [mTreeNodes EXCEPT ![p] = Append(@, n)]
    BY <1>5 DEF TailPlaced
  <2> QED BY <1>1, <2>2, <2>3, AddsLast
<1>6. CASE ~TailPlaced(p, n)
  <2>1. TreeShape'
    BY <1>1, TailShape
  <2>2. ~TreeOrder
    <3>1. p \in aliveNodes
      BY <1>1, MayTakeIs
    <3>2. p \in Tree!Elems(list) /\ mTreeNodes[p] # None
      BY <1>1, <1>2, <1>3, <1>6, <3>1
    <3> QED BY <1>1, <1>4, <1>6, <3>2, TailFound
  <2> QED BY <2>1, <2>2 DEF KeepsTree
<1> QED BY <1>5, <1>6

\* The index of a node that some part of the list begins with.
LEMMA PlaceBefore ==
  ASSUME list \in Rows, Apart(list), NEW u \in Rows, NEW v \in Rows, NEW s \in Rows, NEW t \in Rows,
         list = Join(u, Join(Join(s, t), v)), NEW x \in Nodes, NEW w \in Rows, t = Join(One(x), w)
  PROVE  Tree!GetTreeIndex(x) = Len(u) + Len(s)
<1>1. \A y \in Nodes, z \in Rows : t = Join(One(y), z) =>
        Tree!GetTreeIndex(y) = Len(u) + Len(s) /\ y \in Tree!Elems(list)
  BY ONLY PlaceInside, list \in Rows, Apart(list), u \in Rows, v \in Rows, s \in Rows, t \in Rows,
          list = Join(u, Join(Join(s, t), v))
<1> QED BY <1>1

\* The place of a child that comes before another.
LEMMA BeforePlaces ==
  ASSUME TreeShape, NEW p \in Nodes, NEW n \in Nodes, NEW i \in 0..(Len(mTreeNodes[p]) - 1),
         Tree!AddBefore(p, n, i)
  PROVE  \E k : /\ Tree!Placed(p, n, k) /\ Adopts(mTreeNodes, mTreeNodes', p, n)
                /\ p \in pTreeView => k \in 0..Len(list)
<1>1. /\ Tree!MayTake(p, n)
      /\ Tree!Placed(p, n, Tree!GetTreeIndex(mTreeNodes[p][i + 1]))
      /\ mTreeNodes' = [mTreeNodes EXCEPT ![p] = Tree!InsertAt(@, i + 1, n)]
  BY DEF Tree!AddBefore
<1>2. /\ list \in Rows /\ Apart(list) /\ Forest(mTreeNodes) /\ mTreeNodes \in [Nodes -> Rows]
      /\ aliveNodes \cap pTreeView = Tree!Elems(list)
  BY TreeShapeIs
<1>3. PICK K \in [Nodes -> Rows] : K = mTreeNodes /\ Forest(K) /\ Apart(K[p])
  BY <1>2, KidsApart
<1>4. Top(K, n) /\ p \notin SubOf(K)[n] /\ p \in aliveNodes
  BY <1>1, <1>3, MayTakeIs
<1>5. PICK r \in Rows : r = K[p] /\ Apart(r)
  BY <1>3
<1>6. i \in 0..(Len(r) - 1) /\ Len(r) \in Nat
  BY <1>3, <1>5, RowLen
<1>7. i \in 0..Len(r) /\ i + 1 \in 1..Len(r) /\ (i + 1) - 1 = i
  BY ONLY <1>6
<1>8. PICK c \in Nodes : c = r[i + 1] /\ c \in Tree!Elems(r)
  BY <1>7, SplitAt
<1>9. PICK a \in Rows, b \in Rows : Around(r, a, c, b) /\ Len(a) = i
  <2>1. PICK a, b : Around(r, a, r[i + 1], b) /\ Len(a) = (i + 1) - 1
    BY <1>7, SplitAt
  <2> QED BY <1>7, <1>8, <2>1 DEF Around
<1>10. PICK d \in Rows : d = Join(One(c), b) /\ r = Join(a, d)
  BY <1>9, RowTypes, JoinTypes DEF Around
<1>11. Tree!InsertAt(r, i + 1, n) = Join(Join(a, One(n)), d)
  BY ONLY <1>9, <1>10, InsertedBetween, a \in Rows, d \in Rows, n \in Nodes
<1>12. n \notin Tree!Elems(r)
  BY <1>4, <1>5 DEF Top
<1>13. PICK q \in Rows : /\ q = Tree!InsertAt(r, i + 1, n)
                         /\ Tree!Elems(q) = Tree!Elems(r) \cup {n} /\ Apart(q)
  BY ONLY <1>5, <1>7, <1>12, InsertedTypes, r \in Rows, n \in Nodes
<1>14. PICK L : L = mTreeNodes'
  OBVIOUS
<1>15. L \in [Nodes -> Rows] /\ L[p] = q /\ \A z \in Nodes \ {p} : L[z] = K[z]
  BY <1>1, <1>3, <1>5, <1>13, <1>14
<1>16. Adopts(K, L, p, n)
  BY ONLY <1>4, <1>5, <1>13, <1>15 DEF Adopts
<1>17. PICK k : k = Tree!GetTreeIndex(c)
  OBVIOUS
<1>18. Tree!Placed(p, n, k)
  BY <1>1, <1>3, <1>5, <1>8, <1>17
<1>19. p \in pTreeView => k \in 0..Len(list)
  <2>1. SUFFICES ASSUME p \in pTreeView PROVE k \in 0..Len(list)
    OBVIOUS
  <2>2. c \in pTreeView /\ c \in aliveNodes
    BY <1>3, <1>4, <1>5, <1>8, <2>1 DEF TreeShape, Shape
  <2>3. c \in Tree!Elems(list)
    BY <1>2, <2>2
  <2>4. Len(list) \in Nat /\ Tree!GetTreeIndex(c) \in 0..(Len(list) - 1)
    BY <1>2, <2>3, IndexTypes
  <2> QED BY <1>17, <2>4
<1>20. Adopts(mTreeNodes, mTreeNodes', p, n)
  BY ONLY <1>3, <1>14, <1>16
<1> QED BY <1>18, <1>19, <1>20

\* CTreeNodeUI::AddAt before a child
LEMMA AddBeforeKeeps ==
  ASSUME TreeShape, NEW p \in Nodes, NEW n \in Nodes, NEW i \in 0..(Len(mTreeNodes[p]) - 1),
         Tree!AddBefore(p, n, i), Plain(p, n)
  PROVE  KeepsTree
<1>1. /\ Tree!MayTake(p, n)
      /\ Tree!Placed(p, n, Tree!GetTreeIndex(mTreeNodes[p][i + 1]))
      /\ mTreeNodes' = [mTreeNodes EXCEPT ![p] = Tree!InsertAt(@, i + 1, n)]
  BY DEF Tree!AddBefore
<1>2. /\ list \in Rows /\ Apart(list) /\ Forest(mTreeNodes) /\ mTreeNodes \in [Nodes -> Rows]
      /\ aliveNodes \cap pTreeView = Tree!Elems(list)
  BY TreeShapeIs
<1>3. PICK K \in [Nodes -> Rows] : K = mTreeNodes /\ Forest(K) /\ Apart(K[p])
  BY <1>2, KidsApart
<1>4. /\ Top(K, n) /\ p \notin SubOf(K)[n] /\ p \in aliveNodes
      /\ p \in pTreeView => K[n] = None
  BY <1>1, <1>3, MayTakeIs DEF Plain
<1>5. PICK r \in Rows : r = K[p] /\ Apart(r)
  BY <1>3
<1>6. i \in 0..(Len(r) - 1) /\ Len(r) \in Nat
  BY <1>3, <1>5, RowLen
<1>7. i \in 0..Len(r) /\ i + 1 \in 1..Len(r) /\ (i + 1) - 1 = i
  BY ONLY <1>6
<1>8. PICK c \in Nodes : c = r[i + 1] /\ c \in Tree!Elems(r)
  BY <1>7, SplitAt
<1>9. PICK a \in Rows, b \in Rows : Around(r, a, c, b) /\ Len(a) = i
  <2>1. PICK a, b : Around(r, a, r[i + 1], b) /\ Len(a) = (i + 1) - 1
    BY <1>7, SplitAt
  <2> QED BY <1>7, <1>8, <2>1 DEF Around
<1>10. PICK d \in Rows : d = Join(One(c), b) /\ r = Join(a, d)
  BY <1>9, RowTypes, JoinTypes DEF Around
<1>11. Tree!InsertAt(r, i + 1, n) = Join(Join(a, One(n)), d)
  BY ONLY <1>9, <1>10, InsertedBetween, a \in Rows, d \in Rows, n \in Nodes
<1>12. n \notin Tree!Elems(r)
  BY <1>4, <1>5 DEF Top
<1>13. PICK q \in Rows : /\ q = Tree!InsertAt(r, i + 1, n)
                         /\ Tree!Elems(q) = Tree!Elems(r) \cup {n} /\ Apart(q)
  BY ONLY <1>5, <1>7, <1>12, InsertedTypes, r \in Rows, n \in Nodes
<1>14. PICK L : L = mTreeNodes'
  OBVIOUS
<1>15. L \in [Nodes -> Rows] /\ L[p] = q /\ \A z \in Nodes \ {p} : L[z] = K[z]
  BY <1>1, <1>3, <1>5, <1>13, <1>14
<1>16. Adopts(K, L, p, n)
  BY ONLY <1>4, <1>5, <1>13, <1>15 DEF Adopts
<1>17. PICK f \in [Nodes -> Rows] : f = PreOf(K)
  BY <1>3, PreIs
<1>18. PICK s \in Rows, t \in Rows : s = Join(One(p), Tree!Spread(a, f)) /\ t = Tree!Spread(d, f)
  BY SpreadTypes, RowTypes, JoinTypes
<1>19. PreOf(K)[p] = Join(s, t) /\ PreOf(L)[p] = Join(Join(s, PreOf(K)[n]), t)
  <2>1. K[p] = Join(a, d) /\ L[p] = Join(Join(a, One(n)), d)
    BY ONLY <1>5, <1>10, <1>11, <1>13, <1>15
  <2>2. /\ PreOf(K)[p] = Join(Join(One(p), Tree!Spread(a, PreOf(K))), Tree!Spread(d, PreOf(K)))
        /\ PreOf(L)[p] = Join(Join(Join(One(p), Tree!Spread(a, PreOf(K))), PreOf(K)[n]),
                              Tree!Spread(d, PreOf(K)))
    BY ONLY <1>3, <1>16, <2>1, AdoptsOrder, p \in Nodes, n \in Nodes, a \in Rows, d \in Rows
  <2> QED BY ONLY <1>17, <1>18, <2>2
<1>20. p \in pTreeView => PreOf(L)[p] = Join(Join(s, One(n)), t)
  <2>1. p \in pTreeView => PreOf(K)[n] = One(n)
    BY ONLY <1>3, <1>4, LeafRow, n \in Nodes
  <2> QED BY ONLY <1>19, <2>1
<1>21. \E w \in Rows : t = Join(One(c), w)
  <2>1. PICK g \in Rows, h \in Rows : g = Tree!Spread(K[c], f) /\ h = Tree!Spread(b, f)
    BY SpreadTypes
  <2>2. One(c) \in Rows /\ Join(g, h) \in Rows
    BY RowTypes, JoinTypes
  <2>3. f[c] = Join(One(c), g)
    BY ONLY <1>3, <1>17, <2>1, PreIs, c \in Nodes
  <2>4. t = Join(f[c], h)
    BY ONLY <1>10, <1>18, <2>1, <2>2, SpreadJoin, SpreadSingle, c \in Nodes, b \in Rows, f \in [Nodes -> Rows]
  <2>5. t = Join(One(c), Join(g, h))
    BY ONLY <2>2, <2>3, <2>4, JoinJoin, g \in Rows, h \in Rows
  <2> QED BY ONLY <2>2, <2>5
<1>22. PICK k : k = Tree!GetTreeIndex(c)
  OBVIOUS
<1>23. Tree!Placed(p, n, k)
  BY <1>1, <1>3, <1>5, <1>8, <1>22
<1>24. p \in pTreeView => k \in 0..Len(list)
  <2>1. SUFFICES ASSUME p \in pTreeView PROVE k \in 0..Len(list)
    OBVIOUS
  <2>2. c \in pTreeView /\ c \in aliveNodes
    BY <1>3, <1>4, <1>5, <1>8, <2>1 DEF TreeShape, Shape
  <2>3. c \in Tree!Elems(list)
    BY <1>2, <2>2
  <2>4. Len(list) \in Nat /\ Tree!GetTreeIndex(c) \in 0..(Len(list) - 1)
    BY <1>2, <2>3, IndexTypes
  <2> QED BY <1>22, <2>4
<1>25. \A u, w \in Rows : list = Join(u, Join(Join(s, t), w)) /\ p \in Tree!Elems(list) => k = Len(u) + Len(s)
  <2> SUFFICES ASSUME NEW u \in Rows, NEW w \in Rows, list = Join(u, Join(Join(s, t), w))
               PROVE  k = Len(u) + Len(s)
    OBVIOUS
  <2>1. PICK e \in Rows : t = Join(One(c), e)
    BY <1>21
  <2> QED BY ONLY <1>2, <1>22, <2>1, PlaceBefore, list = Join(u, Join(Join(s, t), w)),
              u \in Rows, w \in Rows, s \in Rows, t \in Rows, c \in Nodes, e \in Rows
<1>26. Adopts(mTreeNodes, mTreeNodes', p, n) /\ PreOf(mTreeNodes)[p] = Join(s, t)
  BY ONLY <1>3, <1>14, <1>16, <1>19
<1>27. p \in pTreeView => PreOf(mTreeNodes')[p] = Join(Join(s, One(n)), t)
  BY ONLY <1>14, <1>20
<1>28. TreeShape'
  BY <1>1, <1>23, <1>24, <1>26, TakesShape
<1>29. TreeOrder => TreeOrder'
  <2>1. Tree!MayTake(p, n)
    BY <1>1
  <2> QED BY ONLY <1>23, <1>25, <1>26, <1>27, <2>1, TakesOrder, TreeShape, Plain(p, n), p \in Nodes, n \in Nodes,
              s \in Rows, t \in Rows
<1> QED BY <1>28, <1>29 DEF KeepsTree

\* A shown child, with all below it, is gone.
LEMMA ShapeCut ==
  ASSUME NEW l, NEW K, NEW P, NEW v, NEW a, NEW r, Shape(l, K, P, v, a, r),
         NEW p \in Nodes, NEW n \in Tree!Elems(K[p]), p \in Tree!Elems(l)
  PROVE  /\ Shape(Tree!Without(l, SubOf(K)[n]), Cut(K, p, n), P, v, a \ SubOf(K)[n], r \cup SubOf(K)[n])
         /\ SubOf(K)[n] \subseteq Tree!Elems(l)
<1>1. /\ Forest(K) /\ n \in Nodes /\ a \cap v = Tree!Elems(l)
      /\ \A q \in Nodes : \A y \in Tree!Elems(K[q]) : P[y] = q /\ (y \in v <=> q \in v) /\ (y \in a <=> q \in a)
  BY SubIs DEF Shape
<1>2. PICK S : S = SubOf(K)[n]
  OBVIOUS
<1>3. n \in v /\ n \in a
  BY <1>1
<1>4. S \subseteq Tree!Elems(l)
  BY <1>1, <1>2, <1>3, ShapeSub
<1>5. PICK L : L = Cut(K, p, n)
  OBVIOUS
<1>6. /\ Fewer(K, L)
      /\ \A x \in Nodes : L[x] = IF x \in S THEN None ELSE IF x = p THEN Tree!Without(K[x], {n}) ELSE K[x]
  BY <1>1, <1>2, <1>5, CutFewer
<1>7. /\ n \in S /\ \A y \in S : Tree!Elems(K[y]) \subseteq S
      /\ \A y \in S : y # n => \A q \in Nodes : y \in Tree!Elems(K[q]) => q \in S
  BY <1>1, <1>2, SubHas, SubParent
<1>8. Tree!Elems(None) = {} /\ Tree!Elems(Tree!Without(K[p], {n})) = Tree!Elems(K[p]) \ {n}
  BY <1>1, RowTypes, KidsApart, WithoutElems
<1>9. \A q \in Nodes : \A y \in Tree!Elems(L[q]) : y \notin S /\ q \notin S
  <2> SUFFICES ASSUME NEW q \in Nodes, NEW y \in Tree!Elems(L[q]) PROVE y \notin S /\ q \notin S
    OBVIOUS
  <2>1. q \notin S
    BY <1>6, <1>8
  <2>2. y \in Tree!Elems(K[q])
    BY <1>6 DEF Fewer
  <2>3. y # n
    <3>1. y = n => q = p
      BY ONLY <1>1, <2>2, p \in Nodes, q \in Nodes, n \in Tree!Elems(K[p])
    <3>2. q = p => Tree!Elems(L[q]) = Tree!Elems(K[p]) \ {n}
      BY ONLY <1>6, <1>8, <2>1, p \in Nodes
    <3> QED BY ONLY <3>1, <3>2, y \in Tree!Elems(L[q])
  <2> QED BY ONLY <1>7, <2>1, <2>2, <2>3, q \in Nodes
<1>10. \A q \in Nodes : \A y \in Tree!Elems(K[q]) :
         y \in Tree!Elems(l) /\ y \notin S => y \in Tree!Elems(L[q])
  BY <1>6, <1>7, <1>8
<1>11. Shape(Tree!Without(l, S), L, P, v, a \ S, r \cup S)
  BY <1>4, <1>6, <1>9, <1>10, ShapeLoses
<1> QED BY <1>2, <1>4, <1>5, <1>11

\* A child that is not shown has left.
LEMMA ShapeCutUnseen ==
  ASSUME NEW l, NEW K, NEW P, NEW v, NEW a, NEW r, Shape(l, K, P, v, a, r),
         NEW p \in Nodes, NEW n \in Tree!Elems(K[p]), p \notin v
  PROVE  Shape(l, Cut(K, p, n), P, v, a, r)
<1>1. /\ Forest(K) /\ n \in Nodes /\ a \cap v = Tree!Elems(l) /\ l \in Rows
      /\ \A q \in Nodes : \A y \in Tree!Elems(K[q]) : y \in v <=> q \in v
  <2>1. /\ Forest(K) /\ a \cap v = Tree!Elems(l) /\ l \in Rows
        /\ \A q \in Nodes : \A y \in Tree!Elems(K[q]) : y \in v <=> q \in v
    BY DEF Shape
  <2>2. n \in Nodes
    BY <2>1, SubIs
  <2> QED BY ONLY <2>1, <2>2
<1>2. PICK L : L = Cut(K, p, n)
  OBVIOUS
<1>3. /\ Fewer(K, L)
      /\ \A x \in Nodes : L[x] = IF x \in SubOf(K)[n] THEN None
                                 ELSE IF x = p THEN Tree!Without(K[x], {n}) ELSE K[x]
  BY <1>1, <1>2, CutFewer
<1>4. n \notin v
  BY <1>1
<1>5. \A x \in SubOf(K)[n] : x \notin v
  BY <1>1, <1>4, ShapeSub
<1>6. \A q \in Nodes : \A y \in Tree!Elems(K[q]) :
        y \in Tree!Elems(l) /\ y \notin {} => y \in Tree!Elems(L[q])
  BY <1>1, <1>3, <1>5
<1>7. Shape(Tree!Without(l, {}), L, P, v, a \ {}, r \cup {})
  BY <1>3, <1>6, ShapeLoses
<1>8. Tree!Without(l, {}) = l /\ a \ {} = a /\ r \cup {} = r
  BY <1>1, WithoutOthers
<1> QED BY <1>2, <1>7, <1>8

\* A root of the list, with all below it, is gone.
LEMMA ShapeRoot ==
  ASSUME NEW l, NEW K, NEW P, NEW v, NEW a, NEW r, Shape(l, K, P, v, a, r),
         NEW n \in Nodes, n \in Tree!Elems(l), P[n] = NULL
  PROVE  /\ Shape(Tree!Without(l, SubOf(K)[n]), Shut(K, SubOf(K)[n]), P, v,
                  a \ SubOf(K)[n], r \cup SubOf(K)[n])
         /\ SubOf(K)[n] \subseteq Tree!Elems(l)
<1>1. Forest(K) /\ a \cap v = Tree!Elems(l) /\ Top(K, n)
  <2>1. Top(K, n)
    BY ShapeTop
  <2> QED BY <2>1 DEF Shape
<1>2. PICK S : S = SubOf(K)[n]
  OBVIOUS
<1>3. S \subseteq Tree!Elems(l)
  BY <1>1, <1>2, ShapeSub
<1>4. PICK L : L = Shut(K, S)
  OBVIOUS
<1>5. Fewer(K, L) /\ \A x \in Nodes : L[x] = IF x \in S THEN None ELSE K[x]
  BY <1>1, <1>4, ShutFewer
<1>6. /\ \A y \in S : Tree!Elems(K[y]) \subseteq S
      /\ \A y \in S : y # n => \A q \in Nodes : y \in Tree!Elems(K[q]) => q \in S
  BY <1>1, <1>2, SubHas, SubParent
<1>7. Tree!Elems(None) = {}
  BY RowTypes
<1>8. \A q \in Nodes : \A y \in Tree!Elems(L[q]) : y \notin S /\ q \notin S
  BY <1>1, <1>5, <1>6, <1>7 DEF Top
<1>9. \A q \in Nodes : \A y \in Tree!Elems(K[q]) :
        y \in Tree!Elems(l) /\ y \notin S => y \in Tree!Elems(L[q])
  BY <1>5, <1>6
<1>10. Shape(Tree!Without(l, S), L, P, v, a \ S, r \cup S)
  BY <1>3, <1>5, <1>8, <1>9, ShapeLoses
<1> QED BY <1>2, <1>3, <1>4, <1>10

\* All below a shown node have a shown parent, and none below one that is not shown has.
LEMMA KnownBelow ==
  ASSUME TreeShape, NEW n \in Nodes
  PROVE  /\ n \in pTreeView =>
              {x \in SubOf(mTreeNodes)[n] : x = n \/ x \in Known(mTreeNodes)} = SubOf(mTreeNodes)[n]
         /\ n \in pTreeView /\ n \in Known(mTreeNodes) =>
              {x \in SubOf(mTreeNodes)[n] : x \in Known(mTreeNodes)} = SubOf(mTreeNodes)[n]
         /\ n \notin pTreeView => {x \in SubOf(mTreeNodes)[n] : x \in Known(mTreeNodes)} = {}
<1>1. /\ Forest(mTreeNodes)
      /\ \A q \in Nodes : \A y \in Tree!Elems(mTreeNodes[q]) : y \in pTreeView <=> q \in pTreeView
  BY DEF TreeShape, Shape
<1>2. \A y \in SubOf(mTreeNodes)[n] : y \in Nodes /\ (y \in pTreeView <=> n \in pTreeView)
  BY ShapeSub DEF TreeShape
<1>3. \A y \in SubOf(mTreeNodes)[n] : y # n =>
        \E q \in SubOf(mTreeNodes)[n] : y \in Tree!Elems(mTreeNodes[q])
  BY <1>1, SubParent
<1>4. ASSUME n \in pTreeView PROVE \A y \in SubOf(mTreeNodes)[n] : y # n => y \in Known(mTreeNodes)
  BY <1>2, <1>3, <1>4 DEF Known
<1>5. ASSUME n \notin pTreeView PROVE \A y \in SubOf(mTreeNodes)[n] : y \notin Known(mTreeNodes)
  BY <1>1, <1>2, <1>5 DEF Known
<1> QED BY <1>4, <1>5

LEMMA NowIs ==
  ASSUME TreeShape
  PROVE  /\ Tree!Now \in Tree!States /\ Tree!Now = St(list, mTreeNodes, aliveNodes)
         /\ Tree!Now.list = list /\ Tree!Now.kids = mTreeNodes /\ Tree!Now.alive = aliveNodes
<1>1. list \in Rows /\ Forest(mTreeNodes) /\ aliveNodes \in SUBSET Nodes
  BY TreeShapeIs
<1>2. Tree!Now = St(list, mTreeNodes, aliveNodes)
  BY DEF Tree!Now, St
<1>3. /\ St(list, mTreeNodes, aliveNodes) \in Tree!States
      /\ St(list, mTreeNodes, aliveNodes).list = list
      /\ St(list, mTreeNodes, aliveNodes).kids = mTreeNodes
      /\ St(list, mTreeNodes, aliveNodes).alive = aliveNodes
  BY ONLY <1>1, StateTypes
<1> QED BY ONLY <1>2, <1>3

\* What it means that a call leaves the view without the nodes of X.
LEMMA BecomesRid ==
  ASSUME TreeShape, NEW L, NEW X, Tree!Becomes(Rid(Tree!Now, L, X))
  PROVE  /\ list' = Tree!Without(list, X) /\ mTreeNodes' = L
         /\ aliveNodes' = aliveNodes \ (X \cap Tree!Elems(list))
<1>1. PICK s \in Tree!States : s = Tree!Now
  BY NowIs
<1>2. RidIs(s, L, X)
  BY RidTypes
<1>3. /\ list' = Rid(s, L, X).list /\ mTreeNodes' = Rid(s, L, X).kids
      /\ aliveNodes' = Rid(s, L, X).alive
  BY <1>1 DEF Tree!Becomes
<1> QED BY <1>1, <1>2, <1>3, NowIs DEF RidIs

\* CTreeNodeUI::RemoveAt and Remove
LEMMA RemoveChildKeeps ==
  ASSUME TreeShape, NEW p \in Nodes, NEW n \in Nodes, Tree!RemoveChild(p, n)
  PROVE  KeepsTree
<1>1. /\ p \in aliveNodes /\ n \in Tree!Elems(mTreeNodes[p])
      /\ Tree!Becomes(Tree!After[Tree!NodeRemoveAt(Tree!Now, p, n)])
      /\ removed' = IF p \in pTreeView THEN removed \cup Tree!Subtree(n) ELSE removed
      /\ parent' = parent /\ pTreeView' = pTreeView /\ fault' = fault
  BY DEF Tree!RemoveChild
<1>2. /\ list \in Rows /\ Forest(mTreeNodes) /\ aliveNodes \cap pTreeView = Tree!Elems(list)
      /\ aliveNodes \in SUBSET Nodes
      /\ n \in pTreeView <=> p \in pTreeView
  BY <1>1 DEF TreeShape, Shape
<1>3. PICK X : X = {x \in SubOf(mTreeNodes)[n] : x \in Known(mTreeNodes)}
  OBVIOUS
<1>4. Tree!After[Tree!NodeRemoveAt(Tree!Now, p, n)] = Rid(Tree!Now, Cut(mTreeNodes, p, n), X)
  <2>1. PICK s \in Tree!States : s = Tree!Now /\ s.kids = mTreeNodes
    BY NowIs
  <2>2. Tree!After[Tree!NodeRemoveAt(s, p, n)] = CutOff(s, p, n)
    BY RemoveAtIs
  <2>3. CutOff(s, p, n) = Rid(s, Cut(mTreeNodes, p, n), X)
    BY ONLY <1>1, <1>3, <2>1 DEF CutOff
  <2> QED BY ONLY <2>1, <2>2, <2>3
<1>5. /\ list' = Tree!Without(list, X) /\ mTreeNodes' = Cut(mTreeNodes, p, n)
      /\ aliveNodes' = aliveNodes \ (X \cap Tree!Elems(list))
  BY <1>1, <1>4, BecomesRid
<1>6. Shape(list, mTreeNodes, parent, pTreeView, aliveNodes, removed)
  BY DEF TreeShape
<1>7. CASE p \in pTreeView
  <2>1. p \in Tree!Elems(list) /\ n \in Known(mTreeNodes)
    BY <1>1, <1>2, <1>7 DEF Known
  <2>2. X = SubOf(mTreeNodes)[n] /\ Tree!Subtree(n) = SubOf(mTreeNodes)[n]
    BY <1>2, <1>3, <1>7, <2>1, KnownBelow, SubtreeIs
  <2>3. /\ Shape(Tree!Without(list, X), Cut(mTreeNodes, p, n), parent, pTreeView, aliveNodes \ X, removed \cup X)
        /\ X \subseteq Tree!Elems(list)
    BY ONLY <1>1, <1>6, <2>1, <2>2, ShapeCut, p \in Nodes
  <2>4. aliveNodes' = aliveNodes \ X /\ removed' = removed \cup X
    BY <1>1, <1>5, <1>7, <2>2, <2>3
  <2>5. TreeShape'
    BY ONLY <1>1, <1>5, <2>3, <2>4 DEF TreeShape
  <2>6. InOrder(list, mTreeNodes, parent) => InOrder(Tree!Without(list, X), Cut(mTreeNodes, p, n), parent)
    BY ONLY <1>1, <1>6, <2>1, <2>2, OrderCut, p \in Nodes
  <2>7. TreeOrder => TreeOrder'
    BY ONLY <1>1, <1>5, <2>6 DEF TreeOrder
  <2> QED BY <2>5, <2>7 DEF KeepsTree
<1>8. CASE p \notin pTreeView
  <2>1. X = {}
    BY <1>2, <1>3, <1>8, KnownBelow
  <2>2. list' = list /\ aliveNodes' = aliveNodes /\ removed' = removed
    BY <1>1, <1>2, <1>5, <1>8, <2>1, WithoutOthers
  <2>3. Shape(list, Cut(mTreeNodes, p, n), parent, pTreeView, aliveNodes, removed)
    BY ONLY <1>1, <1>6, <1>8, ShapeCutUnseen, p \in Nodes
  <2>4. TreeShape'
    BY ONLY <1>1, <1>5, <2>2, <2>3 DEF TreeShape
  <2>5. InOrder(list, mTreeNodes, parent) => InOrder(list, Cut(mTreeNodes, p, n), parent)
    BY ONLY <1>1, <1>6, <1>8, OrderCutUnseen, p \in Nodes
  <2>6. TreeOrder => TreeOrder'
    BY ONLY <1>1, <1>5, <2>2, <2>5 DEF TreeOrder
  <2> QED BY <2>4, <2>6 DEF KeepsTree
<1> QED BY <1>7, <1>8

\* A root with one child or none, with all below it, is gone.
LEMMA RootGoes ==
  ASSUME TreeShape, NEW n \in Nodes, n \in Tree!Elems(list), parent[n] = NULL,
         Len(mTreeNodes[n]) = 0 \/ Len(mTreeNodes[n]) = 1,
         Tree!Becomes(Tree!After[Tree!ViewRemove(Tree!Now, n)]),
         removed' = removed \cup Tree!Subtree(n),
         parent' = parent, pTreeView' = pTreeView, fault' = fault
  PROVE  KeepsTree
<1>1. /\ list \in Rows /\ Forest(mTreeNodes) /\ aliveNodes \cap pTreeView = Tree!Elems(list)
      /\ aliveNodes \in SUBSET Nodes /\ mTreeNodes[n] \in Rows
  BY TreeShapeIs
<1>2. mTreeNodes[n] = None \/ \E c \in Nodes : mTreeNodes[n] = One(c)
  <2>1. CASE Len(mTreeNodes[n]) = 0
    BY <1>1, <2>1, RowLen
  <2>2. CASE Len(mTreeNodes[n]) = 1
    <3>1. PICK m \in Rows : m = mTreeNodes[n] /\ Len(m) = 1
      BY <1>1, <2>2
    <3>2. 1 \in 1..Len(m)
      BY ONLY <3>1
    <3>3. PICK a, b : Around(m, a, m[1], b) /\ Len(a) = 1 - 1 /\ m[1] \in Nodes
      BY <3>2, SplitAt
    <3>4. PICK c \in Nodes : c = m[1]
      BY <3>3
    <3>5. a \in Rows /\ b \in Rows /\ m = Join(a, Join(One(c), b)) /\ Len(a) = 0
      BY ONLY <3>3, <3>4 DEF Around
    <3>6. a = None
      BY ONLY <3>5, RowLen
    <3>7. One(c) \in Rows /\ Join(One(c), b) \in Rows
      BY <3>5, RowTypes, JoinTypes
    <3>8. m = Join(One(c), b)
      BY ONLY <3>5, <3>6, <3>7, JoinNone
    <3>9. Len(m) = 1 + Len(b) /\ Len(b) \in Nat
      BY ONLY <3>5, <3>7, <3>8, RowLen, c \in Nodes
    <3>10. Len(b) = 0
      <4>1. PICK k \in Nat : k = Len(b)
        BY <3>9
      <4>2. 1 = 1 + k
        BY ONLY <3>1, <3>9, <4>1
      <4>3. k = 0
        BY ONLY <4>2, k \in Nat
      <4> QED BY ONLY <4>1, <4>3
    <3>11. b = None
      BY ONLY <3>5, <3>10, RowLen
    <3>12. m = One(c)
      BY ONLY <3>7, <3>8, <3>11, JoinNone
    <3> QED BY <3>1, <3>12
  <2> QED BY <2>1, <2>2
<1>3. PICK X : X = {x \in SubOf(mTreeNodes)[n] : x = n \/ x \in Known(mTreeNodes)}
  OBVIOUS
<1>4. Tree!After[Tree!ViewRemove(Tree!Now, n)] = Rid(Tree!Now, Shut(mTreeNodes, SubOf(mTreeNodes)[n]), X)
  <2>1. PICK s \in Tree!States : s = Tree!Now /\ s.kids = mTreeNodes
    BY NowIs
  <2>2. s.kids[n] = None \/ \E c \in Nodes : s.kids[n] = One(c)
    BY ONLY <1>2, <2>1
  <2>3. Tree!After[Tree!ViewRemove(s, n)] =
          Rid(s, Shut(s.kids, SubOf(s.kids)[n]), {x \in SubOf(s.kids)[n] : x = n \/ x \in Known(s.kids)})
    BY ONLY <2>2, ViewRemoveIs, s \in Tree!States, n \in Nodes
  <2> QED BY ONLY <1>3, <2>1, <2>3
<1>5. /\ list' = Tree!Without(list, X) /\ mTreeNodes' = Shut(mTreeNodes, SubOf(mTreeNodes)[n])
      /\ aliveNodes' = aliveNodes \ (X \cap Tree!Elems(list))
  BY <1>4, BecomesRid
<1>6. Shape(list, mTreeNodes, parent, pTreeView, aliveNodes, removed)
  BY DEF TreeShape
<1>7. X = SubOf(mTreeNodes)[n] /\ Tree!Subtree(n) = SubOf(mTreeNodes)[n]
  BY <1>1, <1>3, KnownBelow, SubtreeIs
<1>8. /\ Shape(Tree!Without(list, X), Shut(mTreeNodes, X), parent, pTreeView, aliveNodes \ X, removed \cup X)
      /\ X \subseteq Tree!Elems(list)
  BY ONLY <1>6, <1>7, ShapeRoot, n \in Nodes, n \in Tree!Elems(list), parent[n] = NULL
<1>9. mTreeNodes' = Shut(mTreeNodes, X) /\ aliveNodes' = aliveNodes \ X /\ removed' = removed \cup X
  BY <1>5, <1>7, <1>8
<1>10. TreeShape'
  BY ONLY <1>5, <1>8, <1>9, parent' = parent, pTreeView' = pTreeView DEF TreeShape
<1>11. InOrder(list, mTreeNodes, parent) => InOrder(Tree!Without(list, X), Shut(mTreeNodes, X), parent)
  BY ONLY <1>6, <1>7, OrderRoot, n \in Nodes, n \in Tree!Elems(list), parent[n] = NULL
<1>12. TreeOrder => TreeOrder'
  BY ONLY <1>5, <1>9, <1>11, parent' = parent, fault' = fault DEF TreeOrder
<1> QED BY <1>10, <1>12 DEF KeepsTree

\* CTreeViewUI::Add
LEMMA AddRootKeeps ==
  ASSUME TreeShape, NEW n \in Nodes, Tree!Add(n)
  PROVE  KeepsTree
<1>1. /\ n \in aliveNodes /\ parent[n] = NULL /\ n \notin Tree!Elems(list)
      /\ list' = list \o Tree!Preorder(n)
      /\ pTreeView' = pTreeView \cup Tree!Subtree(n)
      /\ mTreeNodes' = mTreeNodes /\ parent' = parent /\ aliveNodes' = aliveNodes
      /\ removed' = removed /\ fault' = fault
  BY DEF Tree!Add, Tree!New
<1>2. Forest(mTreeNodes) /\ Shape(list, mTreeNodes, parent, pTreeView, aliveNodes, removed)
  BY TreeShapeIs DEF TreeShape
<1>3. Tree!Preorder(n) = PreOf(mTreeNodes)[n] /\ Tree!Subtree(n) = SubOf(mTreeNodes)[n]
  BY <1>2, PreorderIs, SubtreeIs
<1>4. list' = Join(list, PreOf(mTreeNodes)[n])
  BY ONLY <1>1, <1>3 DEF Join
<1>5. Shape(Join(list, PreOf(mTreeNodes)[n]), mTreeNodes, parent,
            pTreeView \cup SubOf(mTreeNodes)[n], aliveNodes, removed)
  BY ONLY <1>1, <1>2, ShapeShows, n \in Nodes
<1>6. TreeShape'
  BY ONLY <1>1, <1>3, <1>4, <1>5 DEF TreeShape
<1>7. InOrder(list, mTreeNodes, parent) =>
        InOrder(Join(list, PreOf(mTreeNodes)[n]), mTreeNodes, parent)
  BY ONLY <1>1, <1>2, OrderShows, n \in Nodes
<1>8. TreeOrder => TreeOrder'
  BY ONLY <1>1, <1>4, <1>7 DEF TreeOrder
<1> QED BY <1>6, <1>8 DEF KeepsTree

\* Only an insertion of a node with children into a shown tree, and a removal by the view, leave
\* the tree and the list apart; nothing is followed from there, but what is promised still holds.
Torn == Tree!TypeOK /\ TreeIntact /\ astray \in {"branch", "view"}

LEMMA TornBy ==
  ASSUME fault' \in BOOLEAN, astray' \in {"branch", "view"},
         list' \in Rows, mTreeNodes' \in [Nodes -> Rows], parent' \in [Nodes -> Nodes \cup {NULL}],
         pTreeView' \in SUBSET Nodes, aliveNodes' \in SUBSET Nodes, removed' \in SUBSET Nodes,
         Tree!Elems(list') \subseteq aliveNodes', Nodes \ aliveNodes' \subseteq removed',
         aliveNodes' \cap pTreeView' \subseteq Tree!Elems(list'),
         astray' = "branch" =>
           /\ removed' \cap Tree!Elems(list') = {}
           /\ \A x \in aliveNodes' : Tree!Elems(mTreeNodes'[x]) \subseteq aliveNodes'
           /\ \A x \in Tree!Elems(list') : parent'[x] \in aliveNodes' \cup {NULL}
  PROVE  Torn'
<1>1. Tree!TypeOK'
  <2>1. astray' \in Tree!Astray
    BY DEF Tree!Astray
  <2> QED BY <2>1 DEF Tree!TypeOK, Rows
<1>2. astray' # "no" /\ (astray' # "view" => astray' = "branch")
  OBVIOUS
<1>3. Tree!ListIsPreorder'
  BY <1>2 DEF Tree!ListIsPreorder
<1>4. Tree!RemovedIsGone' /\ Tree!NobodyKeepsTheDead'
  BY <1>2 DEF Tree!RemovedIsGone, Tree!NobodyKeepsTheDead
<1>5. Tree!OthersStay'
  BY DEF Tree!OthersStay
<1> QED BY <1>1, <1>3, <1>4, <1>5 DEF Torn, TreeIntact

\* The first child of each node, the first child of that, and so on.
LineOf(K) ==
  LET line[m \in Nodes] == IF K[m] = <<>> THEN <<m>> ELSE <<m>> \o line[Head(K[m])]
  IN line

LEMMA FirstLineIs ==
  ASSUME NEW n
  PROVE  Tree!FirstLine(n) = LineOf(mTreeNodes)[n]
BY DEF Tree!FirstLine, LineOf

LEMMA HeadIs ==
  ASSUME NEW r \in Rows, r # None
  PROVE  Head(r) \in Nodes /\ Head(r) \in Tree!Elems(r)
<1>1. r \in Seq(Nodes) /\ r # <<>>
  BY DEF Rows, None
<1>2. Len(r) \in Nat /\ Len(r) > 0
  BY <1>1, EmptySeq
<1>3. Head(r) = r[1] /\ 1 \in DOMAIN r /\ r[1] \in Nodes
  BY <1>1, <1>2
<1>4. Head(r) \in Tree!Elems(r)
  BY ONLY <1>3 DEF Tree!Elems
<1> QED BY <1>3, <1>4

LEMMA LineIs ==
  ASSUME NEW K, Forest(K)
  PROVE  /\ LineOf(K) \in [Nodes -> Rows]
         /\ \A x \in Nodes : LineOf(K)[x] = IF K[x] = None THEN One(x)
                                            ELSE Join(One(x), LineOf(K)[Head(K[x])])
<1> DEFINE X == Rows
           val(x, f) == IF K[x] = None THEN One(x) ELSE Join(One(x), f[Head(K[x])])
           step == [x \in Nodes |-> [f \in [Nodes -> X] |-> val(x, f)]]
<1>1. \A x \in Nodes : One(x) \in Rows
                       /\ (K[x] # None => Head(K[x]) \in Nodes /\ Head(K[x]) \in Tree!Elems(K[x]))
  <2> SUFFICES ASSUME NEW x \in Nodes
               PROVE  One(x) \in Rows
                      /\ (K[x] # None => Head(K[x]) \in Nodes /\ Head(K[x]) \in Tree!Elems(K[x]))
    OBVIOUS
  <2>1. PICK s \in Rows : s = K[x]
    BY KidsApart
  <2> QED BY <2>1, HeadIs, RowTypes
<1>2. \A x \in Nodes : \A f \in [Nodes -> X] : val(x, f) \in X
  <2> SUFFICES ASSUME NEW x \in Nodes, NEW f \in [Nodes -> Rows] PROVE val(x, f) \in Rows
    OBVIOUS
  <2>1. K[x] # None => Join(One(x), f[Head(K[x])]) \in Rows
    BY <1>1, JoinTypes
  <2> QED BY <1>1, <2>1
<1>3. step \in [Nodes -> [[Nodes -> X] -> X]]
  <2> HIDE DEF val, X
  <2> QED BY ONLY <1>2
<1>4. ASSUME NEW x \in Nodes, NEW f \in [Nodes -> X], NEW g \in [Nodes -> X],
             \A y \in Kids(K)[x] : f[y] = g[y]
      PROVE  step[x][f] = step[x][g]
  <2>1. \A y \in Tree!Elems(K[x]) : f[y] = g[y]
    BY <1>4, KidsTypes
  <2>2. val(x, f) = val(x, g)
    BY <1>1, <2>1
  <2> HIDE DEF val, X
  <2> QED BY ONLY <2>2, x \in Nodes, f \in [Nodes -> X], g \in [Nodes -> X]
<1>5. None \in X
  BY RowTypes
<1>6. \A x \in Nodes : \A f \in [Nodes -> X] : step[x][f] = val(x, f)
  <2> HIDE DEF val, X
  <2> QED OBVIOUS
<1> HIDE DEF step, X
<1>7. PICK f : SolvesOn(Nodes, f, Nodes, X, Kids(K), step)
  <2>1. Founded(Nodes, X, Kids(K), step)
    BY <1>4, KidsTypes DEF Founded
  <2> QED BY ONLY <1>3, <1>5, <2>1, SolvesAll
<1>8. f \in [Nodes -> Rows] /\ \A x \in Nodes : f[x] = step[x][f]
  BY <1>7 DEF SolvesOn, X
<1>9. \A x \in Nodes : f[x] = val(x, f)
  <2> HIDE DEF val
  <2> QED BY ONLY <1>6, <1>8 DEF X
<1> DEFINE line(h) == h = [m \in Nodes |-> IF K[m] = <<>> THEN <<m>> ELSE <<m>> \o h[Head(K[m])]]
<1>10. line(f)
  BY ONLY <1>8, <1>9 DEF None, One, Join
<1>11. PICK h : h = CHOOSE g : line(g)
  OBVIOUS
<1>12. LineOf(K) = h
  BY ONLY <1>11 DEF LineOf
<1>13. line(h)
  <2> HIDE DEF line
  <2> QED BY ONLY <1>10, <1>11
<1>14. \A m \in Nodes : h[m] = val(m, h)
  BY ONLY <1>13 DEF None, One, Join
<1>15. \A m \in Nodes : h[m] = f[m]
  <2> DEFINE Bad == {m \in Nodes : h[m] # f[m]}
  <2>1. SUFFICES ASSUME Bad # {} PROVE FALSE
    OBVIOUS
  <2>2. PICK m \in Bad : Kids(K)[m] \cap Bad = {}
    <3>1. Bad \in SUBSET Nodes
      OBVIOUS
    <3> HIDE DEF Bad
    <3> QED BY <2>1, <3>1, KidsTypes
  <2>3. m \in Nodes /\ h[m] # f[m]
    OBVIOUS
  <2>4. K[m] # None => h[Head(K[m])] = f[Head(K[m])]
    BY <1>1, <2>2, <2>3, KidsTypes
  <2> QED BY ONLY <1>9, <1>14, <2>3, <2>4
<1>16. h \in [Nodes -> Rows]
  BY ONLY <1>8, <1>13, <1>15
<1> QED BY ONLY <1>12, <1>14, <1>16

\* They are below it.
LEMMA LineElems ==
  ASSUME NEW K, Forest(K), NEW n \in Nodes
  PROVE  n \in Tree!Elems(LineOf(K)[n]) /\ Tree!Elems(LineOf(K)[n]) \subseteq SubOf(K)[n]
<1>1. PICK f \in [Nodes -> Rows] : f = LineOf(K)
  BY LineIs
<1>2. PICK Sub \in [Nodes -> SUBSET Nodes] : Sub = SubOf(K)
  BY SubIs
<1>3. \A x \in Nodes : /\ x \in Sub[x] /\ One(x) \in Rows /\ Tree!Elems(One(x)) = {x}
                       /\ \A c \in Tree!Elems(K[x]) : c \in Nodes /\ Sub[c] \subseteq Sub[x]
  BY <1>2, SubHas, SubIs, RowTypes
<1>4. \A x \in Nodes : \/ Tree!Elems(f[x]) = {x}
                       \/ \E c \in Tree!Elems(K[x]) : Tree!Elems(f[x]) = {x} \cup Tree!Elems(f[c])
  <2> SUFFICES ASSUME NEW x \in Nodes
               PROVE  \/ Tree!Elems(f[x]) = {x}
                      \/ \E c \in Tree!Elems(K[x]) : Tree!Elems(f[x]) = {x} \cup Tree!Elems(f[c])
    OBVIOUS
  <2>1. CASE K[x] = None
    <3>1. f[x] = One(x)
      BY <1>1, <2>1, LineIs
    <3> QED BY ONLY <1>3, <3>1, x \in Nodes
  <2>2. CASE K[x] # None
    <3>1. PICK r \in Rows : r = K[x]
      BY KidsApart
    <3>2. PICK c \in Nodes : c = Head(K[x]) /\ c \in Tree!Elems(K[x])
      BY <2>2, <3>1, HeadIs
    <3>3. f[x] = Join(One(x), f[c])
      BY <1>1, <2>2, <3>2, LineIs
    <3>4. Tree!Elems(f[x]) = {x} \cup Tree!Elems(f[c])
      BY ONLY <1>3, <3>3, JoinElems, x \in Nodes, c \in Nodes, f \in [Nodes -> Rows]
    <3> QED BY <3>2, <3>4
  <2> QED BY <2>1, <2>2
<1> DEFINE Bad == {x \in Nodes : ~(Tree!Elems(f[x]) \subseteq Sub[x])}
<1>5. Bad = {}
  <2>1. SUFFICES ASSUME Bad # {} PROVE FALSE
    OBVIOUS
  <2>2. PICK x \in Bad : Kids(K)[x] \cap Bad = {}
    <3>1. Bad \in SUBSET Nodes
      OBVIOUS
    <3> HIDE DEF Bad
    <3> QED BY <2>1, <3>1, KidsTypes
  <2>3. x \in Nodes /\ ~(Tree!Elems(f[x]) \subseteq Sub[x])
    OBVIOUS
  <2>4. \A c \in Tree!Elems(K[x]) : Tree!Elems(f[c]) \subseteq Sub[c]
    BY <1>3, <2>2, <2>3, KidsTypes
  <2> QED BY ONLY <1>3, <1>4, <2>3, <2>4
<1>6. n \in Tree!Elems(f[n])
  BY <1>4
<1>7. Tree!Elems(f[n]) \subseteq Sub[n]
  BY <1>5
<1> QED BY ONLY <1>1, <1>2, <1>6, <1>7

\* A row put into another.
LEMMA PutBetween ==
  ASSUME NEW s \in Rows, NEW k \in 0..Len(s), NEW u \in Rows
  PROVE  /\ SubSeq(s, 1, k) \o u \o SubSeq(s, k + 1, Len(s)) \in Rows
         /\ Tree!Elems(SubSeq(s, 1, k) \o u \o SubSeq(s, k + 1, Len(s))) = Tree!Elems(s) \cup Tree!Elems(u)
<1>0. s \in Seq(Nodes) /\ Len(s) \in Nat
  BY DEF Rows
<1>1. PICK a \in Rows : a = SubSeq(s, 1, k)
  <2>1. 1 \in Int /\ k \in Int /\ \A i \in 1..k : s[i] \in Nodes
    BY ONLY <1>0, k \in 0..Len(s)
  <2>2. SubSeq(s, 1, k) \in Seq(Nodes)
    BY ONLY <2>1, SubSeqProperties
  <2> QED BY ONLY <2>2 DEF Rows
<1>2. PICK b \in Rows : b = SubSeq(s, k + 1, Len(s))
  <2>1. k + 1 \in Int /\ Len(s) \in Int /\ \A i \in (k + 1)..Len(s) : s[i] \in Nodes
    BY ONLY <1>0, k \in 0..Len(s)
  <2>2. SubSeq(s, k + 1, Len(s)) \in Seq(Nodes)
    BY ONLY <2>1, SubSeqProperties
  <2> QED BY ONLY <2>2 DEF Rows
<1>3. s = Join(a, b)
  <2>1. SubSeq(s, 1, k) \o SubSeq(s, k + 1, Len(s)) = SubSeq(s, 1, Len(s))
    <3>1. 1 \in 1..(Len(s) + 1) /\ k \in (1 - 1)..Len(s) /\ Len(s) \in k..Len(s)
      BY <1>0
    <3> QED BY ONLY <1>0, <3>1, ConcatAdjacentSubSeq
  <2>2. SubSeq(s, 1, Len(s)) = s
    BY ONLY <1>0, SubSeqFull
  <2> QED BY ONLY <1>1, <1>2, <2>1, <2>2 DEF Join
<1>4. PICK m : m = Join(Join(a, u), b) /\ m = SubSeq(s, 1, k) \o u \o SubSeq(s, k + 1, Len(s))
  BY ONLY <1>1, <1>2 DEF Join
<1>5. Join(a, u) \in Rows
  BY JoinTypes
<1>6. m \in Rows
  BY ONLY <1>4, <1>5, JoinTypes, b \in Rows
<1>7. Tree!Elems(m) = (Tree!Elems(a) \cup Tree!Elems(u)) \cup Tree!Elems(b)
  BY ONLY <1>4, <1>5, JoinElems, a \in Rows, u \in Rows, b \in Rows
<1>8. Tree!Elems(s) = Tree!Elems(a) \cup Tree!Elems(b)
  BY ONLY <1>3, JoinElems, a \in Rows, b \in Rows
<1> QED BY ONLY <1>4, <1>6, <1>7, <1>8

\* A node with children comes below a shown one, and its first line into the list.
LEMMA BranchTorn ==
  ASSUME TreeShape, fault' \in BOOLEAN, NEW p \in Nodes, NEW n \in Nodes, Tree!MayTake(p, n),
         Tree!TakesBranch(p, n), NEW i \in 0..Len(list), Tree!Placed(p, n, i),
         Adopts(mTreeNodes, mTreeNodes', p, n), astray' = "branch"
  PROVE  Torn'
<1>1. p \in pTreeView /\ mTreeNodes[n] # <<>>
  BY DEF Tree!TakesBranch
<1>2. /\ parent' = [parent EXCEPT ![n] = p] /\ pTreeView' = pTreeView \cup {n}
      /\ list' = SubSeq(list, 1, i) \o Tree!FirstLine(n) \o SubSeq(list, i + 1, Len(list))
      /\ aliveNodes' = aliveNodes /\ removed' = removed
  BY <1>1 DEF Tree!Placed, Tree!AddedAt
<1>3. Shape(list, mTreeNodes, parent, pTreeView, aliveNodes, removed)
  BY DEF TreeShape
<1>4. /\ list \in Rows /\ Forest(mTreeNodes) /\ parent \in [Nodes -> Nodes \cup {NULL}]
      /\ pTreeView \in SUBSET Nodes /\ aliveNodes \in SUBSET Nodes /\ removed \in SUBSET Nodes
      /\ \A q \in Nodes : \A y \in Tree!Elems(mTreeNodes[q]) :
           parent[y] = q /\ (y \in aliveNodes <=> q \in aliveNodes)
      /\ \A y \in Tree!Elems(list) : parent[y] # NULL => y \in Tree!Elems(mTreeNodes[parent[y]])
      /\ aliveNodes \cap pTreeView = Tree!Elems(list)
      /\ removed \cap aliveNodes = {} /\ aliveNodes \cup removed = Nodes
  BY <1>3 DEF Shape
<1>5. p \in aliveNodes /\ n \in aliveNodes
  BY MayTakeIs
<1>6. PICK S \in SUBSET Nodes : S = SubOf(mTreeNodes)[n]
  BY <1>4, SubIs
<1>7. PICK u \in Rows : u = Tree!FirstLine(n) /\ n \in Tree!Elems(u) /\ Tree!Elems(u) \subseteq S
  BY <1>4, <1>6, FirstLineIs, LineIs, LineElems
<1>8. \A y \in S : y \in aliveNodes /\ (y # n => \E q \in S : y \in Tree!Elems(mTreeNodes[q]))
  BY <1>3, <1>4, <1>5, <1>6, ShapeSub, SubParent
<1>9. PICK m \in Rows : m = list' /\ Tree!Elems(m) = Tree!Elems(list) \cup Tree!Elems(u)
  <2>1. PICK m : m = list'
    OBVIOUS
  <2>2. m = SubSeq(list, 1, i) \o u \o SubSeq(list, i + 1, Len(list))
    BY ONLY <1>2, <1>7, <2>1
  <2>3. PICK s \in Rows : s = list
    BY <1>4
  <2>4. PICK k \in 0..Len(s) : k = i
    BY ONLY <2>3, i \in 0..Len(list)
  <2>5. m = SubSeq(s, 1, k) \o u \o SubSeq(s, k + 1, Len(s))
    BY ONLY <2>2, <2>3, <2>4
  <2>6. m \in Rows /\ Tree!Elems(m) = Tree!Elems(s) \cup Tree!Elems(u)
    BY ONLY <2>5, PutBetween, u \in Rows, s \in Rows, k \in 0..Len(s)
  <2> QED BY ONLY <2>1, <2>3, <2>6
<1>10. Tree!Elems(m) \subseteq aliveNodes
  BY <1>4, <1>7, <1>8, <1>9
<1>11. aliveNodes \cap (pTreeView \cup {n}) \subseteq Tree!Elems(m)
  BY <1>4, <1>7, <1>9
<1>12. ASSUME NEW x \in aliveNodes PROVE Tree!Elems(mTreeNodes'[x]) \subseteq aliveNodes
  <2>1. Tree!Elems(mTreeNodes'[x]) \subseteq Tree!Elems(mTreeNodes[x]) \cup {n}
    BY <1>4 DEF Adopts
  <2>2. Tree!Elems(mTreeNodes[x]) \subseteq Nodes /\ x \in Nodes
    BY <1>4, SubIs
  <2> QED BY <1>4, <1>5, <2>1, <2>2
<1>13. ASSUME NEW x \in Tree!Elems(m) PROVE parent'[x] \in aliveNodes \cup {NULL}
  <2>0. x \in Nodes
    BY <1>4, <1>10
  <2>1. CASE x = n
    BY <1>2, <1>4, <1>5, <2>1
  <2>2. CASE x # n
    <3>1. parent'[x] = parent[x]
      BY <1>2, <1>4, <2>0, <2>2
    <3>2. CASE x \in Tree!Elems(list)
      <4>1. parent[x] # NULL => parent[x] \in Nodes /\ x \in Tree!Elems(mTreeNodes[parent[x]])
        BY <1>4, <2>0, <3>2
      <4>2. x \in aliveNodes
        BY <1>10
      <4> QED BY <1>4, <3>1, <4>1, <4>2
    <3>3. CASE x \in S
      <4>1. PICK q \in S : x \in Tree!Elems(mTreeNodes[q])
        BY <1>8, <2>2, <3>3
      <4>2. q \in Nodes /\ q \in aliveNodes
        BY <1>8
      <4> QED BY <1>4, <3>1, <4>1, <4>2
    <3> QED BY <1>7, <1>9, <3>2, <3>3
  <2> QED BY <2>1, <2>2
<1>14. mTreeNodes' \in [Nodes -> Rows]
  BY DEF Adopts
<1>15. parent' \in [Nodes -> Nodes \cup {NULL}] /\ pTreeView' \in SUBSET Nodes
  BY <1>2, <1>4
<1>16. removed' \cap Tree!Elems(list') = {} /\ Nodes \ aliveNodes' \subseteq removed'
  BY <1>2, <1>4, <1>9, <1>10
<1> QED BY <1>2, <1>4, <1>9, <1>10, <1>11, <1>12, <1>13, <1>14, <1>15, <1>16, TornBy

\* t is s with fewer children and without some nodes of D in the list.
Takes(s, t, D) ==
  t \in Tree!States /\ Fewer(s.kids, t.kids) /\ \E X \in SUBSET D : t = Rid(s, t.kids, X)

LEMMA TakesMore ==
  ASSUME NEW s \in Tree!States, NEW t, NEW D, Takes(s, t, D),
         NEW L, Fewer(t.kids, L), NEW Y \in SUBSET D
  PROVE  Takes(s, Rid(t, L, Y), D)
<1>1. t \in Tree!States /\ Fewer(s.kids, t.kids)
  BY DEF Takes
<1>2. PICK X \in SUBSET D : t = Rid(s, t.kids, X)
  BY DEF Takes
<1>3. Forest(t.kids) /\ Forest(L)
  <2>1. Forest(t.kids)
    BY <1>1, StateIs
  <2> QED BY ONLY <2>1, FewerForest, Fewer(t.kids, L)
<1>4. PICK u : u = Rid(t, L, Y)
  OBVIOUS
<1>5. u \in Tree!States /\ u.kids = L
  BY ONLY <1>1, <1>3, <1>4, RidTypes DEF RidIs
<1>6. u = Rid(s, L, X \cup Y)
  BY ONLY <1>2, <1>4, RidTwice, s \in Tree!States
<1>7. Fewer(s.kids, L)
  BY ONLY <1>1, Fewer(t.kids, L), FewerChain
<1>8. X \cup Y \in SUBSET D
  OBVIOUS
<1> QED BY ONLY <1>4, <1>5, <1>6, <1>7, <1>8 DEF Takes

\* CTreeViewUI::Remove of any node takes none that is not below it.
LEMMA ViewRemoveTakes ==
  ASSUME NEW s \in Tree!States, NEW n \in Nodes
  PROVE  Takes(s, Tree!After[Tree!ViewRemove(s, n)], SubOf(s.kids)[n])
<1>1. PICK D \in SUBSET Nodes : D = SubOf(s.kids)[n]
  BY StateIs, SubIs
<1>2. Forest(s.kids) /\ n \in D /\ \A y \in D : Tree!Elems(s.kids[y]) \subseteq D
  BY <1>1, StateIs, SubHas
<1>3. PICK e : e = VisitOf(s, n)
  OBVIOUS
<1>4. PICK m \in Nat : m = Len(s.kids[n])
  BY VisitExists
<1>5. e \in [0..m -> Tree!States] /\ e[0] = s /\ \A k \in 1..m : e[k] = Visited(e[k - 1], n, k)
  BY <1>3, <1>4, VisitExists DEF Visit
<1>6. ASSUME NEW t, Takes(s, t, D), NEW k \in Nat \ {0} PROVE Takes(s, Visited(t, n, k), D)
  <2>1. t \in Tree!States /\ Fewer(s.kids, t.kids)
    BY <1>6 DEF Takes
  <2>2. CASE ~(k <= Len(t.kids[n]))
    BY <1>6, <2>2 DEF Visited
  <2>3. CASE k <= Len(t.kids[n])
    <3>1. PICK c \in Nodes : c = t.kids[n][k]
      BY <2>1, <2>3, VisitedTypes
    <3>2. Visited(t, n, k) = CutOff(t, n, c)
      BY ONLY <2>3, <3>1 DEF Visited
    <3>3. CASE c \notin Tree!Elems(t.kids[n])
      BY <1>6, <3>2, <3>3 DEF CutOff
    <3>4. CASE c \in Tree!Elems(t.kids[n])
      <4>1. PICK Y : Y = {x \in SubOf(t.kids)[c] : x \in Known(t.kids)}
        OBVIOUS
      <4>2. Visited(t, n, k) = Rid(t, Cut(t.kids, n, c), Y)
        BY ONLY <3>2, <3>4, <4>1 DEF CutOff
      <4>3. Forest(t.kids) /\ Fewer(t.kids, Cut(t.kids, n, c))
        BY <2>1, StateIs, CutFewer
      <4>4. \A y \in D : Tree!Elems(t.kids[y]) \subseteq D
        BY <1>2, <2>1 DEF Fewer
      <4>5. c \in D
        BY <1>2, <3>4, <4>4
      <4>6. SubOf(t.kids)[c] \subseteq D
        BY ONLY <4>3, <4>4, <4>5, SubLeast, D \in SUBSET Nodes
      <4>7. Y \in SUBSET D
        BY <4>1, <4>6
      <4> QED BY ONLY <1>6, <4>2, <4>3, <4>7, TakesMore, s \in Tree!States
    <3> QED BY <3>3, <3>4
  <2> QED BY <2>2, <2>3
<1> DEFINE S == {k \in 0..m : Takes(s, e[k], D)}
<1>7. 0 \in S
  <2>1. Rid(s, s.kids, {}) = s /\ Fewer(s.kids, s.kids) /\ {} \in SUBSET D
    BY <1>2, RidNone, FewerSelf
  <2>2. Takes(s, s, D)
    BY ONLY <2>1, s \in Tree!States DEF Takes
  <2> QED BY <1>5, <2>2
<1>8. ASSUME NEW k \in 0..(m - 1), k \in S PROVE k + 1 \in S
  <2>1. k + 1 \in 0..m /\ k + 1 \in 1..m /\ k + 1 \in Nat \ {0} /\ (k + 1) - 1 = k
    OBVIOUS
  <2>2. e[k + 1] = Visited(e[k], n, k + 1)
    BY ONLY <1>5, <2>1
  <2>3. Takes(s, e[k], D)
    BY <1>8
  <2>4. Takes(s, e[k + 1], D)
    BY ONLY <1>6, <2>1, <2>2, <2>3
  <2> QED BY ONLY <2>1, <2>4
<1>9. Takes(s, e[m], D)
  <2> HIDE DEF S
  <2>1. \A k \in 0..m : k \in S
    BY ONLY <1>7, <1>8, m \in Nat, UpTo
  <2>2. m \in S
    BY <2>1
  <2> QED BY <2>2 DEF S
<1>10. Tree!After[Tree!ViewRemove(s, n)] = Tree!Dropped(e[m], n)
  <2>1. Tree!After[Tree!ViewRemove(s, n)] = Tree!AfterViewRemove(Tree!After, s, n)
    BY AfterIs
  <2>2. \A t \in Tree!States, c \in Nodes : Tree!After[Tree!NodeRemoveAt(t, n, c)] = CutOff(t, n, c)
    BY RemoveAtIs
  <2>3. Tree!AfterViewRemove(Tree!After, s, n) = Tree!Dropped(VisitOf(s, n)[Len(s.kids[n])], n)
    BY ONLY <2>2, VisitIs, s \in Tree!States, n \in Nodes
  <2> QED BY ONLY <1>3, <1>4, <2>1, <2>3
<1>11. e[m] \in Tree!States /\ Tree!Dropped(e[m], n) = Rid(e[m], e[m].kids, {n})
  <2>1. PICK t \in Tree!States : t = e[m]
    BY <1>5
  <2>2. Tree!Dropped(t, n) = Rid(t, t.kids, {n})
    BY ONLY DroppedIs, t \in Tree!States, n \in Nodes
  <2> QED BY ONLY <2>1, <2>2
<1>12. Fewer(e[m].kids, e[m].kids)
  BY <1>11, StateIs, FewerSelf
<1>13. {n} \in SUBSET D
  BY <1>2
<1>14. Takes(s, Rid(e[m], e[m].kids, {n}), D)
  BY ONLY <1>9, <1>12, <1>13, TakesMore, s \in Tree!States
<1> QED BY ONLY <1>1, <1>10, <1>11, <1>14

\* The view removes a node it does not remove well.
LEMMA ViewTorn ==
  ASSUME TreeShape, fault' \in BOOLEAN, NEW n \in Nodes, astray' = "view",
         Tree!Becomes(Tree!After[Tree!ViewRemove(Tree!Now, n)]) \/ Tree!Becomes(Tree!Now),
         removed' = removed \cup Tree!Subtree(n), parent' = parent, pTreeView' = pTreeView
  PROVE  Torn'
<1>1. /\ list \in Rows /\ Forest(mTreeNodes) /\ parent \in [Nodes -> Nodes \cup {NULL}]
      /\ pTreeView \in SUBSET Nodes /\ aliveNodes \in SUBSET Nodes /\ removed \in SUBSET Nodes
      /\ aliveNodes \cap pTreeView = Tree!Elems(list) /\ aliveNodes \cup removed = Nodes
  BY DEF TreeShape, Shape
<1>2. PICK D \in SUBSET Nodes : D = SubOf(mTreeNodes)[n] /\ D = Tree!Subtree(n)
  BY <1>1, SubIs, SubtreeIs
<1>3. PICK L, X : /\ Fewer(mTreeNodes, L) /\ X \subseteq D
                  /\ Tree!Becomes(Rid(Tree!Now, L, X))
  <2>1. PICK s \in Tree!States : s = Tree!Now /\ s.kids = mTreeNodes
    BY NowIs
  <2>2. CASE Tree!Becomes(Tree!After[Tree!ViewRemove(Tree!Now, n)])
    <3>1. PICK t : t = Tree!After[Tree!ViewRemove(s, n)]
      OBVIOUS
    <3>2. Takes(s, t, SubOf(s.kids)[n])
      BY ONLY <3>1, ViewRemoveTakes, s \in Tree!States, n \in Nodes
    <3>3. PICK X \in SUBSET SubOf(s.kids)[n] : t = Rid(s, t.kids, X)
      BY ONLY <3>2 DEF Takes
    <3>4. Fewer(mTreeNodes, t.kids)
      BY ONLY <2>1, <3>2 DEF Takes
    <3>5. Tree!Becomes(Rid(s, t.kids, X))
      BY <2>1, <2>2, <3>1, <3>3
    <3> QED BY <1>2, <2>1, <3>3, <3>4, <3>5
  <2>3. CASE Tree!Becomes(Tree!Now)
    <3>1. Rid(s, s.kids, {}) = s
      BY RidNone
    <3>2. Tree!Becomes(Rid(Tree!Now, mTreeNodes, {}))
      BY <2>1, <2>3, <3>1
    <3>3. Fewer(mTreeNodes, mTreeNodes) /\ {} \subseteq D
      BY <1>1, FewerSelf
    <3> QED BY <3>2, <3>3
  <2> QED BY <2>2, <2>3
<1>4. /\ list' = Tree!Without(list, X) /\ mTreeNodes' = L
      /\ aliveNodes' = aliveNodes \ (X \cap Tree!Elems(list))
  BY <1>3, BecomesRid
<1>5. list' \in Rows /\ Tree!Elems(list') = Tree!Elems(list) \ X
  BY <1>1, <1>4, WithoutTypes, WithoutElems
<1>6. mTreeNodes' \in [Nodes -> Rows]
  BY <1>3, <1>4 DEF Fewer
<1>7. aliveNodes' \in SUBSET Nodes /\ Tree!Elems(list') \subseteq aliveNodes'
  BY <1>1, <1>4, <1>5
<1>8. Nodes \ aliveNodes' \subseteq removed' /\ removed' \in SUBSET Nodes
  BY <1>1, <1>2, <1>3, <1>4
<1>9. aliveNodes' \cap pTreeView' \subseteq Tree!Elems(list')
  BY <1>1, <1>4, <1>5
<1> QED BY <1>1, <1>5, <1>6, <1>7, <1>8, <1>9, TornBy

\* CTreeViewUI::Remove of a root with one child or none
LEMMA RemoveNodeKeeps ==
  ASSUME TreeShape, NEW n \in Nodes, Tree!RemoveNode(n), parent[n] = NULL, Len(mTreeNodes[n]) <= 1
  PROVE  KeepsTree
<1>1. /\ n \in Tree!Elems(list)
      /\ Tree!Becomes(Tree!After[Tree!ViewRemove(Tree!Now, n)])
      /\ removed' = removed \cup Tree!Subtree(n)
      /\ parent' = parent /\ pTreeView' = pTreeView /\ fault' = fault
  BY DEF Tree!RemoveNode
<1>2. Len(mTreeNodes[n]) = 0 \/ Len(mTreeNodes[n]) = 1
  <2>1. PICK k \in Nat : k = Len(mTreeNodes[n])
    BY TreeShapeIs, RowLen
  <2>2. k <= 1
    BY <2>1
  <2>3. k = 0 \/ k = 1
    BY ONLY <2>2, k \in Nat
  <2> QED BY ONLY <2>1, <2>3
<1> QED BY <1>1, <1>2, RootGoes

\* CTreeViewUI::RemoveAt, of a root with one child and of another node
LEMMA RemoveIndexIs ==
  ASSUME TreeShape, NEW i \in 0..(Len(list) - 1), Tree!RemoveIndex(i)
  PROVE  \E n \in Nodes :
           /\ n \in Tree!Elems(list)
           /\ Tree!Becomes(IF mTreeNodes[n] = None THEN Tree!Now
                           ELSE Tree!After[Tree!ViewRemove(Tree!Now, n)])
           /\ removed' = removed \cup Tree!Subtree(n)
           /\ astray' = IF parent[n] = NULL /\ Len(mTreeNodes[n]) = 1 THEN astray ELSE "view"
           /\ parent' = parent /\ pTreeView' = pTreeView /\ fault' = fault
<1>1. list \in Rows /\ Len(list) \in Nat
  BY TreeShapeIs, RowLen
<1>2. i + 1 \in 1..Len(list)
  BY ONLY <1>1, i \in 0..(Len(list) - 1)
<1>3. PICK n \in Nodes : n = list[i + 1] /\ n \in Tree!Elems(list)
  BY <1>1, <1>2, SplitAt
<1> QED BY <1>3 DEF Tree!RemoveIndex, None

LEMMA RemoveIndexKeeps ==
  ASSUME TreeShape, NEW n \in Nodes, n \in Tree!Elems(list), parent[n] = NULL, Len(mTreeNodes[n]) = 1,
         Tree!Becomes(IF mTreeNodes[n] = None THEN Tree!Now
                      ELSE Tree!After[Tree!ViewRemove(Tree!Now, n)]),
         removed' = removed \cup Tree!Subtree(n),
         parent' = parent, pTreeView' = pTreeView, fault' = fault
  PROVE  KeepsTree
<1>1. mTreeNodes[n] # None
  <2>1. None \in Rows
    BY RowTypes
  <2>2. Len(None) = 0
    BY ONLY <2>1, RowLen
  <2>3. mTreeNodes[n] = None => Len(mTreeNodes[n]) = 0
    BY ONLY <2>2
  <2> QED BY ONLY <2>3, Len(mTreeNodes[n]) = 1
<1>2. Tree!Becomes(Tree!After[Tree!ViewRemove(Tree!Now, n)])
  BY <1>1
<1> QED BY <1>2, RootGoes

\* CTreeViewUI::RemoveAll
LEMMA ClearKeeps ==
  ASSUME TreeShape, Tree!RemoveAll
  PROVE  KeepsTree
<1>1. /\ list' = None /\ aliveNodes' = aliveNodes \ Tree!Elems(list)
      /\ removed' = removed \cup Tree!Elems(list)
      /\ mTreeNodes' = mTreeNodes /\ parent' = parent /\ pTreeView' = pTreeView /\ fault' = fault
  BY DEF Tree!RemoveAll, None
<1>2. Shape(None, mTreeNodes, parent, pTreeView, aliveNodes \ Tree!Elems(list), removed \cup Tree!Elems(list))
  BY ShapeClears DEF TreeShape
<1>3. TreeShape'
  BY ONLY <1>1, <1>2 DEF TreeShape
<1>4. InOrder(None, mTreeNodes, parent)
  BY OrderClears
<1>5. TreeOrder => TreeOrder'
  BY ONLY <1>1, <1>4 DEF TreeOrder
<1> QED BY <1>3, <1>5 DEF KeepsTree

\* The invariant of the tree view: the tree is whole until it is torn, and its list in order
\* until a call has led astray.
TreeInv ==
  /\ fault \in BOOLEAN /\ astray \in Tree!Astray
  /\ TreeShape \/ Torn
  /\ astray = "no" => TreeOrder

LEMMA KeptInv ==
  ASSUME TreeInv, KeepsTree, astray' = astray, fault' \in BOOLEAN
  PROVE  TreeInv'
BY DEF TreeInv, KeepsTree

LEMMA TornInv ==
  ASSUME Torn', fault' \in BOOLEAN, astray' \in {"branch", "view"}
  PROVE  TreeInv'
BY DEF TreeInv, Tree!Astray

LEMMA ShapeInv ==
  ASSUME TreeShape', fault' \in BOOLEAN, astray' \in Tree!Astray, astray' # "no"
  PROVE  TreeInv'
BY DEF TreeInv

LEMMA FaultTypes ==
  ASSUME fault \in BOOLEAN, Tree!Next
  PROVE  fault' \in BOOLEAN
<1>1. \A p, n, i : Tree!Placed(p, n, i) => fault' = fault
  BY DEF Tree!Placed
<1>2. \A n \in Nodes : Tree!Add(n) \/ Tree!RemoveNode(n) => fault' = fault
  BY DEF Tree!Add, Tree!RemoveNode
<1>3. \A p, n \in Nodes : Tree!AddChildNode(p, n) \/ Tree!RemoveChild(p, n) => fault' = fault
  BY <1>1 DEF Tree!AddChildNode, Tree!RemoveChild
<1>4. \A p, n, i : Tree!AddBefore(p, n, i) => fault' = fault
  BY <1>1 DEF Tree!AddBefore
<1>5. \A p, n \in Nodes : Tree!AddTail(p, n) => fault' = fault \/ fault' = TRUE
  BY <1>1 DEF Tree!AddTail
<1>6. \A i : Tree!RemoveIndex(i) => fault' = fault
  BY DEF Tree!RemoveIndex
<1>7. Tree!RemoveAll => fault' = fault
  BY DEF Tree!RemoveAll
<1> QED BY <1>2, <1>3, <1>4, <1>5, <1>6, <1>7 DEF Tree!Next

\* CTreeNodeUI::AddChildNode
LEMMA AddChildNodeGoesOn ==
  ASSUME TreeInv, TreeShape, fault' \in BOOLEAN, NEW p \in Nodes, NEW n \in Nodes,
         Tree!AddChildNode(p, n)
  PROVE  TreeInv'
<1>1. /\ Tree!MayTake(p, n)
      /\ Tree!Placed(p, n, Tree!GetTreeIndex(Tree!GetLastNode(p)) + 1)
      /\ mTreeNodes' = [mTreeNodes EXCEPT ![p] = Append(@, n)]
      /\ astray' = IF Tree!TakesBranch(p, n) THEN "branch" ELSE astray
  BY DEF Tree!AddChildNode
<1>2. CASE Plain(p, n)
  BY <1>1, <1>2, PlainIs, AddChildNodeKeeps, KeptInv
<1>3. CASE ~Plain(p, n)
  <2>1. Tree!TakesBranch(p, n) /\ astray' = "branch"
    BY <1>1, <1>3, PlainIs
  <2>2. PICK x \in Nodes : x = Tree!GetLastNode(p)
    BY TreeShapeIs, LastNodeIs, LastIs
  <2>3. PICK i \in 0..Len(list) : i = Tree!GetTreeIndex(x) + 1
    BY PlaceTypes
  <2>4. Tree!Placed(p, n, i)
    BY <1>1, <2>2, <2>3
  <2>5. Adopts(mTreeNodes, mTreeNodes', p, n)
    BY <1>1, MayTakeIs, TreeShapeIs, AppendAdopts
  <2>6. Torn'
    BY <1>1, <2>1, <2>4, <2>5, BranchTorn
  <2> QED BY <2>1, <2>6, TornInv
<1> QED BY <1>2, <1>3

\* CTreeNodeUI::AddAt before a child
LEMMA AddBeforeGoesOn ==
  ASSUME TreeInv, TreeShape, fault' \in BOOLEAN, NEW p \in Nodes, NEW n \in Nodes,
         NEW i \in 0..(Len(mTreeNodes[p]) - 1), Tree!AddBefore(p, n, i)
  PROVE  TreeInv'
<1>1. Tree!MayTake(p, n) /\ astray' = IF Tree!TakesBranch(p, n) THEN "branch" ELSE astray
  BY DEF Tree!AddBefore
<1>2. CASE Plain(p, n)
  BY <1>1, <1>2, PlainIs, AddBeforeKeeps, KeptInv
<1>3. CASE ~Plain(p, n)
  <2>1. Tree!TakesBranch(p, n) /\ astray' = "branch" /\ p \in pTreeView
    BY <1>1, <1>3, PlainIs DEF Plain
  <2>2. PICK k : /\ Tree!Placed(p, n, k) /\ Adopts(mTreeNodes, mTreeNodes', p, n)
                 /\ p \in pTreeView => k \in 0..Len(list)
    BY BeforePlaces
  <2>3. Torn'
    BY <1>1, <2>1, <2>2, BranchTorn
  <2> QED BY <2>1, <2>3, TornInv
<1> QED BY <1>2, <1>3

\* CTreeNodeUI::AddAt behind the last child
LEMMA AddTailGoesOn ==
  ASSUME TreeInv, TreeShape, fault' \in BOOLEAN, NEW p \in Nodes, NEW n \in Nodes, Tree!AddTail(p, n)
  PROVE  TreeInv'
<1>1. /\ Tree!MayTake(p, n)
      /\ \/ /\ p \in pTreeView
            /\ TailFault
         \/ TailPlaced(p, n)
  BY AddTailIs
<1>2. astray' = IF Tree!TakesBranch(p, n) THEN "branch"
                ELSE IF p \in pTreeView /\ ~Tree!OnlyLeaves(p) THEN "tail" ELSE astray
  BY DEF Tree!AddTail
<1>3. CASE Plain(p, n) /\ Tree!OnlyLeaves(p)
  <2>1. KeepsTree /\ astray' = astray
    BY <1>2, <1>3, PlainIs, AddTailKeeps
  <2> QED BY <2>1, KeptInv
<1>4. CASE Plain(p, n) /\ ~Tree!OnlyLeaves(p) /\ p \in pTreeView
  <2>1. TreeShape' /\ astray' = "tail"
    BY <1>1, <1>2, <1>4, PlainIs, TailShape
  <2>2. astray' \in Tree!Astray /\ astray' # "no"
    BY <2>1 DEF Tree!Astray
  <2> QED BY <2>1, <2>2, ShapeInv
<1>5. CASE p \notin pTreeView /\ ~Tree!OnlyLeaves(p)
  <2>1. Plain(p, n) /\ astray' = astray
    BY <1>2, <1>5 DEF Plain, Tree!TakesBranch
  <2>2. KeepsTree
    BY <1>1, <1>5, <2>1, TailUnseen
  <2> QED BY <2>1, <2>2, KeptInv
<1>6. CASE ~Plain(p, n)
  <2>1. Tree!TakesBranch(p, n) /\ astray' = "branch"
    BY <1>2, <1>6, PlainIs
  <2>2. CASE TailFault
    <3>1. TreeShape'
      BY <2>2 DEF TailFault, TreeShape
    <3>2. astray' \in Tree!Astray /\ astray' # "no"
      BY <2>1 DEF Tree!Astray
    <3> QED BY <3>1, <3>2, ShapeInv
  <2>3. CASE TailPlaced(p, n)
    <3>1. PICK i \in 0..Len(list) : Tree!Placed(p, n, i) /\ Adopts(mTreeNodes, mTreeNodes', p, n)
      BY <1>1, <2>3, TailPlaces
    <3>2. Torn'
      BY <1>1, <2>1, <3>1, BranchTorn
    <3> QED BY <2>1, <3>2, TornInv
  <2> QED BY <1>1, <2>2, <2>3
<1> QED BY <1>3, <1>4, <1>5, <1>6

\* CTreeViewUI::Remove and RemoveAt
LEMMA RemoveNodeGoesOn ==
  ASSUME TreeInv, TreeShape, fault' \in BOOLEAN, NEW n \in Nodes, Tree!RemoveNode(n)
  PROVE  TreeInv'
<1>1. /\ Tree!Becomes(Tree!After[Tree!ViewRemove(Tree!Now, n)])
      /\ removed' = removed \cup Tree!Subtree(n)
      /\ parent' = parent /\ pTreeView' = pTreeView
      /\ astray' = IF parent[n] = NULL /\ Len(mTreeNodes[n]) <= 1 THEN astray ELSE "view"
  BY DEF Tree!RemoveNode
<1>2. CASE parent[n] = NULL /\ Len(mTreeNodes[n]) <= 1
  BY <1>1, <1>2, RemoveNodeKeeps, KeptInv
<1>3. CASE ~(parent[n] = NULL /\ Len(mTreeNodes[n]) <= 1)
  <2>1. astray' = "view"
    BY <1>1, <1>3
  <2>2. Torn'
    BY <1>1, <2>1, ViewTorn
  <2> QED BY <2>1, <2>2, TornInv
<1> QED BY <1>2, <1>3

LEMMA RemoveIndexGoesOn ==
  ASSUME TreeInv, TreeShape, fault' \in BOOLEAN, NEW i \in 0..(Len(list) - 1), Tree!RemoveIndex(i)
  PROVE  TreeInv'
<1>1. PICK n \in Nodes :
        /\ n \in Tree!Elems(list)
        /\ Tree!Becomes(IF mTreeNodes[n] = None THEN Tree!Now
                        ELSE Tree!After[Tree!ViewRemove(Tree!Now, n)])
        /\ removed' = removed \cup Tree!Subtree(n)
        /\ astray' = IF parent[n] = NULL /\ Len(mTreeNodes[n]) = 1 THEN astray ELSE "view"
        /\ parent' = parent /\ pTreeView' = pTreeView /\ fault' = fault
  BY RemoveIndexIs
<1>2. CASE parent[n] = NULL /\ Len(mTreeNodes[n]) = 1
  <2>1. KeepsTree /\ astray' = astray
    BY <1>1, <1>2, RemoveIndexKeeps
  <2> QED BY <2>1, KeptInv
<1>3. CASE ~(parent[n] = NULL /\ Len(mTreeNodes[n]) = 1)
  <2>1. astray' = "view"
    BY <1>1, <1>3
  <2>2. Tree!Becomes(Tree!After[Tree!ViewRemove(Tree!Now, n)]) \/ Tree!Becomes(Tree!Now)
    BY <1>1
  <2>3. Torn'
    BY <1>1, <2>1, <2>2, ViewTorn
  <2> QED BY <2>1, <2>3, TornInv
<1> QED BY <1>2, <1>3

\* Each step of the tree view keeps its invariant.
LEMMA TreeNextKeeps ==
  ASSUME TreeInv, Tree!Next
  PROVE  TreeInv'
<1>1. fault \in BOOLEAN /\ astray \in {"no", "tail"}
  BY DEF TreeInv, Tree!Next
<1>2. TreeShape
  BY <1>1 DEF TreeInv, Torn
<1>3. fault' \in BOOLEAN
  BY <1>1, FaultTypes
<1>4. ASSUME NEW n \in Nodes, Tree!Add(n) PROVE TreeInv'
  <2>1. KeepsTree /\ astray' = astray
    BY <1>2, <1>4, AddRootKeeps DEF Tree!Add
  <2> QED BY <1>3, <2>1, KeptInv
<1>5. ASSUME NEW n \in Nodes, Tree!RemoveNode(n) PROVE TreeInv'
  BY <1>2, <1>3, <1>5, RemoveNodeGoesOn
<1>6. ASSUME NEW n \in Nodes, NEW p \in Nodes, Tree!AddChildNode(p, n) PROVE TreeInv'
  BY <1>2, <1>3, <1>6, AddChildNodeGoesOn
<1>7. ASSUME NEW n \in Nodes, NEW p \in Nodes, Tree!RemoveChild(p, n) PROVE TreeInv'
  <2>1. KeepsTree /\ astray' = astray
    BY <1>2, <1>7, RemoveChildKeeps DEF Tree!RemoveChild
  <2> QED BY <1>3, <2>1, KeptInv
<1>8. ASSUME NEW n \in Nodes, NEW p \in Nodes, Tree!AddTail(p, n) PROVE TreeInv'
  BY <1>2, <1>3, <1>8, AddTailGoesOn
<1>9. ASSUME NEW n \in Nodes, NEW p \in Nodes, NEW i \in 0..(Len(mTreeNodes[p]) - 1), Tree!AddBefore(p, n, i)
      PROVE  TreeInv'
  BY <1>2, <1>3, <1>9, AddBeforeGoesOn
<1>10. ASSUME NEW i \in 0..(Len(list) - 1), Tree!RemoveIndex(i) PROVE TreeInv'
  BY <1>2, <1>3, <1>10, RemoveIndexGoesOn
<1>11. CASE Tree!RemoveAll
  <2>1. KeepsTree /\ astray' = astray
    BY <1>2, <1>11, ClearKeeps DEF Tree!RemoveAll
  <2> QED BY <1>3, <2>1, KeptInv
<1> QED BY <1>4, <1>5, <1>6, <1>7, <1>8, <1>9, <1>10, <1>11 DEF Tree!Next

LEMMA TreeStays ==
  ASSUME TreeInv, UNCHANGED treeVars
  PROVE  TreeInv'
BY DEF TreeInv, TreeShape, Torn, TreeIntact, TreeOrder, treeVars, Tree!TypeOK, Tree!Astray,
       Tree!ListIsPreorder, Tree!RemovedIsGone, Tree!NobodyKeepsTheDead, Tree!OthersStay,
       Tree!Preorder, Tree!Roots

LEMMA TreeBegins ==
  ASSUME Tree!Init
  PROVE  TreeInv
<1>1. /\ list = None /\ mTreeNodes = [n \in Nodes |-> None] /\ parent = [n \in Nodes |-> NULL]
      /\ pTreeView = {} /\ aliveNodes = Nodes /\ removed = {} /\ fault = FALSE /\ astray = "no"
  BY DEF Tree!Init, None
<1>2. None \in Rows /\ Tree!Elems(None) = {} /\ Apart(None)
  BY RowTypes
<1>3. Forest(mTreeNodes)
  <2>1. mTreeNodes \in [Nodes -> Rows] /\ \A x \in Nodes : mTreeNodes[x] = None
    BY <1>1, <1>2
  <2> QED BY <1>2, <2>1 DEF Forest, Tree!IsForest, Apart
<1>4. TreeShape
  BY <1>1, <1>2, <1>3 DEF TreeShape, Shape
<1>5. TreeOrder
  BY <1>1, OrderClears DEF TreeOrder
<1> QED BY <1>1, <1>4, <1>5 DEF TreeInv, Tree!Astray

LEMMA TreeInvMeans ==
  ASSUME TreeInv
  PROVE  Tree!TypeOK /\ TreeIntact
<1>0. CASE Torn
  BY <1>0 DEF Torn
<1> SUFFICES ASSUME TreeShape PROVE Tree!TypeOK /\ TreeIntact
  BY <1>0 DEF TreeInv
<1>1. /\ list \in Rows /\ Forest(mTreeNodes) /\ mTreeNodes \in [Nodes -> Rows]
      /\ parent \in [Nodes -> Nodes \cup {NULL}]
      /\ pTreeView \in SUBSET Nodes /\ aliveNodes \in SUBSET Nodes /\ removed \in SUBSET Nodes
      /\ aliveNodes \cap pTreeView = Tree!Elems(list) /\ Tree!Elems(list) \subseteq Nodes
  BY TreeShapeIs
<1>2. /\ \A p \in Nodes : \A n \in Tree!Elems(mTreeNodes[p]) : n \in aliveNodes <=> p \in aliveNodes
      /\ \A n \in Tree!Elems(list) : parent[n] # NULL => n \in Tree!Elems(mTreeNodes[parent[n]])
      /\ removed \cap aliveNodes = {} /\ aliveNodes \cup removed = Nodes
  BY DEF TreeShape, Shape
<1>3. Tree!TypeOK
  BY <1>1 DEF Tree!TypeOK, TreeInv, Rows
<1>4. Tree!RemovedIsGone
  BY <1>1, <1>2 DEF Tree!RemovedIsGone
<1>5. Tree!NobodyKeepsTheDead
  BY <1>1, <1>2 DEF Tree!NobodyKeepsTheDead
<1>6. Tree!OthersStay
  BY <1>1, <1>2 DEF Tree!OthersStay
<1>7. ASSUME TreeOrder
      PROVE  ~fault /\ list = Tree!Spread(Tree!Roots, [n \in Nodes |-> Tree!Preorder(n)])
  <2>1. list = Tree!Spread(Tree!Roots, PreOf(mTreeNodes)) /\ ~fault
    BY <1>7 DEF TreeOrder, InOrder, Tree!Roots
  <2>2. PICK s : s = Tree!Roots /\ Tree!Elems(s) \subseteq Nodes
    <3>1. Tree!Elems(Tree!Without(list, {n \in Nodes : parent[n] # NULL})) \subseteq Nodes
      BY ONLY <1>1, WithoutElems
    <3> QED BY <3>1 DEF Tree!Roots
  <2>3. PICK g : g = [n \in Nodes |-> Tree!Preorder(n)]
    OBVIOUS
  <2>4. \A x \in Tree!Elems(s) : PreOf(mTreeNodes)[x] = g[x]
    BY <1>1, <2>2, <2>3, PreorderIs
  <2>5. Tree!Spread(s, PreOf(mTreeNodes)) = Tree!Spread(s, g)
    BY ONLY <2>4, SpreadSame
  <2> QED BY ONLY <2>1, <2>2, <2>3, <2>5
<1>8. Tree!ListIsPreorder
  BY <1>7 DEF Tree!ListIsPreorder, TreeInv
<1> QED BY <1>3, <1>4, <1>5, <1>6, <1>8 DEF TreeIntact

LEMMA TreeGoesOn ==
  ASSUME TreeInv, [PartsNext]_<<part, partVars>>
  PROVE  TreeInv'
<1>1. Tree!Next \/ UNCHANGED treeVars
  BY DEF PartsNext, partVars
<1> QED BY <1>1, TreeNextKeeps, TreeStays

\* CTreeViewUI, for any number of nodes: the list shows the tree in order, until a last child is
\* inserted by its index behind children that have children or a shown node is given one with
\* children; a removed node is gone with all below it and none that exists knows a destroyed one,
\* until the view removes a node that is no root or has several children; no other node ever goes.
THEOREM TreeAlwaysIntact == PartsSpec => []TreeIntact
<1>1. PartsInit => TreeInv
  BY TreeBegins DEF PartsInit
<1>2. TreeInv /\ [PartsNext]_<<part, partVars>> => TreeInv'
  BY TreeGoesOn
<1>3. TreeInv => TreeIntact
  BY TreeInvMeans
<1> QED BY <1>1, <1>2, <1>3, PTL DEF PartsSpec

-----------------------------------------------------------------------------
(* The check boxes of a tree.                                              *)

\* Every node comes after its parent.
Rooted ==
  /\ pParentTreeNode \in [1..N -> 0..(N - 1)]
  /\ \A n \in 1..N : pParentTreeNode[n] < n

LEMMA BoxConstants == N \in Nat \ {0} /\ Boxes!NodeIds = 1..N
BY ContainersAssumption DEF Boxes!ConstantsAssumption, Boxes!NodeIds

LEMMA ParentIs ==
  ASSUME Rooted, NEW n \in 1..N
  PROVE  pParentTreeNode[n] \in 0..(n - 1) /\ pParentTreeNode[n] \in 0..N
BY BoxConstants DEF Rooted

\* Who is above the first m nodes.
AboveTo(m, f) == f = [n \in 0..m |-> IF n = 0 THEN {} ELSE {n} \cup f[pParentTreeNode[n]]]

LEMMA AboveExists ==
  ASSUME Rooted
  PROVE  \E f : AboveTo(N, f)
<1> DEFINE S == {i \in 0..N : \E f : AboveTo(i, f)}
<1>0. N \in Nat
  BY BoxConstants
<1>1. 0 \in S
  <2> DEFINE f == [n \in 0..0 |-> {}]
  <2>1. f = [n \in 0..0 |-> IF n = 0 THEN {} ELSE {n} \cup f[pParentTreeNode[n]]]
    OBVIOUS
  <2> HIDE DEF f
  <2>2. AboveTo(0, f)
    BY <2>1 DEF AboveTo
  <2> QED BY <1>0, <2>2
<1>2. ASSUME NEW i \in 0..(N - 1), i \in S PROVE i + 1 \in S
  <2>1. PICK g : AboveTo(i, g)
    BY <1>2
  <2> DEFINE m == i + 1
             f == [n \in 0..m |-> IF n <= i THEN g[n] ELSE {n} \cup g[pParentTreeNode[n]]]
  <2>0. m \in 1..N /\ m \in 0..N /\ i \in Nat
    BY <1>0
  <2>2. ASSUME NEW n \in 0..m
        PROVE  f[n] = IF n = 0 THEN {} ELSE {n} \cup f[pParentTreeNode[n]]
    <3>1. CASE n = 0
      <4>1. 0 \in 0..i /\ 0 <= i /\ 0 \in 0..m
        BY <2>0
      <4>2. g[0] = {}
        BY <2>1, <4>1 DEF AboveTo
      <4> QED BY <3>1, <4>1, <4>2
    <3>2. CASE n # 0
      <4>1. n \in 1..N
        BY <1>0, <2>0, <3>2
      <4>2. pParentTreeNode[n] \in 0..(n - 1)
        BY <4>1, ParentIs
      <4>3. pParentTreeNode[n] \in 0..m /\ pParentTreeNode[n] <= i
        BY <2>0, <4>2
      <4>4. f[pParentTreeNode[n]] = g[pParentTreeNode[n]]
        BY <4>3
      <4>5. n <= i => g[n] = {n} \cup g[pParentTreeNode[n]]
        <5>1. n <= i => n \in 0..i
          BY <2>0
        <5> QED BY <2>1, <3>2, <5>1 DEF AboveTo
      <4> QED BY <3>2, <4>4, <4>5
    <3> QED BY <3>1, <3>2
  <2>3. f = [n \in 0..m |-> f[n]]
    OBVIOUS
  <2> HIDE DEF f
  <2>4. AboveTo(m, f)
    BY <2>2, <2>3 DEF AboveTo
  <2> QED BY <2>0, <2>4
<1> HIDE DEF S
<1>3. \A i \in 0..N : i \in S
  BY <1>0, <1>1, <1>2, UpTo
<1>4. N \in 0..N
  BY <1>0
<1> QED BY <1>3, <1>4 DEF S

LEMMA AboveIs ==
  ASSUME Rooted
  PROVE  /\ Boxes!Above[0] = {}
         /\ \A n \in 1..N : Boxes!Above[n] = {n} \cup Boxes!Above[pParentTreeNode[n]]
<1>1. Boxes!Above = CHOOSE f : AboveTo(N, f)
  BY DEF Boxes!Above, AboveTo
<1>2. AboveTo(N, Boxes!Above)
  BY <1>1, AboveExists
<1>3. PICK f : f = Boxes!Above
  OBVIOUS
<1>4. AboveTo(N, f) /\ N \in Nat
  BY <1>2, <1>3, BoxConstants
<1>5. f[0] = {}
  <2>1. 0 \in 0..N
    BY <1>4
  <2> QED BY <1>4, <2>1 DEF AboveTo
<1>6. ASSUME NEW n \in 1..N PROVE f[n] = {n} \cup f[pParentTreeNode[n]]
  <2>1. n \in 0..N /\ n # 0
    BY <1>4
  <2> QED BY <1>4, <2>1 DEF AboveTo
<1> QED BY ONLY <1>3, <1>5, <1>6

\* What is below a node: itself, and what is below its children.
LEMMA BelowIs ==
  ASSUME Rooted, NEW n \in 1..N
  PROVE  /\ n \in Boxes!Below(n)
         /\ Boxes!Below(n) \subseteq 1..N
         /\ \A y \in Boxes!Below(n) : y # n => pParentTreeNode[y] \in Boxes!Below(n)
         /\ \A y \in 1..N : pParentTreeNode[y] \in Boxes!Below(n) => y \in Boxes!Below(n)
<1>1. Boxes!Below(n) = {m \in 1..N : n \in Boxes!Above[m]}
  BY BoxConstants DEF Boxes!Below
<1>2. \A y \in 1..N : Boxes!Above[y] = {y} \cup Boxes!Above[pParentTreeNode[y]]
  BY AboveIs
<1>3. \A y \in 1..N : pParentTreeNode[y] \in 0..N
  BY ParentIs
<1>4. Boxes!Above[0] = {}
  BY AboveIs
<1>5. ASSUME NEW y \in Boxes!Below(n), y # n PROVE pParentTreeNode[y] \in Boxes!Below(n)
  <2>1. y \in 1..N /\ n \in Boxes!Above[pParentTreeNode[y]]
    BY <1>1, <1>2, <1>5
  <2>2. pParentTreeNode[y] # 0
    BY <1>4, <2>1
  <2>3. pParentTreeNode[y] \in 1..N
    BY <1>3, <2>1, <2>2, BoxConstants
  <2> QED BY <1>1, <2>1, <2>3
<1> QED BY <1>1, <1>2, <1>5

LEMMA BelowIsBehind ==
  ASSUME Rooted, NEW n \in 1..N, NEW y \in Boxes!Below(n)
  PROVE  n <= y
<1>0. Boxes!Below(n) \in SUBSET (1..N)
  BY BelowIs
<1> DEFINE Bad == {x \in Boxes!Below(n) : x < n}
<1>1. SUFFICES ASSUME Bad # {} PROVE FALSE
  BY <1>0
<1>2. PICK m \in Bad : \A x \in Bad : m <= x
  <2>1. Bad \in SUBSET Nat
    BY <1>0
  <2> HIDE DEF Bad
  <2> QED BY <1>1, <2>1, Least
<1>3. m \in Boxes!Below(n) /\ m \in 1..N /\ m < n /\ m # n
  BY <1>0, <1>2
<1>4. pParentTreeNode[m] \in Boxes!Below(n)
  BY <1>3, BelowIs
<1>5. pParentTreeNode[m] \in 0..(m - 1)
  BY <1>3, ParentIs
<1>6. pParentTreeNode[m] < n /\ ~(m <= pParentTreeNode[m])
  BY <1>3, <1>5
<1> QED BY <1>2, <1>4, <1>6

LEMMA BelowChildren ==
  ASSUME Rooted, NEW n \in 1..N
  PROVE  /\ Boxes!Below(n) = {n} \cup UNION {Boxes!Below(k) : k \in Boxes!Children(n)}
         /\ n \notin UNION {Boxes!Below(k) : k \in Boxes!Children(n)}
<1> DEFINE U == UNION {Boxes!Below(k) : k \in Boxes!Children(n)}
<1>1. \A k \in Boxes!Children(n) : k \in 1..N /\ pParentTreeNode[k] = n
  BY BoxConstants DEF Boxes!Children
<1>2. \A k \in 1..N : pParentTreeNode[k] = n => k \in Boxes!Children(n)
  BY BoxConstants DEF Boxes!Children
<1>3. n \notin U
  <2> SUFFICES ASSUME NEW k \in Boxes!Children(n), n \in Boxes!Below(k) PROVE FALSE
    OBVIOUS
  <2>1. k <= n
    BY <1>1, BelowIsBehind
  <2>2. n \in 0..(k - 1)
    BY <1>1, ParentIs
  <2> QED BY <1>1, <2>1, <2>2
<1>4. ASSUME NEW y \in Boxes!Below(n), y # n PROVE y \in U
  <2> DEFINE Bad == {x \in Boxes!Below(n) : x # n /\ x \notin U}
  <2>1. SUFFICES ASSUME Bad # {} PROVE FALSE
    BY <1>4
  <2>2. PICK m \in Bad : \A x \in Bad : m <= x
    <3>1. Bad \in SUBSET Nat
      BY BelowIs
    <3> HIDE DEF Bad
    <3> QED BY <2>1, <3>1, Least
  <2>3. m \in 1..N /\ m \in Boxes!Below(n) /\ m # n /\ m \notin U
    BY <2>2, BelowIs
  <2>4. pParentTreeNode[m] \in Boxes!Below(n) /\ pParentTreeNode[m] \in 0..(m - 1)
    BY <2>3, BelowIs, ParentIs
  <2>5. CASE pParentTreeNode[m] = n
    <3>1. m \in Boxes!Children(n) /\ m \in Boxes!Below(m)
      BY <1>2, <2>3, <2>5, BelowIs
    <3> QED BY <2>3, <3>1
  <2>6. CASE pParentTreeNode[m] # n
    <3>1. ~(m <= pParentTreeNode[m])
      BY <2>3, <2>4
    <3>2. pParentTreeNode[m] \notin Bad
      BY <2>2, <3>1
    <3>3. PICK k \in Boxes!Children(n) : pParentTreeNode[m] \in Boxes!Below(k)
      BY <2>4, <2>6, <3>2
    <3>4. m \in Boxes!Below(k)
      BY <1>1, <2>3, <3>3, BelowIs
    <3> QED BY <2>3, <3>4
  <2> QED BY <2>5, <2>6
<1>5. ASSUME NEW k \in Boxes!Children(n), NEW y \in Boxes!Below(k) PROVE y \in Boxes!Below(n)
  <2> DEFINE Bad == {x \in Boxes!Below(k) : x \notin Boxes!Below(n)}
  <2>1. SUFFICES ASSUME Bad # {} PROVE FALSE
    OBVIOUS
  <2>2. PICK m \in Bad : \A x \in Bad : m <= x
    <3>1. Bad \in SUBSET Nat
      BY <1>1, BelowIs
    <3> HIDE DEF Bad
    <3> QED BY <2>1, <3>1, Least
  <2>3. m \in 1..N /\ m \in Boxes!Below(k) /\ m \notin Boxes!Below(n) /\ k \in 1..N
    BY <1>1, <2>2, BelowIs
  <2>4. m # k
    BY <1>1, <2>3, BelowIs
  <2>5. pParentTreeNode[m] \in Boxes!Below(k) /\ pParentTreeNode[m] \in 0..(m - 1)
    BY <2>3, <2>4, BelowIs, ParentIs
  <2>6. ~(m <= pParentTreeNode[m])
    BY <2>3, <2>5
  <2>7. pParentTreeNode[m] \in Boxes!Below(n)
    BY <2>2, <2>5, <2>6
  <2> QED BY <2>3, <2>7, BelowIs
<1> QED BY <1>3, <1>4, <1>5, BelowIs

\* The boxes c with those of S given the state b.
Give(c, S, b) == IF b THEN c \cup S ELSE c \ S

\* A node whose parent has the state that all its children or just it has been given
\* looks the same to its parent's box.
LEMMA ParentLooks ==
  ASSUME Rooted, NEW n \in 1..N, NEW p \in 1..N, pParentTreeNode[n] = p, NEW d,
         NEW b \in BOOLEAN, n \in d <=> b
  PROVE  /\ Boxes!IsAllChildChecked(d, p) \in {{}, {b}}
         /\ (p \in d <=> b) => Boxes!IsAllChildChecked(d, p) = {}
<1>1. n \in Boxes!Children(p)
  BY BoxConstants DEF Boxes!Children
<1>2. CASE b = TRUE
  <2>1. n \in d
    BY <1>2
  <2>2. \A a \in Boxes!IsAllChildChecked(d, p) : a = TRUE /\ p \notin d
    BY <1>1, <2>1 DEF Boxes!IsAllChildChecked
  <2>3. p \in d => Boxes!IsAllChildChecked(d, p) = {}
    BY <2>2
  <2>4. Boxes!IsAllChildChecked(d, p) = {} \/ Boxes!IsAllChildChecked(d, p) = {TRUE}
    BY <2>2
  <2> QED BY <1>2, <2>3, <2>4
<1>3. CASE b = FALSE
  <2>1. n \notin d
    BY <1>3
  <2>2. \A a \in Boxes!IsAllChildChecked(d, p) : a = FALSE /\ p \in d
    BY <1>1, <2>1 DEF Boxes!IsAllChildChecked
  <2>3. p \notin d => Boxes!IsAllChildChecked(d, p) = {}
    BY <2>2
  <2>4. Boxes!IsAllChildChecked(d, p) = {} \/ Boxes!IsAllChildChecked(d, p) = {FALSE}
    BY <2>2
  <2> QED BY <1>3, <2>3, <2>4
<1> QED BY <1>2, <1>3

\* The loop of SetItemCheckBox over S, box by box.
Turn(after, c, b, S, d, k) ==
  IF k = 0 THEN c
  ELSE IF k \in S
       THEN after[Boxes!SetItemCheckBox(after[Boxes!Selected(d[k - 1], b, k)], b, k)]
  ELSE d[k - 1]

ToldTo(after, c, b, S, m, t) == t = [k \in 0..m |-> Turn(after, c, b, S, t, k)]

LEMMA ToldExists ==
  ASSUME NEW after, NEW c, NEW b, NEW S
  PROVE  \E t : ToldTo(after, c, b, S, N, t)
<1> DEFINE Good == {i \in 0..N : \E t : ToldTo(after, c, b, S, i, t)}
<1>0. N \in Nat
  BY BoxConstants
<1>1. 0 \in Good
  <2> DEFINE t == [k \in 0..0 |-> c]
  <2>1. \A k \in 0..0 : Turn(after, c, b, S, t, k) = c
    BY DEF Turn
  <2>2. t = [k \in 0..0 |-> Turn(after, c, b, S, t, k)]
    BY <2>1
  <2> HIDE DEF t
  <2>3. ToldTo(after, c, b, S, 0, t)
    BY <2>2 DEF ToldTo
  <2> QED BY <1>0, <2>3
<1>2. ASSUME NEW i \in 0..(N - 1), i \in Good PROVE i + 1 \in Good
  <2>1. PICK g : ToldTo(after, c, b, S, i, g)
    BY <1>2
  <2> DEFINE m == i + 1
             t == [k \in 0..m |-> IF k <= i THEN g[k] ELSE Turn(after, c, b, S, g, m)]
  <2>0. m \in 0..N /\ i \in Nat /\ m - 1 = i /\ m # 0
    BY <1>0
  <2>2. ASSUME NEW k \in 0..m PROVE t[k] = Turn(after, c, b, S, t, k)
    <3>1. CASE k <= i
      <4>1. k \in 0..i /\ (k # 0 => k - 1 \in 0..m /\ k - 1 <= i)
        BY <2>0, <3>1
      <4>2. t[k] = g[k] /\ (k # 0 => t[k - 1] = g[k - 1])
        BY <3>1, <4>1
      <4>3. g[k] = Turn(after, c, b, S, g, k)
        BY <2>1, <4>1 DEF ToldTo
      <4> QED BY ONLY <4>2, <4>3 DEF Turn
    <3>2. CASE k = m
      <4>1. i \in 0..m /\ i <= i /\ ~(m <= i) /\ m \in 0..m
        BY <2>0
      <4>2. t[m] = Turn(after, c, b, S, g, m) /\ t[i] = g[i]
        BY <4>1
      <4>3. Turn(after, c, b, S, g, m) = Turn(after, c, b, S, t, m)
        BY ONLY <2>0, <4>2 DEF Turn
      <4> QED BY ONLY <3>2, <4>2, <4>3
    <3>3. k <= i \/ k = m
      BY <2>0
    <3> QED BY <3>1, <3>2, <3>3
  <2>3. t = [k \in 0..m |-> t[k]]
    OBVIOUS
  <2> HIDE DEF t
  <2>4. ToldTo(after, c, b, S, m, t)
    BY <2>2, <2>3 DEF ToldTo
  <2> QED BY <2>0, <2>4
<1> HIDE DEF Good
<1>3. \A i \in 0..N : i \in Good
  BY <1>0, <1>1, <1>2, UpTo
<1>4. N \in 0..N
  BY <1>0
<1> QED BY <1>3, <1>4 DEF Good

LEMMA ToldIs ==
  ASSUME NEW after, NEW c, NEW b, NEW S
  PROVE  \E t : ToldTo(after, c, b, S, N, t) /\ Boxes!Told(after, c, b, S) = t[N]
<1> DEFINE t == CHOOSE t : ToldTo(after, c, b, S, N, t)
<1>1. Boxes!Told(after, c, b, S) = t[N]
  BY DEF Boxes!Told, ToldTo, Turn
<1>2. ToldTo(after, c, b, S, N, t)
  BY ToldExists
<1> QED BY <1>1, <1>2

LEMMA GiveIs ==
  ASSUME NEW c, NEW S, NEW b \in BOOLEAN
  PROVE  /\ \A x \in S : x \in Give(c, S, b) <=> b
         /\ \A x : x \notin S => (x \in Give(c, S, b) <=> x \in c)
         /\ \A R : Give(Give(c, S, b), R, b) = Give(c, S \cup R, b)
         /\ c \subseteq 1..N /\ S \subseteq 1..N => Give(c, S, b) \in SUBSET (1..N)
BY DEF Give

\* What after says of the calls for k: all below it gets the state, and nothing else
\* changes, as long as the parent has the state already.
GivesBelow(after, k) ==
  \A d \in SUBSET (1..N), b \in BOOLEAN :
    /\ pParentTreeNode[k] = 0 \/ (pParentTreeNode[k] \in d <=> b) =>
         after[Boxes!Selected(d, b, k)] = Give(d, Boxes!Below(k), b)
    /\ (k \in d <=> b) => after[Boxes!SetItemCheckBox(d, b, k)] = Give(d, Boxes!Below(k), b)

\* A loop over S gives the state to all that is below one of S.
LEMMA LoopGives ==
  ASSUME Rooted, NEW after, NEW c \in SUBSET (1..N), NEW b \in BOOLEAN, NEW S \in SUBSET (1..N),
         \A k \in S : GivesBelow(after, k),
         \A k \in S : \/ pParentTreeNode[k] = 0 \/ pParentTreeNode[k] \in S
                      \/ (pParentTreeNode[k] \in c <=> b)
  PROVE  Boxes!Told(after, c, b, S) = Give(c, UNION {Boxes!Below(k) : k \in S}, b)
<1>0. N \in Nat
  BY BoxConstants
<1>1. PICK t : ToldTo(after, c, b, S, N, t) /\ Boxes!Told(after, c, b, S) = t[N]
  BY ToldIs
<1>x. \A x \in S : x \in 1..N /\ x \in Nat /\ x > 0 /\ x <= N
  BY <1>0
<1> DEFINE U(j) == UNION {Boxes!Below(k) : k \in {x \in S : x <= j}}
           Good == {j \in 0..N : t[j] = Give(c, U(j), b)}
<1>2. 0 \in Good
  <2>1. 0 \in 0..N
    BY <1>0
  <2>2. t[0] = c
    BY <1>1, <2>1 DEF ToldTo, Turn
  <2>3. U(0) = {}
    <3>1. \A x \in S : ~(x <= 0)
      <4> SUFFICES ASSUME NEW x \in S PROVE ~(x <= 0)
        OBVIOUS
      <4>1. x \in Nat /\ x > 0
        BY <1>x
      <4> QED BY ONLY <4>1
    <3> QED BY <3>1
  <2>4. Give(c, {}, b) = c
    BY DEF Give
  <2> HIDE DEF U
  <2> QED BY <2>1, <2>2, <2>3, <2>4
<1>3. ASSUME NEW i \in 0..(N - 1), i \in Good PROVE i + 1 \in Good
  <2> DEFINE k == i + 1
  <2>0. k \in 0..N /\ k \in 1..N /\ k # 0 /\ k - 1 = i /\ i \in Nat
    BY <1>0
  <2>1. t[k] = Turn(after, c, b, S, t, k)
    BY <1>1, <2>0 DEF ToldTo
  <2>2. t[i] = Give(c, U(i), b)
    BY <1>3
  <2>3. U(i) \subseteq 1..N
    BY BelowIs
  <2>4. CASE k \notin S
    <3>1. {x \in S : x <= k} = {x \in S : x <= i}
      <4>1. \A x \in S : x <= k <=> x <= i
        BY <1>x, <2>0, <2>4
      <4> QED BY <4>1
    <3>2. U(k) = U(i)
      BY <3>1
    <3>3. t[k] = t[i]
      BY <2>0, <2>1, <2>4 DEF Turn
    <3> HIDE DEF U, k
    <3> QED BY <2>0, <2>2, <3>2, <3>3 DEF k
  <2>5. CASE k \in S
    <3>1. {x \in S : x <= k} = {x \in S : x <= i} \cup {k}
      <4>1. \A x \in S : x <= k <=> x <= i \/ x = k
        BY <1>x, <2>0
      <4> QED BY <2>5, <4>1
    <3>2. U(k) = U(i) \cup Boxes!Below(k)
      BY <3>1
    <3>3. PICK d \in SUBSET (1..N) : d = t[i]
      <4>1. PICK V : V = U(i)
        OBVIOUS
      <4>2. V \subseteq 1..N
        BY ONLY <2>3, <4>1
      <4>3. Give(c, V, b) \in SUBSET (1..N)
        BY ONLY <4>2, c \in SUBSET (1..N) DEF Give
      <4> HIDE DEF U
      <4> QED BY ONLY <2>2, <4>1, <4>3
    <3>4. pParentTreeNode[k] = 0 \/ (pParentTreeNode[k] \in d <=> b)
      <4>1. pParentTreeNode[k] \in 0..(k - 1)
        BY <2>0, ParentIs
      <4>2. CASE pParentTreeNode[k] \in S
        <5>1. pParentTreeNode[k] <= i /\ pParentTreeNode[k] \in 1..N
          BY <2>0, <4>1, <4>2
        <5>2. pParentTreeNode[k] \in Boxes!Below(pParentTreeNode[k])
          BY <5>1, BelowIs
        <5>3. pParentTreeNode[k] \in U(i)
          BY <4>2, <5>1, <5>2
        <5> HIDE DEF U
        <5> QED BY <2>2, <3>3, <5>3, GiveIs
      <4>3. CASE pParentTreeNode[k] \in c <=> b
        <5> HIDE DEF U
        <5> QED BY <2>2, <3>3, <4>3, GiveIs
      <4> QED BY <2>5, <4>2, <4>3
    <3> DEFINE d2 == Give(d, Boxes!Below(k), b)
    <3>5. Boxes!Below(k) \subseteq 1..N /\ k \in Boxes!Below(k)
      BY <2>0, BelowIs
    <3>6. after[Boxes!Selected(d, b, k)] = d2
      BY <2>5, <3>4 DEF GivesBelow
    <3>7. d2 \in SUBSET (1..N) /\ (k \in d2 <=> b)
      <4>1. d \subseteq 1..N
        OBVIOUS
      <4>2. d2 \in SUBSET (1..N)
        <5> HIDE DEF k
        <5> QED BY ONLY <3>5, <4>1 DEF Give
      <4>3. k \in d2 <=> b
        <5> HIDE DEF k
        <5> QED BY ONLY <3>5, b \in BOOLEAN DEF Give
      <4> QED BY ONLY <4>2, <4>3
    <3>8. after[Boxes!SetItemCheckBox(d2, b, k)] = Give(d2, Boxes!Below(k), b)
      <4> HIDE DEF d2
      <4> QED BY <2>5, <3>7 DEF GivesBelow
    <3>9. Give(d2, Boxes!Below(k), b) = d2
      BY DEF Give
    <3>10. t[k] = d2
      <4> HIDE DEF d2
      <4> QED BY ONLY <2>0, <2>1, <2>5, <3>3, <3>6, <3>8, <3>9 DEF Turn
    <3>11. d2 = Give(c, U(i) \cup Boxes!Below(k), b)
      <4> HIDE DEF U
      <4> QED BY <2>2, <3>3, GiveIs
    <3> HIDE DEF U, d2, k
    <3> QED BY <2>0, <3>2, <3>10, <3>11 DEF k
  <2> QED BY <2>4, <2>5
<1>4. \A j \in 0..N : j \in Good
  <2> HIDE DEF Good
  <2> QED BY <1>0, <1>2, <1>3, UpTo
<1>5. N \in 0..N /\ {x \in S : x <= N} = S
  <2>1. \A x \in S : x <= N
    BY <1>x
  <2>2. N \in 0..N
    BY <1>0
  <2> QED BY ONLY <2>1, <2>2
<1>6. U(N) = UNION {Boxes!Below(k) : k \in S}
  BY <1>5
<1> HIDE DEF U
<1> QED BY <1>1, <1>4, <1>5, <1>6

\* The loop over the children of a node that has the state already.
LEMMA ChildrenGive ==
  ASSUME Rooted, NEW after, NEW c \in SUBSET (1..N), NEW b \in BOOLEAN, NEW n \in 1..N,
         n \in c <=> b, \A k \in Boxes!Children(n) : GivesBelow(after, k)
  PROVE  Boxes!Told(after, c, b, Boxes!Children(n)) = Give(c, Boxes!Below(n), b)
<1> DEFINE S == Boxes!Children(n)
           U == UNION {Boxes!Below(k) : k \in S}
<1>1. S \in SUBSET (1..N) /\ \A k \in S : pParentTreeNode[k] = n
  BY BoxConstants DEF Boxes!Children
<1>2. Boxes!Below(n) = {n} \cup U
  BY BelowChildren
<1>3. Boxes!Told(after, c, b, S) = Give(c, U, b)
  <2> HIDE DEF S
  <2> QED BY <1>1, LoopGives DEF S
<1>4. Give(c, U, b) = Give(c, {n} \cup U, b)
  BY DEF Give
<1> QED BY ONLY <1>2, <1>3, <1>4

\* What the box of n and the boxes below it have been given, and what their parent sees.
Settles(n, d, b, w, e, p) ==
  /\ w \in SUBSET (1..N) /\ (n \in w <=> b)
  /\ e \in SUBSET (1..N) /\ (n \in e <=> b) /\ Give(e, Boxes!Below(n), b) = w
  /\ p \in 0..(n - 1)
  /\ p # 0 => /\ p \in 1..N
              /\ Boxes!IsAllChildChecked(w, p) \in {{}, {b}}
              /\ (p \in d <=> b) => Boxes!IsAllChildChecked(w, p) = {}

LEMMA Settled ==
  ASSUME Rooted, NEW n \in 1..N, NEW d \in SUBSET (1..N), NEW b \in BOOLEAN
  PROVE  Settles(n, d, b, Give(d, Boxes!Below(n), b), Give(d, {n}, b), pParentTreeNode[n])
<1> DEFINE w == Give(d, Boxes!Below(n), b)
           e == Give(d, {n}, b)
           p == pParentTreeNode[n]
<1>1. n \in Boxes!Below(n) /\ Boxes!Below(n) \in SUBSET (1..N)
  BY BelowIs
<1>2. w \in SUBSET (1..N) /\ (n \in w <=> b)
  BY ONLY <1>1, d \in SUBSET (1..N), b \in BOOLEAN DEF Give
<1>3. e \in SUBSET (1..N) /\ (n \in e <=> b)
  BY ONLY n \in 1..N, d \in SUBSET (1..N), b \in BOOLEAN DEF Give
<1>4. Give(e, Boxes!Below(n), b) = w
  BY ONLY <1>1, b \in BOOLEAN DEF Give
<1>5. p \in 0..(n - 1) /\ p \in 0..N
  BY ParentIs
<1>6. ASSUME p # 0
      PROVE  /\ p \in 1..N
             /\ Boxes!IsAllChildChecked(w, p) \in {{}, {b}}
             /\ (p \in d <=> b) => Boxes!IsAllChildChecked(w, p) = {}
  <2>1. p \in 1..N
    BY <1>5, <1>6, BoxConstants
  <2>2. p \notin Boxes!Below(n)
    <3>1. ~(n <= p)
      BY <1>5
    <3> QED BY <3>1, BelowIsBehind
  <2>3. p \in w <=> p \in d
    BY ONLY <2>2, b \in BOOLEAN DEF Give
  <2>4. /\ Boxes!IsAllChildChecked(w, p) \in {{}, {b}}
        /\ (p \in w <=> b) => Boxes!IsAllChildChecked(w, p) = {}
    <3> HIDE DEF w
    <3> QED BY ONLY <1>2, <2>1, ParentLooks, Rooted, n \in 1..N, b \in BOOLEAN
  <2> QED BY ONLY <2>1, <2>3, <2>4
<1> QED BY ONLY <1>2, <1>3, <1>4, <1>5, <1>6 DEF Settles

\* The parents in their turn, once n and all below it have the state b.
Look(b, h, n, d) ==
  IF n = 0 \/ pParentTreeNode[n] = 0 \/ Boxes!IsAllChildChecked(d, pParentTreeNode[n]) = {} THEN d
  ELSE h[pParentTreeNode[n]][Give(d, Boxes!Below(pParentTreeNode[n]), b)]

ClimbTo(m, b, h) == h = [n \in 0..m |-> [d \in SUBSET (1..N) |-> Look(b, h, n, d)]]

Climb(b) == CHOOSE h : ClimbTo(N, b, h)

LEMMA ClimbExists ==
  ASSUME Rooted, NEW b
  PROVE  \E h : ClimbTo(N, b, h)
<1> DEFINE Good == {i \in 0..N : \E h : ClimbTo(i, b, h)}
<1>0. N \in Nat
  BY BoxConstants
<1>1. 0 \in Good
  <2> DEFINE h == [n \in 0..0 |-> [d \in SUBSET (1..N) |-> d]]
  <2>1. \A n \in 0..0 : \A d \in SUBSET (1..N) : Look(b, h, n, d) = d
    BY DEF Look
  <2>2. h = [n \in 0..0 |-> [d \in SUBSET (1..N) |-> Look(b, h, n, d)]]
    BY <2>1
  <2> HIDE DEF h
  <2>3. ClimbTo(0, b, h)
    BY <2>2 DEF ClimbTo
  <2> QED BY <1>0, <2>3
<1>2. ASSUME NEW i \in 0..(N - 1), i \in Good PROVE i + 1 \in Good
  <2>1. PICK g : ClimbTo(i, b, g)
    BY <1>2
  <2> DEFINE m == i + 1
             h == [n \in 0..m |-> IF n <= i THEN g[n] ELSE [d \in SUBSET (1..N) |-> Look(b, g, n, d)]]
  <2>0. m \in 1..N /\ m \in 0..N /\ i \in Nat
    BY <1>0
  <2>2. ASSUME NEW n \in 0..m, NEW d PROVE Look(b, g, n, d) = Look(b, h, n, d)
    <3>1. CASE n = 0
      BY <3>1 DEF Look
    <3>2. CASE n # 0
      <4>1. n \in 1..N
        BY <1>0, <2>0, <3>2
      <4>2. pParentTreeNode[n] \in 0..(n - 1)
        BY <4>1, ParentIs
      <4>3. pParentTreeNode[n] \in 0..m /\ pParentTreeNode[n] <= i
        BY <2>0, <4>2
      <4>4. h[pParentTreeNode[n]] = g[pParentTreeNode[n]]
        BY <4>3
      <4> HIDE DEF h
      <4> QED BY ONLY <4>4 DEF Look
    <3> QED BY <3>1, <3>2
  <2>3. ASSUME NEW n \in 0..m PROVE h[n] = [d \in SUBSET (1..N) |-> Look(b, h, n, d)]
    <3>1. CASE n <= i
      <4>1. n \in 0..i /\ h[n] = g[n]
        BY <2>0, <3>1
      <4>2. g[n] = [d \in SUBSET (1..N) |-> Look(b, g, n, d)]
        BY <2>1, <4>1 DEF ClimbTo
      <4> HIDE DEF h, m
      <4> QED BY ONLY <2>2, <4>1, <4>2, n \in 0..m
    <3>2. CASE ~(n <= i)
      <4>1. h[n] = [d \in SUBSET (1..N) |-> Look(b, g, n, d)]
        BY <3>2
      <4> HIDE DEF h, m
      <4> QED BY ONLY <2>2, <4>1, n \in 0..m
    <3> QED BY <3>1, <3>2
  <2>4. h = [n \in 0..m |-> h[n]]
    OBVIOUS
  <2> HIDE DEF h
  <2>5. ClimbTo(m, b, h)
    BY ONLY <2>3, <2>4 DEF ClimbTo
  <2> QED BY <2>0, <2>5
<1> HIDE DEF Good
<1>3. \A i \in 0..N : i \in Good
  BY <1>0, <1>1, <1>2, UpTo
<1>4. N \in 0..N
  BY <1>0
<1> QED BY <1>3, <1>4 DEF Good

LEMMA ClimbIs ==
  ASSUME Rooted, NEW b, NEW n \in 1..N, NEW d \in SUBSET (1..N)
  PROVE  Climb(b)[n][d] =
           IF \/ pParentTreeNode[n] = 0
              \/ Boxes!IsAllChildChecked(d, pParentTreeNode[n]) = {}
           THEN d
           ELSE Climb(b)[pParentTreeNode[n]][Give(d, Boxes!Below(pParentTreeNode[n]), b)]
<1>1. PICK h : h = Climb(b)
  OBVIOUS
<1>2. ClimbTo(N, b, h)
  BY <1>1, ClimbExists DEF Climb
<1>3. n \in 0..N /\ n # 0
  BY BoxConstants
<1>4. h[n] = [z \in SUBSET (1..N) |-> Look(b, h, n, z)]
  BY ONLY <1>2, <1>3 DEF ClimbTo
<1>5. h[n][d] = Look(b, h, n, d)
  BY ONLY <1>4, d \in SUBSET (1..N)
<1> QED BY ONLY <1>1, <1>3, <1>5 DEF Look

\* The parents change to the state given, if at all.
LEMMA ClimbIn ==
  ASSUME Rooted, NEW b \in BOOLEAN
  PROVE  \A n \in 1..N : \A d \in SUBSET (1..N) :
           /\ Climb(b)[n][d] \in SUBSET (1..N)
           /\ b => d \subseteq Climb(b)[n][d]
           /\ ~b => Climb(b)[n][d] \subseteq d
<1> DEFINE OK(n) == \A d \in SUBSET (1..N) :
                      /\ Climb(b)[n][d] \in SUBSET (1..N)
                      /\ b => d \subseteq Climb(b)[n][d]
                      /\ ~b => Climb(b)[n][d] \subseteq d
           Bad == {n \in 1..N : ~OK(n)}
<1>1. SUFFICES ASSUME Bad # {} PROVE FALSE
  OBVIOUS
<1>2. PICK n \in Bad : \A x \in Bad : n <= x
  <2>1. Bad \in SUBSET Nat
    BY BoxConstants
  <2> HIDE DEF Bad
  <2> QED BY <1>1, <2>1, Least
<1>3. n \in 1..N /\ ~OK(n)
  BY <1>2
<1>4. OK(n)
  <2> SUFFICES ASSUME NEW d \in SUBSET (1..N)
               PROVE  /\ Climb(b)[n][d] \in SUBSET (1..N)
                      /\ b => d \subseteq Climb(b)[n][d]
                      /\ ~b => Climb(b)[n][d] \subseteq d
    OBVIOUS
  <2>1. PICK p : p = pParentTreeNode[n]
    OBVIOUS
  <2>2. p \in 0..(n - 1) /\ p \in 0..N
    BY <1>3, <2>1, ParentIs
  <2>3. CASE p = 0 \/ Boxes!IsAllChildChecked(d, p) = {}
    <3>1. Climb(b)[n][d] = d
      BY ONLY <1>3, <2>1, <2>3, ClimbIs, Rooted, d \in SUBSET (1..N)
    <3> QED BY <3>1
  <2>4. CASE ~(p = 0 \/ Boxes!IsAllChildChecked(d, p) = {})
    <3>1. PICK w : w = Give(d, Boxes!Below(p), b)
      OBVIOUS
    <3>2. Climb(b)[n][d] = Climb(b)[p][w]
      BY ONLY <1>3, <2>1, <2>4, <3>1, ClimbIs, Rooted, d \in SUBSET (1..N)
    <3>3. p \in 1..N /\ ~(n <= p)
      BY <1>3, <2>2, <2>4, BoxConstants
    <3>4. OK(p)
      BY <1>2, <3>3
    <3>5. Boxes!Below(p) \in SUBSET (1..N)
      BY <3>3, BelowIs
    <3>6. w \in SUBSET (1..N) /\ (b => d \subseteq w) /\ (~b => w \subseteq d)
      BY ONLY <3>1, <3>5, d \in SUBSET (1..N) DEF Give
    <3> QED BY ONLY <3>2, <3>4, <3>6
  <2> QED BY ONLY <2>3, <2>4
<1> QED BY ONLY <1>3, <1>4

\* Giving all below p one state disturbs no box but the one of the parent of p.
LEMMA GiveFollows ==
  ASSUME Rooted, NEW p \in 1..N, NEW d \in SUBSET (1..N), NEW b \in BOOLEAN,
         NEW x \in 1..N, x # pParentTreeNode[p], Boxes!IsAllChildChecked(d, x) = {}
  PROVE  Boxes!IsAllChildChecked(Give(d, Boxes!Below(p), b), x) = {}
<1>1. PICK S : S = Boxes!Below(p)
  OBVIOUS
<1>2. PICK w : w = Give(d, S, b)
  OBVIOUS
<1>3. PICK C : C = Boxes!Children(x)
  OBVIOUS
<1>4. \A y \in C : y \in 1..N /\ pParentTreeNode[y] = x
  BY <1>3, BoxConstants DEF Boxes!Children
<1>5. CASE x \in S
  <2>1. C \subseteq S
    BY <1>1, <1>4, <1>5, BelowIs
  <2>2. b => C \subseteq w /\ x \in w
    BY ONLY <1>2, <1>5, <2>1 DEF Give
  <2>3. ~b => C \cap w = {} /\ x \notin w
    BY ONLY <1>2, <1>5, <2>1 DEF Give
  <2>4. Boxes!IsAllChildChecked(w, x) = {}
    BY ONLY <1>3, <2>2, <2>3, b \in BOOLEAN DEF Boxes!IsAllChildChecked
  <2> QED BY ONLY <1>1, <1>2, <2>4
<1>6. CASE x \notin S
  <2>1. C \cap S = {}
    <3> SUFFICES ASSUME NEW y \in C, y \in S PROVE FALSE
      OBVIOUS
    <3>1. y # p
      BY <1>4
    <3> QED BY <1>1, <1>4, <1>6, <3>1, BelowIs
  <2>2. \A y \in C \cup {x} : y \in w <=> y \in d
    BY ONLY <1>2, <1>6, <2>1 DEF Give
  <2>3. (C \subseteq w <=> C \subseteq d) /\ (C \cap w = {} <=> C \cap d = {})
    BY ONLY <2>2
  <2>4. x \in w <=> x \in d
    BY ONLY <2>2
  <2>5. Boxes!IsAllChildChecked(w, x) = {}
    BY ONLY <1>3, <2>3, <2>4, Boxes!IsAllChildChecked(d, x) = {} DEF Boxes!IsAllChildChecked
  <2> QED BY ONLY <1>1, <1>2, <2>5
<1> QED BY <1>5, <1>6

\* After the climb no parent is left to change.
LEMMA ClimbFollows ==
  ASSUME Rooted, NEW b \in BOOLEAN
  PROVE  \A n \in 1..N : \A d \in SUBSET (1..N) :
           (\A x \in 1..N : x # pParentTreeNode[n] => Boxes!IsAllChildChecked(d, x) = {})
             => \A x \in 1..N : Boxes!IsAllChildChecked(Climb(b)[n][d], x) = {}
<1> DEFINE Quiet(d) == \A x \in 1..N : Boxes!IsAllChildChecked(d, x) = {}
           But(n, d) == \A x \in 1..N : x # pParentTreeNode[n] => Boxes!IsAllChildChecked(d, x) = {}
           OK(n) == \A d \in SUBSET (1..N) : But(n, d) => Quiet(Climb(b)[n][d])
           Bad == {n \in 1..N : ~OK(n)}
<1>1. SUFFICES ASSUME Bad # {} PROVE FALSE
  OBVIOUS
<1>2. PICK n \in Bad : \A x \in Bad : n <= x
  <2>1. Bad \in SUBSET Nat
    BY BoxConstants
  <2> HIDE DEF Bad
  <2> QED BY <1>1, <2>1, Least
<1>3. n \in 1..N /\ ~OK(n)
  BY <1>2
<1>4. OK(n)
  <2> SUFFICES ASSUME NEW d \in SUBSET (1..N), But(n, d) PROVE Quiet(Climb(b)[n][d])
    OBVIOUS
  <2>1. PICK p : p = pParentTreeNode[n]
    OBVIOUS
  <2>2. p \in 0..(n - 1) /\ p \in 0..N
    BY <1>3, <2>1, ParentIs
  <2>3. CASE p = 0 \/ Boxes!IsAllChildChecked(d, p) = {}
    <3>1. Climb(b)[n][d] = d
      BY ONLY <1>3, <2>1, <2>3, ClimbIs, Rooted, d \in SUBSET (1..N)
    <3>2. Quiet(d)
      <4> SUFFICES ASSUME NEW x \in 1..N PROVE Boxes!IsAllChildChecked(d, x) = {}
        OBVIOUS
      <4>1. CASE x = p
        <5>1. x # 0
          OBVIOUS
        <5> QED BY <2>3, <4>1, <5>1
      <4>2. CASE x # p
        BY <2>1, <4>2
      <4> QED BY <4>1, <4>2
    <3> HIDE DEF Quiet
    <3> QED BY ONLY <3>1, <3>2
  <2>4. CASE ~(p = 0 \/ Boxes!IsAllChildChecked(d, p) = {})
    <3>1. PICK w : w = Give(d, Boxes!Below(p), b)
      OBVIOUS
    <3>2. Climb(b)[n][d] = Climb(b)[p][w]
      BY ONLY <1>3, <2>1, <2>4, <3>1, ClimbIs, Rooted, d \in SUBSET (1..N)
    <3>3. p \in 1..N /\ ~(n <= p)
      BY <1>3, <2>2, <2>4, BoxConstants
    <3>4. OK(p)
      BY <1>2, <3>3
    <3>5. Boxes!Below(p) \in SUBSET (1..N) /\ p \in Boxes!Below(p)
      BY <3>3, BelowIs
    <3>6. w \in SUBSET (1..N)
      BY ONLY <3>1, <3>5, d \in SUBSET (1..N) DEF Give
    <3>7. But(p, w)
      <4> SUFFICES ASSUME NEW x \in 1..N, x # pParentTreeNode[p]
                   PROVE  Boxes!IsAllChildChecked(w, x) = {}
        OBVIOUS
      <4>1. CASE x = p
        <5>1. PICK C : C = Boxes!Children(p)
          OBVIOUS
        <5>2. C \subseteq Boxes!Below(p)
          <6>1. \A y \in C : y \in 1..N /\ pParentTreeNode[y] = p
            BY <5>1, BoxConstants DEF Boxes!Children
          <6> QED BY <3>3, <3>5, <6>1, BelowIs
        <5>3. b => C \subseteq w /\ p \in w
          BY ONLY <3>1, <3>5, <5>2 DEF Give
        <5>4. ~b => C \cap w = {} /\ p \notin w
          BY ONLY <3>1, <3>5, <5>2 DEF Give
        <5> QED BY ONLY <4>1, <5>1, <5>3, <5>4, b \in BOOLEAN DEF Boxes!IsAllChildChecked
      <4>2. CASE x # p
        <5>1. Boxes!IsAllChildChecked(d, x) = {}
          BY <2>1, <4>2
        <5> QED BY ONLY <3>1, <3>3, <5>1, GiveFollows, Rooted, d \in SUBSET (1..N), b \in BOOLEAN,
                        x \in 1..N, x # pParentTreeNode[p]
      <4> QED BY <4>1, <4>2
    <3> HIDE DEF Quiet, But
    <3> QED BY ONLY <3>2, <3>4, <3>6, <3>7
  <2> QED BY ONLY <2>3, <2>4
<1> QED BY ONLY <1>3, <1>4

\* What OnCheckBoxChanged makes of the boxes below, when they are n's and all below it.
Passed(after, below, n) ==
  LET p == pParentTreeNode[n]
  IN IF p = 0 \/ Boxes!IsAllChildChecked(below, p) = {} THEN below
     ELSE after[Boxes!Selected(below, CHOOSE a \in Boxes!IsAllChildChecked(below, p) : TRUE, p)]

Answer(after, call) ==
  IF call.do = "SetItemCheckBox" THEN Boxes!Told(after, call.c, call.b, Boxes!Children(call.n))
  ELSE Passed(after, after[Boxes!SetItemCheckBox(IF call.b THEN call.c \cup {call.n}
                                                ELSE call.c \ {call.n}, call.b, call.n)], call.n)

\* The equations of After, call by call.
Answers(after) ==
  \A c \in SUBSET (1..N), b \in BOOLEAN, n \in 1..N :
    /\ (n \in c <=> b) =>
         after[Boxes!SetItemCheckBox(c, b, n)] = Boxes!Told(after, c, b, Boxes!Children(n))
    /\ after[Boxes!Selected(c, b, n)] =
         Passed(after, after[Boxes!SetItemCheckBox(Give(c, {n}, b), b, n)], n)

LEMMA CallsAre ==
  /\ \A c \in SUBSET (1..N), b \in BOOLEAN, n \in 1..N :
       /\ Boxes!Selected(c, b, n) \in Boxes!Calls
       /\ (n \in c <=> b) => Boxes!SetItemCheckBox(c, b, n) \in Boxes!Calls
  /\ \A call \in Boxes!Calls :
       /\ call.c \in SUBSET (1..N) /\ call.b \in BOOLEAN /\ call.n \in 1..N
       /\ \/ call.do = "Selected" /\ call = Boxes!Selected(call.c, call.b, call.n)
          \/ /\ call.do = "SetItemCheckBox" /\ call = Boxes!SetItemCheckBox(call.c, call.b, call.n)
             /\ call.n \in call.c <=> call.b
BY BoxConstants DEF Boxes!Calls, Boxes!Selected, Boxes!SetItemCheckBox

LEMMA AnswerIs ==
  ASSUME NEW after, NEW c, NEW b, NEW n
  PROVE  /\ Answer(after, Boxes!SetItemCheckBox(c, b, n)) = Boxes!Told(after, c, b, Boxes!Children(n))
         /\ Answer(after, Boxes!Selected(c, b, n)) =
              Passed(after, after[Boxes!SetItemCheckBox(Give(c, {n}, b), b, n)], n)
<1>1. PICK s : s = Boxes!SetItemCheckBox(c, b, n)
  OBVIOUS
<1>2. s.do = "SetItemCheckBox" /\ s.c = c /\ s.b = b /\ s.n = n
  BY <1>1 DEF Boxes!SetItemCheckBox
<1>3. Answer(after, s) = Boxes!Told(after, c, b, Boxes!Children(n))
  BY ONLY <1>2 DEF Answer
<1>4. PICK l : l = Boxes!Selected(c, b, n)
  OBVIOUS
<1>5. l.do = "Selected" /\ l.c = c /\ l.b = b /\ l.n = n
  BY <1>4 DEF Boxes!Selected
<1>6. l.do # "SetItemCheckBox"
  BY ONLY <1>5
<1>7. Answer(after, l) = Passed(after, after[Boxes!SetItemCheckBox(Give(c, {n}, b), b, n)], n)
  BY ONLY <1>5, <1>6 DEF Answer, Give
<1> QED BY ONLY <1>1, <1>3, <1>4, <1>7

\* A solution of the equations gives a node's box and all below it the state, when
\* its parent's box has it.
LEMMA AllGiveBelow ==
  ASSUME Rooted, NEW after, Answers(after)
  PROVE  \A n \in 1..N : GivesBelow(after, n)
<1> DEFINE Bad == {i \in 0..(N - 1) : ~GivesBelow(after, N - i)}
<1>0. N \in Nat
  BY BoxConstants
<1>1. ASSUME Bad # {} PROVE FALSE
  <2>1. PICK i \in Bad : \A x \in Bad : i <= x
    <3>1. Bad \in SUBSET Nat
      BY <1>0
    <3> HIDE DEF Bad
    <3> QED BY <1>1, <3>1, Least
  <2>2. PICK n \in 1..N : n = N - i
    BY <1>0, <2>1
  <2>3. ~GivesBelow(after, n)
    BY <2>1, <2>2
  <2>4. ASSUME NEW k \in Boxes!Children(n) PROVE GivesBelow(after, k)
    <3>1. k \in 1..N /\ pParentTreeNode[k] = n
      BY BoxConstants DEF Boxes!Children
    <3>2. n \in 0..(k - 1)
      BY <3>1, ParentIs
    <3>3. N - k \in 0..(N - 1) /\ ~(i <= N - k) /\ N - (N - k) = k
      BY <1>0, <2>1, <2>2, <3>1, <3>2
    <3>4. N - k \notin Bad
      BY <2>1, <3>3
    <3> QED BY <3>3, <3>4
  <2>5. ASSUME NEW d \in SUBSET (1..N), NEW b \in BOOLEAN, n \in d <=> b
        PROVE  after[Boxes!SetItemCheckBox(d, b, n)] = Give(d, Boxes!Below(n), b)
    <3>1. after[Boxes!SetItemCheckBox(d, b, n)] = Boxes!Told(after, d, b, Boxes!Children(n))
      BY ONLY <2>5, Answers(after), d \in SUBSET (1..N), b \in BOOLEAN, n \in 1..N DEF Answers
    <3>2. Boxes!Told(after, d, b, Boxes!Children(n)) = Give(d, Boxes!Below(n), b)
      BY ONLY <2>4, <2>5, ChildrenGive, Rooted, d \in SUBSET (1..N), b \in BOOLEAN, n \in 1..N
    <3> QED BY ONLY <3>1, <3>2
  <2>6. ASSUME NEW d \in SUBSET (1..N), NEW b \in BOOLEAN,
               pParentTreeNode[n] = 0 \/ (pParentTreeNode[n] \in d <=> b)
        PROVE  after[Boxes!Selected(d, b, n)] = Give(d, Boxes!Below(n), b)
    <3>1. PICK w : w = Give(d, Boxes!Below(n), b)
      OBVIOUS
    <3>2. PICK e : e = Give(d, {n}, b)
      OBVIOUS
    <3>3. PICK p : p = pParentTreeNode[n]
      OBVIOUS
    <3>4. /\ e \in SUBSET (1..N) /\ (n \in e <=> b) /\ Give(e, Boxes!Below(n), b) = w
          /\ p # 0 => ((p \in d <=> b) => Boxes!IsAllChildChecked(w, p) = {})
      <4>1. Settles(n, d, b, Give(d, Boxes!Below(n), b), Give(d, {n}, b), pParentTreeNode[n])
        BY ONLY Settled, Rooted, d \in SUBSET (1..N), b \in BOOLEAN, n \in 1..N
      <4> QED BY ONLY <3>1, <3>2, <3>3, <4>1 DEF Settles
    <3>5. after[Boxes!SetItemCheckBox(e, b, n)] = w
      BY ONLY <2>5, <3>4, b \in BOOLEAN
    <3>6. after[Boxes!Selected(d, b, n)] = Passed(after, w, n)
      BY ONLY <3>2, <3>5, Answers(after), d \in SUBSET (1..N), b \in BOOLEAN, n \in 1..N DEF Answers
    <3>7. p = 0 \/ Boxes!IsAllChildChecked(w, p) = {}
      BY ONLY <2>6, <3>3, <3>4
    <3>8. Passed(after, w, n) = w
      BY ONLY <3>3, <3>7 DEF Passed
    <3> QED BY ONLY <3>1, <3>6, <3>8
  <2> QED BY ONLY <2>3, <2>5, <2>6 DEF GivesBelow
<1>2. ASSUME NEW n \in 1..N PROVE GivesBelow(after, n)
  <2>1. N - n \in 0..(N - 1) /\ N - (N - n) = n
    BY <1>0
  <2>2. N - n \notin Bad
    BY <1>1
  <2> QED BY <2>1, <2>2
<1> QED BY <1>2

\* All a click does, without the recursion: n and all below it, then the parents.
Click(c, b, n) == Climb(b)[n][Give(c, Boxes!Below(n), b)]

LEMMA SelectedIs ==
  ASSUME Rooted, NEW after, Answers(after), NEW b \in BOOLEAN
  PROVE  \A n \in 1..N : \A c \in SUBSET (1..N) : after[Boxes!Selected(c, b, n)] = Click(c, b, n)
<1> DEFINE OK(n) == \A c \in SUBSET (1..N) : after[Boxes!Selected(c, b, n)] = Click(c, b, n)
           Bad == {n \in 1..N : ~OK(n)}
<1>1. SUFFICES ASSUME Bad # {} PROVE FALSE
  OBVIOUS
<1>2. PICK n \in Bad : \A x \in Bad : n <= x
  <2>1. Bad \in SUBSET Nat
    BY BoxConstants
  <2> HIDE DEF Bad
  <2> QED BY <1>1, <2>1, Least
<1>3. n \in 1..N /\ ~OK(n)
  BY <1>2
<1>4. OK(n)
  <2> SUFFICES ASSUME NEW c \in SUBSET (1..N)
               PROVE  after[Boxes!Selected(c, b, n)] = Click(c, b, n)
    OBVIOUS
  <2>1. PICK w : w = Give(c, Boxes!Below(n), b)
    OBVIOUS
  <2>2. PICK e : e = Give(c, {n}, b)
    OBVIOUS
  <2>3. PICK p : p = pParentTreeNode[n]
    OBVIOUS
  <2>4. /\ w \in SUBSET (1..N)
        /\ e \in SUBSET (1..N) /\ (n \in e <=> b) /\ Give(e, Boxes!Below(n), b) = w
        /\ p \in 0..(n - 1)
        /\ p # 0 => p \in 1..N /\ Boxes!IsAllChildChecked(w, p) \in {{}, {b}}
    <3>1. Settles(n, c, b, Give(c, Boxes!Below(n), b), Give(c, {n}, b), pParentTreeNode[n])
      BY ONLY Settled, Rooted, c \in SUBSET (1..N), b \in BOOLEAN, <1>3
    <3> QED BY ONLY <2>1, <2>2, <2>3, <3>1 DEF Settles
  <2>5. after[Boxes!SetItemCheckBox(e, b, n)] = w
    <3>1. GivesBelow(after, n)
      BY ONLY <1>3, AllGiveBelow, Rooted, Answers(after)
    <3> QED BY ONLY <2>4, <3>1, b \in BOOLEAN DEF GivesBelow
  <2>6. after[Boxes!Selected(c, b, n)] = Passed(after, w, n)
    BY ONLY <1>3, <2>2, <2>5, Answers(after), c \in SUBSET (1..N), b \in BOOLEAN DEF Answers
  <2>7. CASE p = 0 \/ Boxes!IsAllChildChecked(w, p) = {}
    <3>1. Passed(after, w, n) = w
      BY ONLY <2>3, <2>7 DEF Passed
    <3>2. Climb(b)[n][w] = w
      BY ONLY <1>3, <2>3, <2>4, <2>7, ClimbIs, Rooted
    <3> QED BY ONLY <2>1, <2>6, <3>1, <3>2 DEF Click
  <2>8. CASE ~(p = 0 \/ Boxes!IsAllChildChecked(w, p) = {})
    <3>1. (CHOOSE a \in Boxes!IsAllChildChecked(w, p) : TRUE) = b
      <4>1. Boxes!IsAllChildChecked(w, p) = {b}
        BY ONLY <2>4, <2>8
      <4>2. (CHOOSE a \in {b} : TRUE) \in {b}
        OBVIOUS
      <4> QED BY ONLY <4>1, <4>2
    <3>2. Passed(after, w, n) = after[Boxes!Selected(w, b, p)]
      BY ONLY <2>3, <2>8, <3>1 DEF Passed
    <3>3. p \in 1..N /\ ~(n <= p)
      BY <1>3, <2>4, <2>8
    <3>4. OK(p)
      BY <1>2, <3>3
    <3>5. after[Boxes!Selected(w, b, p)] = Climb(b)[p][Give(w, Boxes!Below(p), b)]
      BY ONLY <2>4, <3>4 DEF Click
    <3>6. Climb(b)[n][w] = Climb(b)[p][Give(w, Boxes!Below(p), b)]
      BY ONLY <1>3, <2>3, <2>4, <2>8, ClimbIs, Rooted
    <3> QED BY ONLY <2>1, <2>6, <3>2, <3>5, <3>6 DEF Click
  <2> QED BY ONLY <2>7, <2>8
<1> QED BY ONLY <1>3, <1>4

\* There is a solution.
LEMMA AnswersExist ==
  ASSUME Rooted
  PROVE  \E f : f = [call \in Boxes!Calls |-> Answer(f, call)]
<1> DEFINE f == [call \in Boxes!Calls |->
                   IF call.do = "SetItemCheckBox" THEN Give(call.c, Boxes!Below(call.n), call.b)
                   ELSE Click(call.c, call.b, call.n)]
<1>1. ASSUME NEW c \in SUBSET (1..N), NEW b \in BOOLEAN, NEW n \in 1..N
      PROVE  /\ f[Boxes!Selected(c, b, n)] = Click(c, b, n)
             /\ (n \in c <=> b) => f[Boxes!SetItemCheckBox(c, b, n)] = Give(c, Boxes!Below(n), b)
  <2>1. PICK s : s = Boxes!SetItemCheckBox(c, b, n)
    OBVIOUS
  <2>2. s.do = "SetItemCheckBox" /\ s.c = c /\ s.b = b /\ s.n = n
    BY <2>1 DEF Boxes!SetItemCheckBox
  <2>3. PICK l : l = Boxes!Selected(c, b, n)
    OBVIOUS
  <2>4. l.do = "Selected" /\ l.c = c /\ l.b = b /\ l.n = n
    BY <2>3 DEF Boxes!Selected
  <2>5. l.do # "SetItemCheckBox"
    BY ONLY <2>4
  <2>6. l \in Boxes!Calls /\ ((n \in c <=> b) => s \in Boxes!Calls)
    BY <2>1, <2>3, CallsAre
  <2>7. f[l] = Click(c, b, n)
    BY ONLY <2>4, <2>5, <2>6
  <2>8. s \in Boxes!Calls => f[s] = Give(c, Boxes!Below(n), b)
    BY ONLY <2>2
  <2> HIDE DEF f
  <2> QED BY ONLY <2>1, <2>3, <2>6, <2>7, <2>8
<1>2. f = [call \in Boxes!Calls |-> f[call]]
  OBVIOUS
<1> HIDE DEF f
<1>3. ASSUME NEW n \in 1..N PROVE GivesBelow(f, n)
  <2>1. ASSUME NEW d \in SUBSET (1..N), NEW b \in BOOLEAN,
               pParentTreeNode[n] = 0 \/ (pParentTreeNode[n] \in d <=> b)
        PROVE  f[Boxes!Selected(d, b, n)] = Give(d, Boxes!Below(n), b)
    <3>1. PICK w : w = Give(d, Boxes!Below(n), b)
      OBVIOUS
    <3>2. PICK p : p = pParentTreeNode[n]
      OBVIOUS
    <3>3. w \in SUBSET (1..N) /\ (p # 0 => ((p \in d <=> b) => Boxes!IsAllChildChecked(w, p) = {}))
      <4>1. Settles(n, d, b, Give(d, Boxes!Below(n), b), Give(d, {n}, b), pParentTreeNode[n])
        BY ONLY Settled, Rooted, d \in SUBSET (1..N), b \in BOOLEAN, n \in 1..N
      <4> QED BY ONLY <3>1, <3>2, <4>1 DEF Settles
    <3>4. p = 0 \/ Boxes!IsAllChildChecked(w, p) = {}
      BY ONLY <2>1, <3>2, <3>3
    <3>5. Climb(b)[n][w] = w
      BY ONLY <3>2, <3>3, <3>4, ClimbIs, Rooted, n \in 1..N
    <3>6. f[Boxes!Selected(d, b, n)] = Click(d, b, n)
      BY <1>1
    <3> QED BY ONLY <3>1, <3>5, <3>6 DEF Click
  <2>2. \A d \in SUBSET (1..N), b \in BOOLEAN :
          (n \in d <=> b) => f[Boxes!SetItemCheckBox(d, b, n)] = Give(d, Boxes!Below(n), b)
    BY ONLY <1>1, n \in 1..N
  <2> QED BY ONLY <2>1, <2>2 DEF GivesBelow
<1>4. ASSUME NEW c \in SUBSET (1..N), NEW b \in BOOLEAN, NEW n \in 1..N, n \in c <=> b
      PROVE  f[Boxes!SetItemCheckBox(c, b, n)] = Boxes!Told(f, c, b, Boxes!Children(n))
  <2>1. \A k \in Boxes!Children(n) : GivesBelow(f, k)
    BY <1>3, BoxConstants DEF Boxes!Children
  <2>2. Boxes!Told(f, c, b, Boxes!Children(n)) = Give(c, Boxes!Below(n), b)
    BY ONLY <1>4, <2>1, ChildrenGive, Rooted, c \in SUBSET (1..N), b \in BOOLEAN, n \in 1..N
  <2> QED BY ONLY <1>1, <1>4, <2>2, c \in SUBSET (1..N), b \in BOOLEAN, n \in 1..N
<1>5. ASSUME NEW c \in SUBSET (1..N), NEW b \in BOOLEAN, NEW n \in 1..N
      PROVE  f[Boxes!Selected(c, b, n)] =
               Passed(f, f[Boxes!SetItemCheckBox(Give(c, {n}, b), b, n)], n)
  <2>1. PICK w : w = Give(c, Boxes!Below(n), b)
    OBVIOUS
  <2>2. PICK e : e = Give(c, {n}, b)
    OBVIOUS
  <2>3. PICK p : p = pParentTreeNode[n]
    OBVIOUS
  <2>4. /\ w \in SUBSET (1..N)
        /\ e \in SUBSET (1..N) /\ (n \in e <=> b) /\ Give(e, Boxes!Below(n), b) = w
        /\ p # 0 => p \in 1..N /\ Boxes!IsAllChildChecked(w, p) \in {{}, {b}}
    <3>1. Settles(n, c, b, Give(c, Boxes!Below(n), b), Give(c, {n}, b), pParentTreeNode[n])
      BY ONLY Settled, Rooted, c \in SUBSET (1..N), b \in BOOLEAN, n \in 1..N
    <3> QED BY ONLY <2>1, <2>2, <2>3, <3>1 DEF Settles
  <2>5. f[Boxes!SetItemCheckBox(e, b, n)] = w
    BY ONLY <1>1, <2>4, b \in BOOLEAN, n \in 1..N
  <2>6. f[Boxes!Selected(c, b, n)] = Climb(b)[n][w]
    BY ONLY <1>1, <2>1, c \in SUBSET (1..N), b \in BOOLEAN, n \in 1..N DEF Click
  <2>7. CASE p = 0 \/ Boxes!IsAllChildChecked(w, p) = {}
    <3>1. Passed(f, w, n) = w
      BY ONLY <2>3, <2>7 DEF Passed
    <3>2. Climb(b)[n][w] = w
      BY ONLY <2>3, <2>4, <2>7, ClimbIs, Rooted, n \in 1..N
    <3> QED BY ONLY <2>2, <2>5, <2>6, <3>1, <3>2
  <2>8. CASE ~(p = 0 \/ Boxes!IsAllChildChecked(w, p) = {})
    <3>1. (CHOOSE a \in Boxes!IsAllChildChecked(w, p) : TRUE) = b
      <4>1. Boxes!IsAllChildChecked(w, p) = {b}
        BY ONLY <2>4, <2>8
      <4>2. (CHOOSE a \in {b} : TRUE) \in {b}
        OBVIOUS
      <4> QED BY ONLY <4>1, <4>2
    <3>2. Passed(f, w, n) = f[Boxes!Selected(w, b, p)]
      BY ONLY <2>3, <2>8, <3>1 DEF Passed
    <3>3. p \in 1..N
      BY ONLY <2>4, <2>8
    <3>4. f[Boxes!Selected(w, b, p)] = Climb(b)[p][Give(w, Boxes!Below(p), b)]
      BY ONLY <1>1, <2>4, <3>3, b \in BOOLEAN DEF Click
    <3>5. Climb(b)[n][w] = Climb(b)[p][Give(w, Boxes!Below(p), b)]
      BY ONLY <2>3, <2>4, <2>8, ClimbIs, Rooted, n \in 1..N
    <3> QED BY ONLY <2>2, <2>5, <2>6, <3>2, <3>4, <3>5
  <2> QED BY ONLY <2>7, <2>8
<1>6. ASSUME NEW call \in Boxes!Calls PROVE f[call] = Answer(f, call)
  <2>1. PICK c \in SUBSET (1..N), b \in BOOLEAN, n \in 1..N :
          \/ call = Boxes!Selected(c, b, n)
          \/ call = Boxes!SetItemCheckBox(c, b, n) /\ (n \in c <=> b)
    BY ONLY CallsAre, call \in Boxes!Calls
  <2>2. CASE call = Boxes!Selected(c, b, n)
    <3>1. f[Boxes!Selected(c, b, n)] =
            Passed(f, f[Boxes!SetItemCheckBox(Give(c, {n}, b), b, n)], n)
      BY ONLY <1>5, c \in SUBSET (1..N), b \in BOOLEAN, n \in 1..N
    <3>2. Answer(f, Boxes!Selected(c, b, n)) =
            Passed(f, f[Boxes!SetItemCheckBox(Give(c, {n}, b), b, n)], n)
      BY ONLY AnswerIs
    <3> QED BY ONLY <2>2, <3>1, <3>2
  <2>3. CASE call = Boxes!SetItemCheckBox(c, b, n) /\ (n \in c <=> b)
    <3>1. f[Boxes!SetItemCheckBox(c, b, n)] = Boxes!Told(f, c, b, Boxes!Children(n))
      BY ONLY <1>4, <2>3, c \in SUBSET (1..N), b \in BOOLEAN, n \in 1..N
    <3>2. Answer(f, Boxes!SetItemCheckBox(c, b, n)) = Boxes!Told(f, c, b, Boxes!Children(n))
      BY ONLY AnswerIs
    <3> QED BY ONLY <2>3, <3>1, <3>2
  <2> QED BY ONLY <2>1, <2>2, <2>3
<1>7. f = [call \in Boxes!Calls |-> Answer(f, call)]
  BY ONLY <1>2, <1>6
<1> QED BY <1>7

LEMMA AfterAnswers ==
  ASSUME Rooted
  PROVE  Answers(Boxes!After)
<1>1. Boxes!After = CHOOSE f : f = [call \in Boxes!Calls |-> Answer(f, call)]
  BY DEF Boxes!After, Answer, Passed
<1>2. PICK f : f = Boxes!After
  OBVIOUS
<1>3. f = [call \in Boxes!Calls |-> Answer(f, call)]
  BY <1>1, <1>2, AnswersExist
<1>4. \A call \in Boxes!Calls : f[call] = Answer(f, call)
  BY ONLY <1>3
<1>5. ASSUME NEW c \in SUBSET (1..N), NEW b \in BOOLEAN, NEW n \in 1..N
      PROVE  /\ (n \in c <=> b) =>
                  f[Boxes!SetItemCheckBox(c, b, n)] = Boxes!Told(f, c, b, Boxes!Children(n))
             /\ f[Boxes!Selected(c, b, n)] =
                  Passed(f, f[Boxes!SetItemCheckBox(Give(c, {n}, b), b, n)], n)
  <2>1. Boxes!Selected(c, b, n) \in Boxes!Calls
    BY ONLY CallsAre, c \in SUBSET (1..N), b \in BOOLEAN, n \in 1..N
  <2>2. (n \in c <=> b) => Boxes!SetItemCheckBox(c, b, n) \in Boxes!Calls
    BY ONLY CallsAre, c \in SUBSET (1..N), b \in BOOLEAN, n \in 1..N
  <2> QED BY ONLY <1>4, <2>1, <2>2, AnswerIs
<1>6. Answers(f)
  BY ONLY <1>5 DEF Answers
<1> QED BY ONLY <1>2, <1>6

\* What a click and a SetItemCheckBox of the view do.
LEMMA ClickIs ==
  ASSUME Rooted, NEW n \in 1..N, NEW b \in BOOLEAN, NEW c \in SUBSET (1..N)
  PROVE  Boxes!After[Boxes!Selected(c, b, n)] = Climb(b)[n][Give(c, Boxes!Below(n), b)]
<1>1. Boxes!After[Boxes!Selected(c, b, n)] = Click(c, b, n)
  BY ONLY AfterAnswers, SelectedIs, Rooted, n \in 1..N, b \in BOOLEAN, c \in SUBSET (1..N)
<1> QED BY ONLY <1>1 DEF Click

LEMMA SetAllIs ==
  ASSUME Rooted, NEW b \in BOOLEAN, NEW c \in SUBSET (1..N)
  PROVE  Boxes!Told(Boxes!After, c, b, 1..N) = IF b THEN 1..N ELSE {}
<1> DEFINE U == UNION {Boxes!Below(k) : k \in 1..N}
<1>0. PICK after : after = Boxes!After
  OBVIOUS
<1>1. \A k \in 1..N : GivesBelow(after, k)
  BY ONLY <1>0, AfterAnswers, AllGiveBelow, Rooted
<1>2. \A k \in 1..N : pParentTreeNode[k] = 0 \/ pParentTreeNode[k] \in 1..N
  <2> SUFFICES ASSUME NEW k \in 1..N PROVE pParentTreeNode[k] = 0 \/ pParentTreeNode[k] \in 1..N
    OBVIOUS
  <2>1. pParentTreeNode[k] \in 0..N
    BY ParentIs
  <2> QED BY <2>1, BoxConstants
<1>3. PICK S \in SUBSET (1..N) : S = 1..N
  OBVIOUS
<1>4. Boxes!Told(after, c, b, S) = Give(c, UNION {Boxes!Below(k) : k \in S}, b)
  <2>1. \A k \in S : GivesBelow(after, k)
    BY ONLY <1>1, <1>3
  <2>2. \A k \in S : \/ pParentTreeNode[k] = 0 \/ pParentTreeNode[k] \in S
                     \/ (pParentTreeNode[k] \in c <=> b)
    BY ONLY <1>2, <1>3
  <2> QED BY <2>1, <2>2, LoopGives
<1>5. U = 1..N
  BY BelowIs
<1>6. Give(c, 1..N, b) = IF b THEN 1..N ELSE {}
  BY DEF Give
<1> HIDE DEF U
<1> QED BY ONLY <1>0, <1>3, <1>4, <1>5, <1>6 DEF U

\* The inductive invariant of the check boxes.
BoxesInv == Boxes!TypeOK /\ Boxes!ParentsFollowChildren

\* No parent has to change.
LEMMA FollowIs ==
  Boxes!ParentsFollowChildren <=> \A x \in 1..N : Boxes!IsAllChildChecked(checked, x) = {}
<1>1. ASSUME NEW x
      PROVE  Boxes!IsAllChildChecked(checked, x) = {} <=>
               (Boxes!Children(x) # {} => /\ Boxes!Children(x) \subseteq checked => x \in checked
                                          /\ Boxes!Children(x) \cap checked = {} => x \notin checked)
  BY DEF Boxes!IsAllChildChecked
<1>2. Boxes!NodeIds = 1..N
  BY BoxConstants
<1> QED BY ONLY <1>1, <1>2 DEF Boxes!ParentsFollowChildren

LEMMA FollowIsNext ==
  (Boxes!ParentsFollowChildren <=> \A x \in 1..N : Boxes!IsAllChildChecked(checked, x) = {})'
BY FollowIs, PTL

LEMMA RootedIs ==
  Boxes!TypeOK <=> Rooted /\ checked \in SUBSET (1..N)
BY BoxConstants DEF Boxes!TypeOK, Rooted

LEMMA BoxesInit == Boxes!Init => BoxesInv
<1> SUFFICES ASSUME Boxes!Init PROVE BoxesInv
  OBVIOUS
<1>1. Boxes!TypeOK
  BY DEF Boxes!Init, Boxes!TypeOK
<1>2. \A x \in 1..N : Boxes!IsAllChildChecked(checked, x) = {}
  <2>1. checked = {}
    BY DEF Boxes!Init
  <2> QED BY ONLY <2>1 DEF Boxes!IsAllChildChecked
<1> QED BY <1>1, <1>2, FollowIs DEF BoxesInv

\* A click on the box of n.
LEMMA ToggleKeeps ==
  ASSUME BoxesInv, NEW n \in 1..N, Boxes!Toggle(n)
  PROVE  /\ checked' \in SUBSET (1..N)
         /\ \A x \in 1..N : Boxes!IsAllChildChecked(checked', x) = {}
         /\ IF n \in checked THEN Boxes!Below(n) \cap checked' = {} /\ checked' \subseteq checked
                             ELSE Boxes!Below(n) \subseteq checked' /\ checked \subseteq checked'
<1>0. Rooted /\ checked \in SUBSET (1..N)
  BY RootedIs DEF BoxesInv
<1>1. PICK b \in BOOLEAN : b = (n \notin checked)
  OBVIOUS
<1>2. PICK S : S = Boxes!Below(n)
  OBVIOUS
<1>3. PICK w : w = Give(checked, S, b)
  OBVIOUS
<1>4. PICK z : z = Climb(b)[n][w]
  OBVIOUS
<1>5. checked' = z
  <2>1. checked' = Boxes!After[Boxes!Selected(checked, b, n)]
    BY <1>1 DEF Boxes!Toggle
  <2>2. Boxes!After[Boxes!Selected(checked, b, n)] = Climb(b)[n][Give(checked, Boxes!Below(n), b)]
    BY ONLY <1>0, ClickIs, n \in 1..N, b \in BOOLEAN
  <2> QED BY ONLY <1>2, <1>3, <1>4, <2>1, <2>2
<1>6. S \in SUBSET (1..N)
  BY <1>0, <1>2, BelowIs
<1>7. w \in SUBSET (1..N)
  BY ONLY <1>0, <1>3, <1>6 DEF Give
<1>8. z \in SUBSET (1..N) /\ (b => w \subseteq z) /\ (~b => z \subseteq w)
  BY ONLY <1>0, <1>4, <1>7, ClimbIn, n \in 1..N, b \in BOOLEAN
<1>9. \A x \in 1..N : Boxes!IsAllChildChecked(z, x) = {}
  <2>1. \A x \in 1..N : Boxes!IsAllChildChecked(checked, x) = {}
    BY FollowIs DEF BoxesInv
  <2>2. ASSUME NEW x \in 1..N, x # pParentTreeNode[n] PROVE Boxes!IsAllChildChecked(w, x) = {}
    <3>1. Boxes!IsAllChildChecked(Give(checked, Boxes!Below(n), b), x) = {}
      BY ONLY <1>0, <2>1, <2>2, GiveFollows, n \in 1..N, b \in BOOLEAN, x \in 1..N
    <3> QED BY ONLY <1>2, <1>3, <3>1
  <2> QED BY ONLY <1>0, <1>4, <1>7, <2>2, ClimbFollows, n \in 1..N, b \in BOOLEAN
<1>10. CASE n \in checked
  <2>1. ~b
    BY ONLY <1>1, <1>10
  <2>2. S \cap z = {} /\ z \subseteq checked
    BY ONLY <1>3, <1>8, <2>1 DEF Give
  <2> QED BY ONLY <1>2, <1>5, <1>8, <1>9, <1>10, <2>2
<1>11. CASE n \notin checked
  <2>1. b
    BY ONLY <1>1, <1>11
  <2>2. S \subseteq z /\ checked \subseteq z
    BY ONLY <1>3, <1>8, <2>1 DEF Give
  <2> QED BY ONLY <1>2, <1>5, <1>8, <1>9, <1>11, <2>2
<1> QED BY ONLY <1>10, <1>11

LEMMA BoxesNext == BoxesInv /\ [Boxes!Next]_boxVars => BoxesInv'
<1> SUFFICES ASSUME BoxesInv, [Boxes!Next]_boxVars PROVE BoxesInv'
  OBVIOUS
<1>0. Rooted /\ checked \in SUBSET (1..N) /\ Boxes!NodeIds = 1..N
  BY RootedIs, BoxConstants DEF BoxesInv
<1> DEFINE Quiet == \A x \in 1..N : Boxes!IsAllChildChecked(checked, x) = {}
<1>1. ASSUME NEW n \in 1..N, Boxes!Toggle(n)
      PROVE  checked' \in SUBSET (1..N) /\ Quiet' /\ pParentTreeNode' = pParentTreeNode
  <2>1. pParentTreeNode' = pParentTreeNode
    BY <1>1 DEF Boxes!Toggle
  <2>2. /\ checked' \in SUBSET (1..N)
        /\ \A x \in 1..N : Boxes!IsAllChildChecked(checked', x) = {}
    BY <1>1, ToggleKeeps
  <2>3. Quiet'
    BY <2>1, <2>2 DEF Boxes!IsAllChildChecked, Boxes!Children, Boxes!NodeIds
  <2> QED BY ONLY <2>1, <2>2, <2>3
<1>2. ASSUME NEW b \in BOOLEAN, Boxes!SetAll(b)
      PROVE  checked' \in SUBSET (1..N) /\ Quiet' /\ pParentTreeNode' = pParentTreeNode
  <2>1. pParentTreeNode' = pParentTreeNode
    BY <1>2 DEF Boxes!SetAll
  <2>2. checked' = IF b THEN 1..N ELSE {}
    <3>1. checked' = Boxes!Told(Boxes!After, checked, b, 1..N)
      BY <1>0, <1>2 DEF Boxes!SetAll
    <3>2. Boxes!Told(Boxes!After, checked, b, 1..N) = IF b THEN 1..N ELSE {}
      BY ONLY <1>0, SetAllIs, b \in BOOLEAN
    <3> QED BY ONLY <3>1, <3>2
  <2>3. \A x \in 1..N : Boxes!Children(x)' \subseteq 1..N
    BY BoxConstants DEF Boxes!Children, Boxes!NodeIds
  <2>4. Quiet'
    BY <2>2, <2>3 DEF Boxes!IsAllChildChecked
  <2> QED BY <2>1, <2>2, <2>4
<1>3. CASE UNCHANGED boxVars
  BY <1>3 DEF boxVars, BoxesInv, Boxes!TypeOK, Boxes!ParentsFollowChildren, Boxes!Children
<1>4. ASSUME checked' \in SUBSET (1..N), Quiet', pParentTreeNode' = pParentTreeNode
      PROVE  BoxesInv'
  <2>1. Boxes!TypeOK'
    BY <1>0, <1>4, BoxConstants DEF Boxes!TypeOK, Rooted, Boxes!NodeIds
  <2>2. Boxes!ParentsFollowChildren'
    BY <1>4, FollowIsNext DEF Quiet
  <2> QED BY <2>1, <2>2 DEF BoxesInv
<1> HIDE DEF Quiet
<1> QED BY <1>0, <1>1, <1>2, <1>3, <1>4 DEF Boxes!Next

LEMMA BoxesPart == [PartsNext]_<<part, partVars>> => [Boxes!Next]_boxVars
BY DEF PartsNext, partVars

\* UITreeView.cpp, the check boxes: after every click, and every SetItemCheckBox of the
\* view, a box is checked when all the boxes right below it are and not when none is; a click
\* gives all below the box its new state and changes no box the other way.
THEOREM BoxesAlwaysAgree == PartsSpec => BoxesAgree
<1>1. PartsInit => BoxesInv
  BY BoxesInit DEF PartsInit
<1>2. BoxesInv /\ [PartsNext]_<<part, partVars>> => BoxesInv'
  BY BoxesPart, BoxesNext
<1>3. BoxesInv /\ BoxesInv' /\ [PartsNext]_<<part, partVars>> =>
        [Boxes!ParentsFollowChildren' /\ Boxes!ClickDecides]_<<part, boxVars>>
  <2>1. BoxesInv' => Boxes!ParentsFollowChildren'
    BY DEF BoxesInv
  <2>2. BoxesInv => Boxes!ClickDecides
    BY ToggleKeeps, BoxConstants DEF Boxes!ClickDecides
  <2> QED BY ONLY <2>1, <2>2
<1> QED BY <1>1, <1>2, <1>3, PTL DEF PartsSpec, BoxesAgree
=============================================================================
