--------------------------- MODULE Sqlite3_proof ----------------------------
(* CppSQLite3 for any number of databases, queries, statements and VMs;    *)
(* and its blobs for any number of bytes, any quote and blobs of any       *)
(* length.                                                                 *)
EXTENDS MCSqlite3, FiniteSetTheorems, SequenceTheorems, WellFoundedInduction, TLAPS

-----------------------------------------------------------------------------
(* Induction over numbers, and functions defined by recursion over them:   *)
(* from the order of the numbers being well-founded.                       *)

\* The first n numbers.
LEMMA IntervalSize ==
  ASSUME NEW n \in Nat
  PROVE  IsFiniteSet(1..n) /\ Cardinality(1..n) = n
<1>1. IsFiniteSet(1..n) /\ Cardinality(1..n) = IF 1 > n THEN 0 ELSE n - 1 + 1
  BY ONLY n \in Nat, FS_Interval, SMTT(40)
<1> QED BY ONLY n \in Nat, <1>1

\* A set of natural numbers that is not empty has a least element.
LEMMA Least ==
  ASSUME NEW S \in SUBSET Nat, S # {}
  PROVE  \E m \in S : \A k \in S : m <= k
<1> DEFINE R == {ss \in Nat \X Nat : ss[1] < ss[2]}
<1>1. IsWellFoundedOn(R, Nat)
  BY NatLessThanWellFounded DEF OpToRel
<1>2. PICK m \in S : \A y \in S : ~(<<y, m>> \in R)
  BY <1>1, WFMin
<1>3. ASSUME NEW k \in S PROVE m <= k
  <2>1. <<k, m>> \in Nat \X Nat /\ ~(<<k, m>> \in R)
    BY <1>2
  <2>2. ~(k < m)
    BY <2>1
  <2> QED BY <2>2
<1> QED BY <1>3

\* What holds of 0, and of i + 1 if of i, holds up to n.
LEMMA UpTo ==
  ASSUME NEW S, NEW n \in Nat, 0 \in S, \A i \in 0..(n - 1) : i \in S => i + 1 \in S
  PROVE  \A i \in 0..n : i \in S
<1> DEFINE Bad == {i \in 0..n : i \notin S}
<1>1. SUFFICES ASSUME Bad # {} PROVE FALSE
  OBVIOUS
<1>2. PICK m \in Bad : \A k \in Bad : m <= k
  <2>1. Bad \in SUBSET Nat
    OBVIOUS
  <2> HIDE DEF Bad
  <2> QED BY ONLY <1>1, <2>1, Least
<1>3. m \in Nat /\ m # 0 /\ m <= n /\ m \notin S
  BY <1>2
<1>4. m - 1 \in 0..(n - 1) /\ m - 1 \in 0..n /\ ~(m <= m - 1) /\ (m - 1) + 1 = m
  BY <1>3
<1>5. m - 1 \notin Bad
  BY ONLY <1>2, <1>4
<1>6. m - 1 \in S
  BY <1>4, <1>5
<1> QED BY <1>3, <1>4, <1>6

\* f is a recursion over 0..n, from x0 by a step for each number.
Recurs(f, X, x0, step, n) ==
  /\ f \in [0..n -> X]
  /\ f[0] = x0
  /\ \A i \in 1..n : f[i] = step[i][f[i - 1]]

\* Every recursion has a solution.
LEMMA RecursionExists ==
  ASSUME NEW X, NEW x0 \in X, NEW step \in [Nat -> [X -> X]], NEW n \in Nat
  PROVE  \E f : Recurs(f, X, x0, step, n)
<1> DEFINE S == {m \in 0..n : \E f : Recurs(f, X, x0, step, m)}
<1>1. 0 \in S
  <2> DEFINE f == [i \in 0..0 |-> x0]
  <2>1. Recurs(f, X, x0, step, 0)
    BY DEF Recurs
  <2> QED BY <2>1
<1>2. ASSUME NEW m \in 0..(n - 1), m \in S PROVE m + 1 \in S
  <2>0. m \in Nat /\ m + 1 \in 0..n
    OBVIOUS
  <2>1. PICK f : Recurs(f, X, x0, step, m)
    BY <1>2
  <2> DEFINE g == [i \in 0..(m + 1) |-> IF i = m + 1 THEN step[m + 1][f[m]] ELSE f[i]]
  <2>2. step[m + 1][f[m]] \in X
    BY <2>0, <2>1 DEF Recurs
  <2>3. g \in [0..(m + 1) -> X] /\ g[0] = x0
    BY <2>0, <2>1, <2>2 DEF Recurs
  <2>4. ASSUME NEW i \in 1..(m + 1) PROVE g[i] = step[i][g[i - 1]]
    BY <2>0, <2>1 DEF Recurs
  <2> HIDE DEF g
  <2>5. Recurs(g, X, x0, step, m + 1)
    BY <2>3, <2>4 DEF Recurs
  <2> QED BY <2>0, <2>5
<1> HIDE DEF S
<1>3. n \in S
  <2>1. \A i \in 0..n : i \in S
    BY ONLY n \in Nat, <1>1, <1>2, UpTo
  <2> QED BY <2>1
<1> QED BY <1>3 DEF S

\* A solution has its values in the same set.
LEMMA RecursionType ==
  ASSUME NEW X, NEW n \in Nat, NEW f, f[0] \in X,
         \A i \in 1..n : f[i - 1] \in X => f[i] \in X
  PROVE  \A i \in 0..n : f[i] \in X
<1> DEFINE S == {i \in 0..n : f[i] \in X}
<1>1. 0 \in S
  OBVIOUS
<1>2. ASSUME NEW i \in 0..(n - 1), i \in S PROVE i + 1 \in S
  <2>1. i + 1 \in 1..n /\ (i + 1) - 1 = i
    OBVIOUS
  <2> QED BY <1>2, <2>1
<1> HIDE DEF S
<1>3. \A i \in 0..n : i \in S
  BY <1>1, <1>2, UpTo
<1> QED BY <1>3 DEF S

-----------------------------------------------------------------------------
(* Who owns a VM.                                                          *)

\* A query that does not own its VM borrows it from a statement, or from one that was
\* assigned to since.
BorrowsFromStatement ==
  \A q \in Queries :
    qVM[q] \in Owners!Sound /\ ~mbOwnVM[q] =>
      qVM[q] \in leaked \/ \E s \in Statements : sVM[s] = qVM[q]

LeakedIsLive == leaked \subseteq Owners!Live

OwnersInv ==
  /\ Owners!TypeOK
  /\ Owners!OneOwner /\ Owners!NoStaleVM /\ Owners!NotAtEofHasRow
  /\ Owners!HandlesHeld
  /\ BorrowsFromStatement /\ LeakedIsLive

\* The parts of one owner each: what the owners of two objects say of each other.
OwnersApart ==
  /\ \A q, r \in Queries :
       qVM[q] = qVM[r] /\ qVM[q] \in Owners!Sound /\ mbOwnVM[q] /\ mbOwnVM[r] => q = r
  /\ \A s, t \in Statements : sVM[s] = sVM[t] /\ sVM[s] \in Owners!Sound => s = t
  /\ \A q \in Queries, s \in Statements :
       qVM[q] = sVM[s] /\ qVM[q] \in Owners!Sound => ~mbOwnVM[q]

HaveOwner ==
  \A v \in Owners!Live \cap Owners!Sound :
    \/ v \in leaked
    \/ \E q \in Queries : qVM[q] = v /\ mbOwnVM[q]
    \/ \E s \in Statements : sVM[s] = v

LeakedIsAlone ==
  \A v \in leaked \cap Owners!Sound :
    /\ \A q \in Queries : qVM[q] = v => ~mbOwnVM[q]
    /\ \A s \in Statements : sVM[s] # v

\* Nobody has a VM that is not allocated, so that OneOwner says just this.
LEMMA OneOwnerMeans ==
  ASSUME Owners!TypeOK, Owners!NoStaleVM, LeakedIsLive
  PROVE  Owners!OneOwner <=> OwnersApart /\ HaveOwner /\ LeakedIsAlone
<1> USE OwnersAssumption DEF Owners!ConstantsAssumption, Owners!TypeOK, Owners!NoStaleVM,
        Owners!Live, Owners!Owns, Owners!OneOwner, Owners!Sound, LeakedIsLive
<1>1. ASSUME Owners!OneOwner PROVE OwnersApart
  <2>1. ASSUME NEW q \in Queries, NEW r \in Queries, qVM[q] = qVM[r],
               qVM[q] \in Owners!Sound, mbOwnVM[q], mbOwnVM[r]
        PROVE  q = r
    BY <1>1, <2>1
  <2>2. ASSUME NEW s \in Statements, NEW t \in Statements, sVM[s] = sVM[t],
               sVM[s] \in Owners!Sound
        PROVE  s = t
    BY <1>1, <2>2
  <2>3. ASSUME NEW q \in Queries, NEW s \in Statements, qVM[q] = sVM[s],
               qVM[q] \in Owners!Sound
        PROVE  ~mbOwnVM[q]
    BY <1>1, <2>3
  <2> QED  BY <2>1, <2>2, <2>3 DEF OwnersApart
<1>2. ASSUME Owners!OneOwner PROVE HaveOwner /\ LeakedIsAlone
  BY <1>2 DEF HaveOwner, LeakedIsAlone
<1>3. ASSUME OwnersApart, HaveOwner, LeakedIsAlone PROVE Owners!OneOwner
  <2> SUFFICES ASSUME NEW v \in Owners!Live \cap Owners!Sound
               PROVE  /\ v \in leaked
                           <=> \A o \in Queries \cup Statements : ~Owners!Owns(o, v)
                      /\ \A o, p \in Queries \cup Statements :
                           Owners!Owns(o, v) /\ Owners!Owns(p, v) => o = p
    OBVIOUS
  <2>1. v \in leaked <=> \A o \in Queries \cup Statements : ~Owners!Owns(o, v)
    BY <1>3 DEF HaveOwner, LeakedIsAlone
  <2>2. ASSUME NEW o \in Queries \cup Statements, NEW p \in Queries \cup Statements,
               Owners!Owns(o, v), Owners!Owns(p, v)
        PROVE  o = p
    BY <1>3, <2>2 DEF OwnersApart
  <2> QED  BY <2>1, <2>2
<1> QED  BY <1>1, <1>2, <1>3

\* The invariant with OneOwner spelled out: what the proofs of the steps work with.
OwnersParts ==
  /\ Owners!TypeOK
  /\ OwnersApart /\ HaveOwner /\ LeakedIsAlone
  /\ Owners!NoStaleVM /\ Owners!NotAtEofHasRow
  /\ Owners!HandlesHeld
  /\ BorrowsFromStatement /\ LeakedIsLive

\* The two forms of the invariant are the same.
LEMMA TwoForms == OwnersInv <=> OwnersParts
BY OneOwnerMeans DEF OwnersInv, OwnersParts

\* A new handle has no VM yet.
LEMMA OpenKeeps ==
  ASSUME OwnersParts, NEW d \in Databases, Owners!Open(d)
  PROVE  OwnersParts'
<1> USE OwnersAssumption
    DEF Owners!ConstantsAssumption, OwnersParts, Owners!TypeOK, Owners!NoStaleVM, Owners!Live,
        Owners!Sound, Owners!queries, Owners!history, LeakedIsLive,
        Owners!Open
<1>1. Owners!TypeOK'
  OBVIOUS
<1>2. OwnersApart'
  BY DEF OwnersApart
<1>3. HaveOwner'
  BY DEF HaveOwner, OwnersApart
<1>4. LeakedIsAlone' /\ LeakedIsLive'
  BY DEF LeakedIsAlone, OwnersApart
<1>5. Owners!NoStaleVM'
  BY DEF OwnersApart, BorrowsFromStatement, LeakedIsAlone
<1>6. Owners!NotAtEofHasRow'
  BY DEF Owners!NotAtEofHasRow, OwnersApart, BorrowsFromStatement
<1>7. Owners!HandlesHeld'
  BY DEF Owners!HandlesHeld
<1>8. BorrowsFromStatement'
  BY DEF BorrowsFromStatement, OwnersApart, LeakedIsAlone
<1> QED  BY <1>1, <1>2, <1>3, <1>4, <1>5, <1>6, <1>7, <1>8

\* The handle that is closed has no VM left.
LEMMA CloseKeeps ==
  ASSUME OwnersParts, NEW d \in Databases, Owners!Close(d)
  PROVE  OwnersParts'
<1> USE OwnersAssumption
    DEF Owners!ConstantsAssumption, OwnersParts, Owners!TypeOK, Owners!NoStaleVM, Owners!Live,
        Owners!Sound, Owners!queries, Owners!history, LeakedIsLive,
        Owners!Close
<1>1. Owners!TypeOK'
  OBVIOUS
<1>2. OwnersApart'
  BY DEF OwnersApart
<1>3. HaveOwner'
  BY DEF HaveOwner, OwnersApart
<1>4. LeakedIsAlone' /\ LeakedIsLive'
  BY DEF LeakedIsAlone, OwnersApart
<1>5. Owners!NoStaleVM'
  BY DEF OwnersApart, BorrowsFromStatement, LeakedIsAlone
<1>6. Owners!NotAtEofHasRow'
  BY DEF Owners!NotAtEofHasRow, OwnersApart, BorrowsFromStatement
<1>7. Owners!HandlesHeld'
  BY DEF Owners!HandlesHeld
<1>8. BorrowsFromStatement'
  BY DEF BorrowsFromStatement, OwnersApart, LeakedIsAlone
<1> QED  BY <1>1, <1>2, <1>3, <1>4, <1>5, <1>6, <1>7, <1>8

\* The new VM is owned by the query it is assigned to, and what that one held is freed.
LEMMA ExecQueryKeeps ==
  ASSUME OwnersParts, NEW d \in Databases, NEW q \in Queries, Owners!ExecQuery(d, q)
  PROVE  OwnersParts'
<1> USE OwnersAssumption
    DEF Owners!ConstantsAssumption, OwnersParts, Owners!TypeOK, Owners!NoStaleVM, Owners!Live,
        Owners!Sound, Owners!queries, Owners!history, LeakedIsLive, Owners!Freed, Owners!Owned,
        Owners!ExecQuery
<1>1. Owners!TypeOK'
  OBVIOUS
<1>2. OwnersApart'
  BY DEF OwnersApart
<1>3. HaveOwner'
  BY DEF HaveOwner, OwnersApart
<1>4. LeakedIsAlone' /\ LeakedIsLive'
  BY DEF LeakedIsAlone, OwnersApart
<1>5. Owners!NoStaleVM'
  BY DEF OwnersApart, BorrowsFromStatement, LeakedIsAlone
<1>6. Owners!NotAtEofHasRow'
  <2>1. PICK v \in VMs \ Owners!Live, result \in {"row", "done"} :
          /\ vm' = Owners!Freed([vm EXCEPT ![v] = result], Owners!Owned(q), "none")
          /\ qVM' = [qVM EXCEPT ![q] = v]
          /\ mbEof' = [mbEof EXCEPT ![q] = (result = "done")]
    OBVIOUS
  <2>2. mbOwnVM' = [mbOwnVM EXCEPT ![q] = TRUE] /\ spoiled' = spoiled
    OBVIOUS
  <2>3. ASSUME NEW r \in Queries, qVM'[r] \in Owners!Sound, mbOwnVM'[r], ~mbEof'[r], r # q
        PROVE  vm'[qVM'[r]] = "row"
    BY <2>1, <2>2, <2>3 DEF Owners!NotAtEofHasRow, OwnersApart
  <2>4. qVM'[q] \in Owners!Sound /\ ~mbEof'[q] => vm'[qVM'[q]] = "row"
    <3>1. mbEof'[q] <=> result = "done"
      BY <2>1
    <3>2. qVM'[q] = v /\ (v \in Owners!Sound => vm'[v] = result)
      BY <2>1
    <3> QED  BY <3>1, <3>2
  <2> QED  BY <2>2, <2>3, <2>4 DEF Owners!NotAtEofHasRow
<1>7. Owners!HandlesHeld'
  BY DEF Owners!HandlesHeld
<1>8. BorrowsFromStatement'
  BY DEF BorrowsFromStatement, OwnersApart, LeakedIsAlone
<1> QED  BY <1>1, <1>2, <1>3, <1>4, <1>5, <1>6, <1>7, <1>8

\* The new VM is owned by the statement, and what that one held is leaked.
LEMMA CompileStatementKeeps ==
  ASSUME OwnersParts, NEW d \in Databases, NEW s \in Statements, Owners!CompileStatement(d, s)
  PROVE  OwnersParts'
<1> USE OwnersAssumption
    DEF Owners!ConstantsAssumption, OwnersParts, Owners!TypeOK, Owners!NoStaleVM, Owners!Live,
        Owners!Sound, Owners!queries, Owners!history, LeakedIsLive,
        Owners!CompileStatement
<1>1. Owners!TypeOK'
  OBVIOUS
<1>2. OwnersApart'
  BY DEF OwnersApart
<1>3. HaveOwner'
  BY DEF HaveOwner, OwnersApart
<1>4. LeakedIsAlone' /\ LeakedIsLive'
  BY DEF LeakedIsAlone, OwnersApart
<1>5. Owners!NoStaleVM'
  BY DEF OwnersApart, BorrowsFromStatement, LeakedIsAlone
<1>6. Owners!NotAtEofHasRow'
  BY DEF Owners!NotAtEofHasRow, OwnersApart, BorrowsFromStatement
<1>7. Owners!HandlesHeld'
  BY DEF Owners!HandlesHeld
<1>8. BorrowsFromStatement'
  BY DEF BorrowsFromStatement, OwnersApart, LeakedIsAlone
<1> QED  BY <1>1, <1>2, <1>3, <1>4, <1>5, <1>6, <1>7, <1>8

\* A step that fails frees the VM; the address is spoiled if a statement still has it.
LEMMA NextRowKeeps ==
  ASSUME OwnersParts, NEW q \in Queries, Owners!NextRow(q)
  PROVE  OwnersParts'
<1> USE OwnersAssumption
    DEF Owners!ConstantsAssumption, OwnersParts, Owners!TypeOK, Owners!NoStaleVM, Owners!Live,
        Owners!Sound, Owners!queries, Owners!history, LeakedIsLive, Owners!Freed, Owners!Frees, Owners!Spoils,
        Owners!NextRow
<1>1. Owners!TypeOK'
  <2>1. qVM[q] \in VMs /\ UNCHANGED <<mpDB, opened, sVM>>
    OBVIOUS
  <2>2. CASE /\ vm' = [vm EXCEPT ![qVM[q]] = "row"]
             /\ UNCHANGED <<dbOf, qVM, mbEof, mbOwnVM, leaked, spoiled>>
    BY <2>1, <2>2
  <2>3. CASE /\ vm' = [vm EXCEPT ![qVM[q]] = "done"]
             /\ mbEof' = [mbEof EXCEPT ![q] = TRUE]
             /\ UNCHANGED <<dbOf, qVM, mbOwnVM, leaked, spoiled>>
    BY <2>1, <2>3
  <2>4. CASE /\ Owners!Frees(qVM[q])
             /\ spoiled' = spoiled \cup Owners!Spoils(q, qVM[q])
             /\ qVM' = [qVM EXCEPT ![q] = NONE]
             /\ UNCHANGED <<mbEof, mbOwnVM>>
    BY <2>1, <2>4
  <2> QED
    BY ONLY Owners!NextRow(q), <2>2, <2>3, <2>4
       DEF Owners!NextRow, Owners!queries, Owners!history
<1>2. OwnersApart'
  BY DEF OwnersApart
<1>3. HaveOwner'
  BY DEF HaveOwner, OwnersApart
<1>4. LeakedIsAlone' /\ LeakedIsLive'
  BY DEF LeakedIsAlone, OwnersApart
<1>5. Owners!NoStaleVM'
  BY DEF OwnersApart, BorrowsFromStatement, LeakedIsAlone
<1>6. Owners!NotAtEofHasRow'
  BY DEF Owners!NotAtEofHasRow, OwnersApart, BorrowsFromStatement, LeakedIsAlone
<1>7. Owners!HandlesHeld'
  BY DEF Owners!HandlesHeld
<1>8. BorrowsFromStatement'
  BY DEF BorrowsFromStatement, OwnersApart, LeakedIsAlone
<1> QED  BY <1>1, <1>2, <1>3, <1>4, <1>5, <1>6, <1>7, <1>8

\* Finalizing an owner frees a VM nobody else has.
LEMMA FinalizeQueryKeeps ==
  ASSUME OwnersParts, NEW q \in Queries, Owners!FinalizeQuery(q)
  PROVE  OwnersParts'
<1> USE OwnersAssumption
    DEF Owners!ConstantsAssumption, OwnersParts, Owners!TypeOK, Owners!NoStaleVM, Owners!Live,
        Owners!Sound, Owners!queries, Owners!history, LeakedIsLive, Owners!Freed, Owners!Frees,
        Owners!FinalizeQuery
<1>1. Owners!TypeOK'
  OBVIOUS
<1>2. OwnersApart'
  BY DEF OwnersApart
<1>3. HaveOwner'
  BY DEF HaveOwner, OwnersApart
<1>4. LeakedIsAlone' /\ LeakedIsLive'
  BY DEF LeakedIsAlone, OwnersApart
<1>5. Owners!NoStaleVM'
  BY DEF OwnersApart, BorrowsFromStatement, LeakedIsAlone
<1>6. Owners!NotAtEofHasRow'
  BY DEF Owners!NotAtEofHasRow, OwnersApart, BorrowsFromStatement
<1>7. Owners!HandlesHeld'
  BY DEF Owners!HandlesHeld
<1>8. BorrowsFromStatement'
  BY DEF BorrowsFromStatement, OwnersApart, LeakedIsAlone
<1> QED  BY <1>1, <1>2, <1>3, <1>4, <1>5, <1>6, <1>7, <1>8

\* A destroyed query takes with it what it owned, and only that.
LEMMA DestroyQueryKeeps ==
  ASSUME OwnersParts, NEW q \in Queries, Owners!DestroyQuery(q)
  PROVE  OwnersParts'
<1> USE OwnersAssumption
    DEF Owners!ConstantsAssumption, OwnersParts, Owners!TypeOK, Owners!NoStaleVM, Owners!Live,
        Owners!Sound, Owners!queries, Owners!history, LeakedIsLive, Owners!Freed, Owners!Frees, Owners!Owned,
        Owners!DestroyQuery
<1>1. Owners!TypeOK'
  OBVIOUS
<1>2. OwnersApart'
  BY DEF OwnersApart
<1>3. HaveOwner'
  BY DEF HaveOwner, OwnersApart
<1>4. LeakedIsAlone' /\ LeakedIsLive'
  BY DEF LeakedIsAlone, OwnersApart
<1>5. Owners!NoStaleVM'
  BY DEF OwnersApart, BorrowsFromStatement, LeakedIsAlone
<1>6. Owners!NotAtEofHasRow'
  BY DEF Owners!NotAtEofHasRow, OwnersApart, BorrowsFromStatement
<1>7. Owners!HandlesHeld'
  BY DEF Owners!HandlesHeld
<1>8. BorrowsFromStatement'
  BY DEF BorrowsFromStatement, OwnersApart, LeakedIsAlone
<1> QED  BY <1>1, <1>2, <1>3, <1>4, <1>5, <1>6, <1>7, <1>8

\* The VM moves with the right and the duty to free it.
LEMMA MoveQueryKeeps ==
  ASSUME OwnersParts, NEW q \in Queries, NEW r \in Queries, Owners!MoveQuery(q, r)
  PROVE  OwnersParts'
<1> USE OwnersAssumption
    DEF Owners!ConstantsAssumption, OwnersParts, Owners!TypeOK, Owners!NoStaleVM, Owners!Live,
        Owners!Sound, Owners!queries, Owners!history, LeakedIsLive, Owners!Freed, Owners!Frees, Owners!Owned,
        Owners!MoveQuery
<1>1. Owners!TypeOK'
  OBVIOUS
<1>2. OwnersApart'
  BY DEF OwnersApart
<1>3. HaveOwner'
  BY DEF HaveOwner, OwnersApart
<1>4. LeakedIsAlone' /\ LeakedIsLive'
  BY DEF LeakedIsAlone, OwnersApart
<1>5. Owners!NoStaleVM'
  BY DEF OwnersApart, BorrowsFromStatement, LeakedIsAlone
<1>6. Owners!NotAtEofHasRow'
  BY DEF Owners!NotAtEofHasRow, OwnersApart, BorrowsFromStatement
<1>7. Owners!HandlesHeld'
  BY DEF Owners!HandlesHeld
<1>8. BorrowsFromStatement'
  BY DEF BorrowsFromStatement, OwnersApart, LeakedIsAlone
<1> QED  BY <1>1, <1>2, <1>3, <1>4, <1>5, <1>6, <1>7, <1>8

\* The query borrows; what it held is freed after the step.
LEMMA StatementQueryKeeps ==
  ASSUME OwnersParts, NEW s \in Statements, NEW q \in Queries, Owners!StatementQuery(s, q)
  PROVE  OwnersParts'
<1> USE OwnersAssumption
    DEF Owners!ConstantsAssumption, OwnersParts, Owners!TypeOK, Owners!NoStaleVM, Owners!Live,
        Owners!Sound, Owners!queries, Owners!history, LeakedIsLive, Owners!Freed, Owners!Owned,
        Owners!StatementQuery
<1>1. Owners!TypeOK'
  OBVIOUS
<1>2. OwnersApart'
  BY DEF OwnersApart
<1>3. HaveOwner'
  BY DEF HaveOwner, OwnersApart
<1>4. LeakedIsAlone' /\ LeakedIsLive'
  BY DEF LeakedIsAlone, OwnersApart
<1>5. Owners!NoStaleVM'
  BY DEF OwnersApart, BorrowsFromStatement, LeakedIsAlone
<1>6. Owners!NotAtEofHasRow'
  BY DEF Owners!NotAtEofHasRow, OwnersApart, BorrowsFromStatement
<1>7. Owners!HandlesHeld'
  BY DEF Owners!HandlesHeld
<1>8. BorrowsFromStatement'
  BY DEF BorrowsFromStatement, OwnersApart, LeakedIsAlone
<1> QED  BY <1>1, <1>2, <1>3, <1>4, <1>5, <1>6, <1>7, <1>8

\* The VM stays with its statement.
LEMMA ResetKeeps ==
  ASSUME OwnersParts, NEW s \in Statements, Owners!Reset(s)
  PROVE  OwnersParts'
<1> USE OwnersAssumption
    DEF Owners!ConstantsAssumption, OwnersParts, Owners!TypeOK, Owners!NoStaleVM, Owners!Live,
        Owners!Sound, Owners!queries, Owners!history, LeakedIsLive,
        Owners!Reset
<1>1. Owners!TypeOK'
  OBVIOUS
<1>2. OwnersApart'
  BY DEF OwnersApart
<1>3. HaveOwner'
  BY DEF HaveOwner, OwnersApart
<1>4. LeakedIsAlone' /\ LeakedIsLive'
  BY DEF LeakedIsAlone, OwnersApart
<1>5. Owners!NoStaleVM'
  BY DEF OwnersApart, BorrowsFromStatement, LeakedIsAlone
<1>6. Owners!NotAtEofHasRow'
  BY DEF Owners!NotAtEofHasRow, OwnersApart, BorrowsFromStatement
<1>7. Owners!HandlesHeld'
  BY DEF Owners!HandlesHeld
<1>8. BorrowsFromStatement'
  BY DEF BorrowsFromStatement, OwnersApart, LeakedIsAlone
<1> QED  BY <1>1, <1>2, <1>3, <1>4, <1>5, <1>6, <1>7, <1>8

\* The VM is freed; the address is spoiled if a query still borrows it.
LEMMA FinalizeStatementKeeps ==
  ASSUME OwnersParts, NEW s \in Statements, Owners!FinalizeStatement(s)
  PROVE  OwnersParts'
<1> USE OwnersAssumption
    DEF Owners!ConstantsAssumption, OwnersParts, Owners!TypeOK, Owners!NoStaleVM, Owners!Live,
        Owners!Sound, Owners!queries, Owners!history, LeakedIsLive, Owners!Freed, Owners!Frees, Owners!Spoils,
        Owners!FinalizeStatement
<1>1. Owners!TypeOK'
  OBVIOUS
<1>2. OwnersApart'
  BY DEF OwnersApart
<1>3. HaveOwner'
  BY DEF HaveOwner, OwnersApart
<1>4. LeakedIsAlone' /\ LeakedIsLive'
  BY DEF LeakedIsAlone, OwnersApart
<1>5. Owners!NoStaleVM'
  BY DEF OwnersApart, BorrowsFromStatement, LeakedIsAlone
<1>6. Owners!NotAtEofHasRow'
  BY DEF Owners!NotAtEofHasRow, OwnersApart, BorrowsFromStatement
<1>7. Owners!HandlesHeld'
  BY DEF Owners!HandlesHeld
<1>8. BorrowsFromStatement'
  BY DEF BorrowsFromStatement, OwnersApart, LeakedIsAlone
<1> QED  BY <1>1, <1>2, <1>3, <1>4, <1>5, <1>6, <1>7, <1>8

\* The VM moves, what the target held is leaked; who borrows goes on doing so.
LEMMA MoveStatementKeeps ==
  ASSUME OwnersParts, NEW s \in Statements, NEW t \in Statements, Owners!MoveStatement(s, t)
  PROVE  OwnersParts'
<1> USE OwnersAssumption
    DEF Owners!ConstantsAssumption, OwnersParts, Owners!TypeOK, Owners!NoStaleVM, Owners!Live,
        Owners!Sound, Owners!queries, Owners!history, LeakedIsLive,
        Owners!MoveStatement
<1>1. Owners!TypeOK'
  OBVIOUS
<1>2. OwnersApart'
  BY DEF OwnersApart
<1>3. HaveOwner'
  BY DEF HaveOwner, OwnersApart
<1>4. LeakedIsAlone' /\ LeakedIsLive'
  BY DEF LeakedIsAlone, OwnersApart
<1>5. Owners!NoStaleVM'
  BY DEF OwnersApart, BorrowsFromStatement, LeakedIsAlone
<1>6. Owners!NotAtEofHasRow'
  BY DEF Owners!NotAtEofHasRow, OwnersApart, BorrowsFromStatement
<1>7. Owners!HandlesHeld'
  BY DEF Owners!HandlesHeld
<1>8. BorrowsFromStatement'
  BY DEF BorrowsFromStatement, OwnersApart, LeakedIsAlone
<1> QED  BY <1>1, <1>2, <1>3, <1>4, <1>5, <1>6, <1>7, <1>8

\* A program without objects has no VM.
LEMMA OwnersInvInit == Owners!Init => OwnersParts
<1> SUFFICES ASSUME Owners!Init PROVE OwnersParts
  OBVIOUS
<1> USE OwnersAssumption
    DEF Owners!ConstantsAssumption, Owners!Init, Owners!Live, Owners!Sound
<1>1. Owners!TypeOK /\ Owners!NoStaleVM /\ Owners!NotAtEofHasRow
  BY DEF Owners!TypeOK, Owners!NoStaleVM, Owners!NotAtEofHasRow
<1>2. OwnersApart /\ HaveOwner /\ LeakedIsAlone /\ BorrowsFromStatement /\ LeakedIsLive
  BY DEF OwnersApart, HaveOwner, LeakedIsAlone, BorrowsFromStatement, LeakedIsLive
<1>3. Owners!HandlesHeld
  BY DEF Owners!HandlesHeld
<1> QED  BY <1>1, <1>2, <1>3 DEF OwnersParts

\* Every step of the wrapper keeps the invariant.
LEMMA OwnersInvNext == OwnersParts /\ [Owners!Next]_(Owners!vars) => OwnersParts'
<1> SUFFICES ASSUME OwnersParts, [Owners!Next]_(Owners!vars) PROVE OwnersParts'
  OBVIOUS
<1>1. CASE UNCHANGED Owners!vars
  BY <1>1 DEF Owners!vars, Owners!queries, Owners!history, OwnersParts, Owners!TypeOK,
              OwnersApart, HaveOwner, LeakedIsAlone, LeakedIsLive, Owners!Live, Owners!Sound,
              Owners!NoStaleVM, Owners!NotAtEofHasRow, Owners!HandlesHeld,
              BorrowsFromStatement
<1>2. ASSUME NEW d \in Databases,
             \/ Owners!Open(d) \/ Owners!Close(d)
             \/ \E q \in Queries : Owners!ExecQuery(d, q)
             \/ \E s \in Statements : Owners!CompileStatement(d, s)
      PROVE  OwnersParts'
  BY <1>2, OpenKeeps, CloseKeeps, ExecQueryKeeps, CompileStatementKeeps
<1>3. ASSUME NEW q \in Queries,
             \/ Owners!NextRow(q) \/ Owners!FinalizeQuery(q) \/ Owners!DestroyQuery(q)
             \/ \E r \in Queries : Owners!MoveQuery(q, r)
      PROVE  OwnersParts'
  BY <1>3, NextRowKeeps, FinalizeQueryKeeps, DestroyQueryKeeps, MoveQueryKeeps
<1>4. ASSUME NEW s \in Statements,
             \/ Owners!Reset(s) \/ Owners!FinalizeStatement(s)
             \/ \E q \in Queries : Owners!StatementQuery(s, q)
             \/ \E t \in Statements : Owners!MoveStatement(s, t)
      PROVE  OwnersParts'
  BY <1>4, ResetKeeps, FinalizeStatementKeeps, StatementQueryKeeps, MoveStatementKeeps
<1> QED  BY <1>1, <1>2, <1>3, <1>4 DEF Owners!Next

-----------------------------------------------------------------------------
(* Bytes and escapes.                                                      *)

\* Differences of bytes, as the processor takes them.
LEMMA ByteDifference ==
  ASSUME NEW a \in Byte, NEW b \in Byte
  PROVE  /\ (a - b) % W = IF a >= b THEN a - b ELSE a - b + W
         /\ (a - b) % W \in Byte
<1> USE BytesAssumption DEF Byte
<1>1. CASE a >= b
  <2>1. a - b \in 0..(W - 1)
    BY <1>1
  <2> HIDE DEF Byte
  <2>2. ASSUME NEW c \in 0..(W - 1) PROVE c % W = c
    BY BytesAssumption
  <2>3. (a - b) % W = a - b
    BY ONLY <2>1, <2>2
  <2> QED BY ONLY <1>1, <2>1, <2>3 DEF Byte
<1>2. CASE a < b
  <2>1. a - b \in (-W)..(-1) /\ a - b + W \in 0..(W - 1)
    BY <1>2
  <2>2. ASSUME NEW c \in (-W)..(-1) PROVE c % W = c + W
    BY ONLY BytesAssumption, c \in (-W)..(-1)
  <2>3. (a - b) % W = a - b + W
    BY ONLY <2>1, <2>2
  <2>4. ~(a >= b)
    BY <1>2
  <2> QED BY ONLY <2>1, <2>3, <2>4 DEF Byte
<1> QED BY <1>1, <1>2

\* Their sums.
LEMMA ByteSum ==
  ASSUME NEW a \in Byte, NEW b \in Byte
  PROVE  /\ (a + b) % W = IF a + b < W THEN a + b ELSE a + b - W
         /\ (a + b) % W \in Byte
<1> USE BytesAssumption DEF Byte
<1>1. CASE a + b < W
  <2>1. a + b \in 0..(W - 1)
    BY <1>1
  <2>2. ASSUME NEW c \in 0..(W - 1) PROVE c % W = c
    BY ONLY BytesAssumption, c \in 0..(W - 1)
  <2>3. (a + b) % W = a + b
    BY ONLY <2>1, <2>2
  <2> QED BY ONLY <1>1, <2>1, <2>3 DEF Byte
<1>2. CASE a + b >= W
  <2> DEFINE s == a + b - W
  <2>1. s \in 0..(W - 1) /\ a + b = s + W
    BY <1>2
  <2> HIDE DEF s
  <2>2. (s + W) % W = s
    BY ONLY <2>1, BytesAssumption
  <2>3. ~(a + b < W)
    BY <1>2
  <2> QED BY <2>1, <2>2, <2>3
<1> QED BY <1>1, <1>2

\* Adding the offset undoes taking it away.
LEMMA OffsetUndone ==
  ASSUME NEW a \in Byte, NEW e \in Byte
  PROVE  (((a - e) % W) + e) % W = a
<1> DEFINE c == (a - e) % W
<1>1. c \in Byte /\ c = IF a >= e THEN a - e ELSE a - e + W
  BY ByteDifference
<1> HIDE DEF c
<1>2. (c + e) % W = IF c + e < W THEN c + e ELSE c + e - W
  BY <1>1, ByteSum
<1>3. (c + e) % W = a
  BY <1>1, <1>2, BytesAssumption DEF Byte
<1> QED BY <1>3 DEF c

\* A byte becomes the same by one offset only.
LEMMA OffsetUnique ==
  ASSUME NEW a \in Byte, NEW e \in Byte, NEW f \in Byte, (a - e) % W = (a - f) % W
  PROVE  e = f
<1> DEFINE c == (a - e) % W
<1>1. /\ c = IF a >= e THEN a - e ELSE a - e + W
      /\ c = IF a >= f THEN a - f ELSE a - f + W
  BY ByteDifference
<1> HIDE DEF c
<1> QED BY <1>1, BytesAssumption DEF Byte

\* What is escaped, as two bytes of which neither is 0 or a quote; the rest stays.
LEMMA EscapedIs ==
  ASSUME NEW c \in Byte
  PROVE  /\ Escaped(c) \in Seq(Byte)
         /\ c \in {0, 1, Quote} => \E k \in {1, 2, 3} :
              Escaped(c) = <<1, k>> /\ <<0, 1, Quote>>[k] = c
         /\ c \notin {0, 1, Quote} => Escaped(c) = <<c>>
         /\ Len(Escaped(c)) = IF c \in {0, 1, Quote} THEN 2 ELSE 1
         /\ \A i \in 1..Len(Escaped(c)) : Escaped(c)[i] \notin {0, Quote}
<1> USE BytesAssumption DEF Byte, Escaped
<1>1. CASE c = 0
  <2>1. Escaped(c) = <<1, 1>> /\ <<0, 1, Quote>>[1] = c /\ c # 1 /\ c # Quote
    BY <1>1
  <2> DEFINE t == <<1, 1>>
  <2>2. t \in Seq(Byte) /\ Len(t) = 2 /\ \A i \in 1..2 : t[i] \notin {0, Quote}
    OBVIOUS
  <2>3. Escaped(c) = t
    BY <2>1
  <2>4. c \in {0, 1, Quote}
    BY <1>1
  <2> QED BY <2>1, <2>2, <2>3, <2>4
<1>2. CASE c = 1
  <2>1. Escaped(c) = <<1, 2>> /\ <<0, 1, Quote>>[2] = c /\ c # 0 /\ c # Quote
    BY <1>2
  <2> DEFINE t == <<1, 2>>
  <2>2. t \in Seq(Byte) /\ Len(t) = 2 /\ \A i \in 1..2 : t[i] \notin {0, Quote}
    OBVIOUS
  <2>3. Escaped(c) = t
    BY <2>1
  <2>4. c \in {0, 1, Quote}
    BY <1>2
  <2> QED BY <2>1, <2>2, <2>3, <2>4
<1>3. CASE c = Quote
  <2>1. Escaped(c) = <<1, 3>> /\ <<0, 1, Quote>>[3] = c /\ c # 0 /\ c # 1
    BY <1>3
  <2> DEFINE t == <<1, 3>>
  <2>2. t \in Seq(Byte) /\ Len(t) = 2 /\ \A i \in 1..2 : t[i] \notin {0, Quote}
    OBVIOUS
  <2>3. Escaped(c) = t
    BY <2>1
  <2>4. c \in {0, 1, Quote}
    BY <1>3
  <2> QED BY <2>1, <2>2, <2>3, <2>4
<1>4. CASE c \notin {0, 1, Quote}
  BY <1>4
<1> QED BY <1>1, <1>2, <1>3, <1>4
-----------------------------------------------------------------------------
(* The two loops, unfolded.                                                *)

\* The encoder's loop, which has written text[i] after i bytes of d.
TextOf(d, e, text) ==
  /\ text \in [0..Len(d) -> Seq(Byte)]
  /\ text[0] = <<e>>
  /\ \A i \in 1..Len(d) : text[i] = text[i - 1] \o Escaped((d[i] - e) % W)

LEMMA TextExists ==
  ASSUME NEW d \in Seq(Byte), NEW e \in Byte
  PROVE  \E text : TextOf(d, e, text) /\ EncodedWith(d, e) = text[Len(d)]
<1> DEFINE n == Len(d)
           X == Seq(Byte)
           x0 == <<e>>
           next(i, x) == x \o Escaped((d[i] - e) % W)
           step == [i \in Nat |-> [x \in X |-> IF i \in 1..n THEN next(i, x) ELSE x]]
           F(text) == [i \in 0..n |-> IF i = 0 THEN <<e>> ELSE next(i, text[i - 1])]
           text == CHOOSE g : g = F(g)
<1>1. n \in Nat /\ x0 \in X
  OBVIOUS
<1>2. ASSUME NEW i \in 1..n, NEW x \in X PROVE next(i, x) \in X
  <2>1. d[i] \in Byte
    OBVIOUS
  <2>2. (d[i] - e) % W \in Byte
    BY <2>1, ByteDifference
  <2>3. Escaped((d[i] - e) % W) \in Seq(Byte)
    BY ONLY <2>2, EscapedIs
  <2> QED BY <2>3
<1> HIDE DEF n, X, next
<1>4. step \in [Nat -> [X -> X]] /\ \A i \in 1..n, x \in X : step[i][x] = next(i, x)
  BY <1>1, <1>2
<1> HIDE DEF step
<1>5. PICK f : Recurs(f, X, x0, step, n)
  <2>1. x0 \in X /\ n \in Nat /\ step \in [Nat -> [X -> X]]
    BY <1>1, <1>4
  <2> HIDE DEF x0
  <2>2. \E f : Recurs(f, X, x0, step, n)
    BY ONLY <2>1, RecursionExists
  <2> QED BY <2>2 DEF x0
<1>6. ASSUME NEW i \in 1..n PROVE f[i] = next(i, f[i - 1])
  <2>1. i - 1 \in 0..n
    BY <1>1
  <2>2. f[i - 1] \in X /\ f[i] = step[i][f[i - 1]]
    BY <2>1, <1>5 DEF Recurs
  <2> DEFINE y == f[i - 1]
  <2> HIDE DEF y
  <2>3. step[i][y] = next(i, y)
    BY <2>2, <1>4 DEF y
  <2> QED BY <2>2, <2>3 DEF y
<1>7. f = F(f)
  <2>1. ASSUME NEW i \in 0..n PROVE f[i] = IF i = 0 THEN <<e>> ELSE next(i, f[i - 1])
    BY <1>1, <1>5, <1>6 DEF Recurs
  <2>2. f \in [0..n -> X]
    BY <1>5 DEF Recurs
  <2> QED BY <2>1, <2>2
<1>8. text = F(text)
  BY <1>7
<1>9. EncodedWith(d, e) = text[n]
  BY DEF EncodedWith, n, next
<1> HIDE DEF text
<1>10. /\ text[0] = x0
       /\ \A i \in 1..n : text[i] = next(i, text[i - 1])
  BY <1>1, <1>8
<1>11. text \in [0..n -> X]
  <2>1. \A i \in 0..n : text[i] \in X
    <3>1. text[0] \in X /\ \A i \in 1..n : text[i - 1] \in X => text[i] \in X
      BY <1>1, <1>2, <1>10
    <3> QED BY ONLY <1>1, <3>1, RecursionType
  <2>2. text = [i \in 0..n |-> IF i = 0 THEN <<e>> ELSE next(i, text[i - 1])]
    BY <1>8
  <2>3. text = [i \in 0..n |-> text[i]]
    BY ONLY <2>2
  <2> QED BY <2>1, <2>3
<1> QED BY <1>9, <1>10, <1>11 DEF TextOf, n, X, next

\* Where a walk may be.
WalkState == [at : {"text", "escape", "end", "bad"}, out : Seq(Byte)]

\* What a step of the decoder does where the text goes on.
LEMMA DecodeStepIs ==
  ASSUME NEW st \in WalkState, NEW c \in Byte, NEW e \in Byte
  PROVE  /\ DecodeStep(st, c, e) \in WalkState
         /\ Len(DecodeStep(st, c, e).out) <= Len(st.out) + 1
         /\ DecodeStep(st, 0, e).at \in {"end", "bad"}
         /\ DecodeStep(st, 0, e).out = st.out
<1> USE BytesAssumption DEF WalkState, DecodeStep
<1>1. 0 \in Byte /\ 1 \in Byte /\ Quote \in Byte
  BY DEF Byte
<1>2. ASSUME NEW b \in Byte PROVE Append(st.out, (b + e) % W) \in Seq(Byte)
                                  /\ Len(Append(st.out, (b + e) % W)) = Len(st.out) + 1
  <2>1. (b + e) % W \in Byte
    BY ByteSum
  <2> QED BY <2>1
<1>3. Len(st.out) \in Nat
  OBVIOUS
<1>4. CASE st.at \in {"end", "bad"}
  BY <1>3, <1>4
<1>5. CASE st.at = "text" /\ c = 0
  BY <1>3, <1>5
<1>6. CASE st.at = "text" /\ c = 1
  BY <1>3, <1>6
<1>7. CASE st.at = "text" /\ c \notin {0, 1}
  <2>1. DecodeStep(st, c, e) = [st EXCEPT !.out = Append(@, (c + e) % W)]
    BY <1>7
  <2>2. DecodeStep(st, 0, e) = [st EXCEPT !.at = "end"]
    BY <1>7
  <2> DEFINE out == Append(st.out, (c + e) % W)
  <2>3. out \in Seq(Byte) /\ Len(out) = Len(st.out) + 1
    BY <1>2
  <2>4. DecodeStep(st, c, e) = [at |-> "text", out |-> out]
    BY <2>1, <1>7
  <2>5. /\ DecodeStep(st, 0, e).at = "end"
        /\ DecodeStep(st, 0, e).out = st.out
    BY <2>2
  <2> HIDE DEF out
  <2> QED BY <1>3, <2>3, <2>4, <2>5
<1>8. CASE st.at = "escape" /\ c \in {1, 2, 3}
  <2>1. <<0, 1, Quote>>[c] \in Byte
    BY <1>1, <1>8
  <2>2. DecodeStep(st, c, e) = [at |-> "text", out |-> Append(st.out, (<<0, 1, Quote>>[c] + e) % W)]
    BY <1>8
  <2>3. DecodeStep(st, 0, e) = [st EXCEPT !.at = "bad"]
    BY <1>8
  <2> DEFINE b == <<0, 1, Quote>>[c]
  <2> HIDE DEF b
  <2> QED BY <1>2, <1>3, <2>1, <2>2, <2>3, SMTT(40) DEF b
<1>9. CASE st.at = "escape" /\ c \notin {1, 2, 3}
  BY <1>3, <1>9
<1> QED BY <1>4, <1>5, <1>6, <1>7, <1>8, <1>9

\* The decoder's loop, which is in st[i] after i bytes behind the offset.
WalkOf(t, st) ==
  /\ st \in [0..(Len(t) - 1) -> WalkState]
  /\ st[0] = [at |-> "text", out |-> <<>>]
  /\ \A i \in 1..(Len(t) - 1) : st[i] = DecodeStep(st[i - 1], t[i + 1], t[1])

LEMMA WalkExists ==
  ASSUME NEW t \in Seq(Byte), t # <<>>
  PROVE  \E st : WalkOf(t, st) /\ Walk(t) = st[Len(t) - 1]
<1> DEFINE n == Len(t) - 1
           X == WalkState
           x0 == [at |-> "text", out |-> <<>>]
           next(i, x) == DecodeStep(x, t[i + 1], t[1])
           step == [i \in Nat |-> [x \in X |-> IF i \in 1..n THEN next(i, x) ELSE x]]
           F(st) == [i \in 0..n |-> IF i = 0 THEN [at |-> "text", out |-> <<>>] ELSE next(i, st[i - 1])]
           st == CHOOSE g : g = F(g)
<1>1. n \in Nat /\ x0 \in X
  BY DEF WalkState
<1>2. ASSUME NEW i \in 1..n, NEW x \in X PROVE next(i, x) \in X
  <2>1. t[i + 1] \in Byte /\ t[1] \in Byte
    OBVIOUS
  <2>2. x \in WalkState
    OBVIOUS
  <2> QED BY ONLY <2>1, <2>2, DecodeStepIs
<1> HIDE DEF n, X, next
<1>4. step \in [Nat -> [X -> X]] /\ \A i \in 1..n, x \in X : step[i][x] = next(i, x)
  BY <1>1, <1>2
<1> HIDE DEF step
<1>5. PICK f : Recurs(f, X, x0, step, n)
  <2>1. x0 \in X /\ n \in Nat /\ step \in [Nat -> [X -> X]]
    BY <1>1, <1>4
  <2> HIDE DEF x0
  <2>2. \E f : Recurs(f, X, x0, step, n)
    BY ONLY <2>1, RecursionExists
  <2> QED BY <2>2 DEF x0
<1>6. ASSUME NEW i \in 1..n PROVE f[i] = next(i, f[i - 1])
  <2>1. i - 1 \in 0..n
    BY <1>1
  <2>2. f[i - 1] \in X /\ f[i] = step[i][f[i - 1]]
    BY <2>1, <1>5 DEF Recurs
  <2> DEFINE y == f[i - 1]
  <2> HIDE DEF y
  <2>3. step[i][y] = next(i, y)
    BY <2>2, <1>4 DEF y
  <2> QED BY <2>2, <2>3 DEF y
<1>7. f = F(f)
  <2>1. ASSUME NEW i \in 0..n PROVE f[i] = IF i = 0 THEN [at |-> "text", out |-> <<>>] ELSE next(i, f[i - 1])
    BY <1>1, <1>5, <1>6 DEF Recurs
  <2>2. f \in [0..n -> X]
    BY <1>5 DEF Recurs
  <2> QED BY <2>1, <2>2
<1>8. st = F(st)
  BY <1>7
<1>9. Walk(t) = st[n]
  BY DEF Walk, n, next
<1> HIDE DEF st
<1>10. /\ st[0] = x0
       /\ \A i \in 1..n : st[i] = next(i, st[i - 1])
  BY <1>1, <1>8
<1>11. st \in [0..n -> X]
  <2>1. \A i \in 0..n : st[i] \in X
    <3>1. st[0] \in X /\ \A i \in 1..n : st[i - 1] \in X => st[i] \in X
      BY <1>1, <1>2, <1>10
    <3> QED BY ONLY <1>1, <3>1, RecursionType
  <2>2. st = [i \in 0..n |-> IF i = 0 THEN [at |-> "text", out |-> <<>>] ELSE next(i, st[i - 1])]
    BY <1>8
  <2>3. st = [i \in 0..n |-> st[i]]
    BY ONLY <2>2
  <2> QED BY <2>1, <2>3
<1> QED BY <1>9, <1>10, <1>11 DEF WalkOf, n, X, next
-----------------------------------------------------------------------------
(* The text of a blob.                                                     *)

\* The first i bytes that the offset e makes 0, 1 or a quote.
EscapedUpTo(d, e, i) == {k \in 1..i : (d[k] - e) % W \in {0, 1, Quote}}

\* What the encoder has written after i bytes: the offset, a byte each, one more for each
\* escape, and nothing that may not stand between quotes.
WrittenUpTo(d, e, i, t) ==
  /\ IsFiniteSet(EscapedUpTo(d, e, i))
  /\ Len(t) = 1 + i + Cardinality(EscapedUpTo(d, e, i))
  /\ t[1] = e
  /\ e \in Offsets => \A j \in 1..Len(t) : t[j] \notin {0, Quote}

LEMMA WrittenNext ==
  ASSUME NEW d \in Seq(Byte), NEW e \in Byte, NEW text, TextOf(d, e, text),
         NEW i \in 0..(Len(d) - 1), WrittenUpTo(d, e, i, text[i])
  PROVE  WrittenUpTo(d, e, i + 1, text[i + 1])
<1> DEFINE c == (d[i + 1] - e) % W
           A == EscapedUpTo(d, e, i)
           B == EscapedUpTo(d, e, i + 1)
           s == text[i]
           u == Escaped(c)
           t == text[i + 1]
<1>1. i \in Nat /\ i + 1 \in 1..Len(d) /\ i \in 0..Len(d)
  OBVIOUS
<1>2. c \in Byte
  BY <1>1, ByteDifference
<1>3. t = s \o u /\ s \in Seq(Byte)
  <2>1. (i + 1) - 1 = i
    BY <1>1
  <2> QED BY <1>1, <2>1 DEF TextOf
<1>4. /\ IsFiniteSet(A) /\ Cardinality(A) \in Nat
      /\ Len(s) = 1 + i + Cardinality(A)
      /\ s[1] = e
      /\ e \in Offsets => \A j \in 1..Len(s) : s[j] \notin {0, Quote}
  BY FS_CardinalityType DEF WrittenUpTo
<1>5. B = IF c \in {0, 1, Quote} THEN A \cup {i + 1} ELSE A
  BY <1>1 DEF EscapedUpTo
<1>6. i + 1 \notin A
  BY <1>1 DEF EscapedUpTo
<1> HIDE DEF A, B, c, s, t
<1>7. /\ u \in Seq(Byte)
      /\ Len(u) = IF c \in {0, 1, Quote} THEN 2 ELSE 1
      /\ \A j \in 1..Len(u) : u[j] \notin {0, Quote}
  BY <1>2, EscapedIs
<1> HIDE DEF u
<1>8. /\ Len(t) = Len(s) + Len(u)
      /\ \A j \in 1..(Len(s) + Len(u)) : t[j] = IF j <= Len(s) THEN s[j] ELSE u[j - Len(s)]
  BY ONLY <1>3, <1>7, ConcatProperties, SMTT(40)
<1>9. IsFiniteSet(B) /\ Cardinality(B) = Cardinality(A) + (IF c \in {0, 1, Quote} THEN 1 ELSE 0)
  <2>1. CASE c \in {0, 1, Quote}
    <3>1. B = A \cup {i + 1}
      BY <1>5, <2>1
    <3>2. IsFiniteSet(B) /\ Cardinality(B) = Cardinality(A) + 1
      BY ONLY <1>4, <1>6, <3>1, FS_AddElement
    <3> QED BY <2>1, <3>2
  <2>2. CASE c \notin {0, 1, Quote}
    BY <1>4, <1>5, <2>2
  <2> QED BY <2>1, <2>2
<1>10. Len(t) = 1 + (i + 1) + Cardinality(B)
  BY <1>1, <1>4, <1>7, <1>8, <1>9, SMTT(40)
<1>11. t[1] = e
  BY <1>1, <1>4, <1>7, <1>8, SMTT(40)
<1>12. ASSUME e \in Offsets, NEW j \in 1..Len(t) PROVE t[j] \notin {0, Quote}
  <2>0. Len(s) \in Nat /\ Len(u) \in Nat
    BY <1>3, <1>7
  <2>1. CASE j <= Len(s)
    BY <1>4, <1>8, <1>12, <2>0, <2>1
  <2>2. CASE j > Len(s)
    <3>1. j - Len(s) \in 1..Len(u) /\ ~(j <= Len(s))
      BY <1>8, <2>0, <2>2
    <3>2. t[j] = u[j - Len(s)]
      BY <1>8, <2>0, <3>1
    <3> QED BY <1>7, <3>1, <3>2
  <2> QED BY <2>0, <2>1, <2>2
<1>13. WrittenUpTo(d, e, i + 1, t)
  BY <1>9, <1>10, <1>11, <1>12 DEF WrittenUpTo, B
<1> QED BY <1>13 DEF t

\* The text is as long as the blob, its offset and its escapes.
LEMMA EncodedIs ==
  ASSUME NEW d \in Seq(Byte), NEW e \in Byte
  PROVE  /\ EncodedWith(d, e) \in Seq(Byte)
         /\ EncodedWith(d, e) # <<>>
         /\ EncodedWith(d, e)[1] = e
         /\ Escapes(d, e) \in Nat
         /\ Len(EncodedWith(d, e)) = 1 + Len(d) + Escapes(d, e)
         /\ e \in Offsets => \A j \in 1..Len(EncodedWith(d, e)) : EncodedWith(d, e)[j] \notin {0, Quote}
<1>1. PICK text : TextOf(d, e, text) /\ EncodedWith(d, e) = text[Len(d)]
  BY TextExists
<1> DEFINE n == Len(d)
           S == {i \in 0..n : WrittenUpTo(d, e, i, text[i])}
<1>2. n \in Nat
  OBVIOUS
<1>3. 0 \in S
  <2>1. EscapedUpTo(d, e, 0) = {}
    BY DEF EscapedUpTo
  <2>2. IsFiniteSet(EscapedUpTo(d, e, 0)) /\ Cardinality(EscapedUpTo(d, e, 0)) = 0
    BY <2>1, FS_EmptySet
  <2>3. text[0] = <<e>>
    BY <1>1 DEF TextOf
  <2>4. e \in Offsets => e \notin {0, Quote}
    BY DEF Offsets
  <2> DEFINE t == text[0]
  <2>5. Len(t) = 1 /\ t[1] = e
    BY <2>3
  <2>6. e \in Offsets => \A j \in 1..Len(t) : t[j] \notin {0, Quote}
    BY <2>4, <2>5
  <2> HIDE DEF t
  <2>7. WrittenUpTo(d, e, 0, t)
    BY <2>2, <2>5, <2>6 DEF WrittenUpTo
  <2> QED BY <1>2, <2>7 DEF t
<1>4. ASSUME NEW i \in 0..(n - 1), i \in S PROVE i + 1 \in S
  BY <1>1, <1>4, WrittenNext
<1> HIDE DEF S
<1>5. \A i \in 0..n : i \in S
  BY ONLY <1>2, <1>3, <1>4, UpTo
<1>6. WrittenUpTo(d, e, n, text[n])
  BY <1>2, <1>5 DEF S
<1>7. Escapes(d, e) = Cardinality(EscapedUpTo(d, e, n))
  BY DEF Escapes, EscapedUpTo
<1>8. Escapes(d, e) \in Nat
  BY <1>6, <1>7, FS_CardinalityType DEF WrittenUpTo
<1>9. text[n] \in Seq(Byte)
  BY <1>1, <1>2 DEF TextOf
<1>10. Len(text[n]) = 1 + n + Escapes(d, e)
  BY <1>6, <1>7 DEF WrittenUpTo
<1>11. text[n] # <<>>
  BY <1>2, <1>8, <1>9, <1>10
<1> QED BY <1>1, <1>6, <1>8, <1>9, <1>10, <1>11 DEF WrittenUpTo

\* Among the W - 2 offsets each byte is escaped by three at most, so that one of them
\* escapes three bytes in W - 2 or fewer.
LEMMA FewestEscapes ==
  ASSUME NEW d \in Seq(Byte), NEW m \in Nat,
         \A e \in Offsets : m <= Escapes(d, e)
  PROVE  (W - 2) * m <= 3 * Len(d)
<1> DEFINE n == Len(d)
           Of(e) == {i \in 1..n : (d[i] - e) % W \in {0, 1, Quote}}
           P == {p \in (1..n) \X Offsets : (d[p[1]] - p[2]) % W \in {0, 1, Quote}}
           T == (1..n) \X {0, 1, Quote}
           E == Offsets \X (1..m)
<1>0. n \in Nat /\ Offsets \subseteq Byte
  BY DEF Offsets, Byte
<1>1. IsFiniteSet(T) /\ Cardinality(T) = n * 3
  <2>1. IsFiniteSet({0, 1, Quote}) /\ Cardinality({0, 1, Quote}) = 3
    <3> DEFINE A == {0}
               B == A \cup {1}
    <3>0. IsFiniteSet({0}) /\ Cardinality({0}) = 1
      BY FS_Singleton
    <3>1. IsFiniteSet(A) /\ Cardinality(A) = 1 /\ 1 \notin A
      BY <3>0
    <3>2. Quote \notin B
      BY BytesAssumption
    <3> HIDE DEF A
    <3>3. IsFiniteSet(B) /\ Cardinality(B) = 2
      BY ONLY <3>1, FS_AddElement
    <3> HIDE DEF B
    <3>4. IsFiniteSet(B \cup {Quote}) /\ Cardinality(B \cup {Quote}) = 3
      BY ONLY <3>2, <3>3, FS_AddElement, SMTT(40)
    <3>5. B \cup {Quote} = {0, 1, Quote}
      BY DEF A, B
    <3> QED BY <3>4, <3>5
  <2>2. IsFiniteSet(1..n) /\ Cardinality(1..n) = n
    BY <1>0, IntervalSize
  <2> DEFINE U == 1..n
             V == {0, 1, Quote}
  <2> HIDE DEF U, V
  <2>3. IsFiniteSet(U \X V) /\ Cardinality(U \X V) = n * 3
    <3>1. IsFiniteSet(U) /\ IsFiniteSet(V) /\ Cardinality(U) = n /\ Cardinality(V) = 3
      BY ONLY <2>1, <2>2 DEF U, V
    <3>2. IsFiniteSet(U \X V) /\ Cardinality(U \X V) = Cardinality(U) * Cardinality(V)
      BY ONLY <3>1, FS_Product
    <3> QED BY ONLY <3>1, <3>2
  <2> QED BY ONLY <2>3 DEF U, V
<1>2. IsFiniteSet(Offsets) /\ Cardinality(Offsets) = W - 2
  <2>1. IsFiniteSet(1..(W - 1)) /\ Cardinality(1..(W - 1)) = W - 1
    BY BytesAssumption, FS_Interval
  <2>2. Quote \in 1..(W - 1)
    BY BytesAssumption
  <2>3. /\ IsFiniteSet(1..(W - 1) \ {Quote})
        /\ Cardinality(1..(W - 1) \ {Quote}) = Cardinality(1..(W - 1)) - 1
    BY <2>1, <2>2, FS_RemoveElement
  <2> QED BY <2>1, <2>3, BytesAssumption DEF Offsets
<1>3. IsFiniteSet(E) /\ Cardinality(E) = (W - 2) * m
  <2>1. IsFiniteSet(1..m) /\ Cardinality(1..m) = m
    BY FS_Interval
  <2> QED BY <2>1, <1>2, FS_Product
<1>4. IsFiniteSet(P) /\ Cardinality(P) <= Cardinality(T)
  <2> DEFINE f == [p \in P |-> <<p[1], (d[p[1]] - p[2]) % W>>]
  <2>1. f \in [P -> T]
    OBVIOUS
  <2>2. ASSUME NEW p \in P, NEW q \in P, f[p] = f[q] PROVE p = q
    <3>1. p = <<p[1], p[2]>> /\ q = <<q[1], q[2]>>
      OBVIOUS
    <3>2. p[1] = q[1] /\ (d[p[1]] - p[2]) % W = (d[q[1]] - q[2]) % W
      BY <2>2
    <3>3. p[1] \in 1..n /\ p[2] \in Offsets /\ q[2] \in Offsets
      OBVIOUS
    <3>4. d[p[1]] \in Byte /\ p[2] \in Byte /\ q[2] \in Byte
      BY <1>0, <3>3
    <3>5. (d[p[1]] - p[2]) % W = (d[p[1]] - q[2]) % W
      BY <3>2
    <3>6. p[2] = q[2]
      BY ONLY <3>4, <3>5, OffsetUnique
    <3> QED BY <3>1, <3>2, <3>6
  <2> HIDE DEF f, P, T
  <2>3. f \in Injection(P, T)
    BY <2>1, <2>2 DEF Injection, IsInjective
  <2> QED BY <1>1, <2>3, FS_Injection
<1>5. \A e \in Offsets : \E g \in [1..m -> Of(e)] : \A j, k \in 1..m : g[j] = g[k] => j = k
  <2> SUFFICES ASSUME NEW e \in Offsets
               PROVE  \E g \in [1..m -> Of(e)] : \A j, k \in 1..m : g[j] = g[k] => j = k
    OBVIOUS
  <2> DEFINE A == Of(e)
             c == Cardinality(A)
  <2>1. IsFiniteSet(A)
    <3>1. IsFiniteSet(1..n) /\ A \in SUBSET (1..n)
      BY <1>0, FS_Interval
    <3> HIDE DEF A
    <3> QED BY <3>1, FS_Subset
  <2>2. c = Escapes(d, e)
    BY DEF Escapes
  <2> HIDE DEF A
  <2>3. c \in Nat /\ ExistsBijection(1..c, A)
    BY <2>1, FS_CardinalityType
  <2>4. PICK b \in Bijection(1..c, A) : TRUE
    BY <2>3 DEF ExistsBijection
  <2>5. b \in [1..c -> A] /\ \A j, k \in 1..c : b[j] = b[k] => j = k
    BY <2>4 DEF Bijection, Injection, IsInjective
  <2>6. m <= c
    BY <2>2
  <2> HIDE DEF c
  <2> DEFINE g == [j \in 1..m |-> b[j]]
  <2>7. 1..m \subseteq 1..c
    BY <2>3, <2>6
  <2>8. g \in [1..m -> A] /\ \A j, k \in 1..m : g[j] = g[k] => j = k
    BY <2>5, <2>7
  <2> HIDE DEF g
  <2> QED BY <2>8 DEF A
<1>6. Cardinality(E) <= Cardinality(P)
  <2> DEFINE G == [e \in Offsets |-> CHOOSE g \in [1..m -> Of(e)] : \A j, k \in 1..m : g[j] = g[k] => j = k]
             f == [p \in E |-> <<G[p[1]][p[2]], p[1]>>]
  <2>1. \A e \in Offsets : /\ G[e] \in [1..m -> Of(e)]
                           /\ \A j, k \in 1..m : G[e][j] = G[e][k] => j = k
    BY <1>5
  <2> HIDE DEF G
  <2>2. f \in [E -> P]
    <3> SUFFICES ASSUME NEW p \in E PROVE <<G[p[1]][p[2]], p[1]>> \in P
      OBVIOUS
    <3>1. p[1] \in Offsets /\ p[2] \in 1..m
      OBVIOUS
    <3> HIDE DEF Of
    <3>2. G[p[1]] \in [1..m -> Of(p[1])]
      BY <2>1, <3>1
    <3>3. G[p[1]][p[2]] \in Of(p[1])
      BY <3>1, <3>2
    <3> QED BY <3>1, <3>3 DEF Of
  <2>3. ASSUME NEW p \in E, NEW q \in E, f[p] = f[q] PROVE p = q
    <3>1. p = <<p[1], p[2]>> /\ q = <<q[1], q[2]>> /\ p[1] \in Offsets /\ p[2] \in 1..m /\ q[2] \in 1..m
      OBVIOUS
    <3>2. p[1] = q[1] /\ G[p[1]][p[2]] = G[q[1]][q[2]]
      BY <2>3
    <3>3. p[2] = q[2]
      BY <2>1, <3>1, <3>2
    <3> QED BY <3>1, <3>2, <3>3
  <2> HIDE DEF f, E, P
  <2>4. f \in Injection(E, P)
    BY <2>2, <2>3 DEF Injection, IsInjective
  <2> QED BY <1>4, <2>4, FS_Injection
<1> HIDE DEF E, P, T
<1>7. Cardinality(P) \in Nat
  BY <1>4, FS_CardinalityType
<1>8. Cardinality(E) \in Nat /\ Cardinality(T) \in Nat
  BY <1>1, <1>3, FS_CardinalityType
<1>9. Cardinality(E) <= Cardinality(T)
  BY <1>4, <1>6, <1>7, <1>8
<1> QED BY <1>0, <1>1, <1>3, <1>9

\* The loop over the offsets finds one, the first of those that escape the fewest bytes.
LEMMA OffsetExists ==
  ASSUME NEW d \in Seq(Byte)
  PROVE  Offset(d) \in Offsets /\ \A e \in Offsets : Escapes(d, Offset(d)) <= Escapes(d, e)
<1>0. Offsets \subseteq Byte /\ Offsets \subseteq Nat /\ 1 \in Offsets
  BY BytesAssumption DEF Offsets, Byte
<1>1. \A e \in Offsets : Escapes(d, e) \in Nat
  BY <1>0, EncodedIs
<1> DEFINE Ns == {Escapes(d, e) : e \in Offsets}
<1>2. PICK a \in Offsets : \A e \in Offsets : Escapes(d, a) <= Escapes(d, e)
  <2>1. Ns \in SUBSET Nat /\ Ns # {}
    BY <1>0, <1>1
  <2>2. PICK k \in Ns : \A l \in Ns : k <= l
    <3> HIDE DEF Ns
    <3> QED BY ONLY <2>1, Least
  <2>3. PICK a \in Offsets : k = Escapes(d, a)
    OBVIOUS
  <2>4. \A e \in Offsets : Escapes(d, a) <= Escapes(d, e)
    BY <2>2, <2>3
  <2> QED BY <2>4
<1> DEFINE Es == {e \in Offsets : Escapes(d, e) = Escapes(d, a)}
<1>3. PICK b \in Es : \A e \in Es : b <= e
  <2>1. Es \in SUBSET Nat /\ Es # {}
    BY <1>0
  <2> HIDE DEF Es
  <2> QED BY ONLY <2>1, Least
<1>4. \A f \in Offsets : Escapes(d, b) < Escapes(d, f) \/ (Escapes(d, b) = Escapes(d, f) /\ b <= f)
  BY <1>1, <1>2, <1>3
<1>5. b \in Offsets
  OBVIOUS
<1> DEFINE o == Offset(d)
<1>6. /\ o \in Offsets
      /\ \A f \in Offsets : Escapes(d, o) < Escapes(d, f) \/ (Escapes(d, o) = Escapes(d, f) /\ o <= f)
  BY <1>4, <1>5 DEF Offset
<1> HIDE DEF o
<1>7. \A f \in Offsets : Escapes(d, o) <= Escapes(d, f)
  BY <1>1, <1>6
<1> QED BY <1>6, <1>7 DEF o

\* allocBuffer has room for the text and the 0 behind it.
LEMMA TextFits ==
  ASSUME NEW d \in Seq(Byte)
  PROVE  Len(Encode(d)) + 1 <= 3 + ((W + 1) * Len(d)) \div (W - 2)
<1> DEFINE n == Len(d)
           m == Escapes(d, Offset(d))
           w == W - 2
           q == ((W + 1) * n) \div w
<1>0. n \in Nat /\ w \in Nat \ {0} /\ W + 1 = w + 3 /\ W + 1 \in Nat
  BY BytesAssumption
<1>1. Offset(d) \in Offsets /\ Offset(d) \in Byte
  BY OffsetExists DEF Offsets, Byte
<1>2. m \in Nat
  BY <1>1, EncodedIs
<1>3. w * m <= 3 * n
  <2>1. \A e \in Offsets : m <= Escapes(d, e)
    BY OffsetExists
  <2> HIDE DEF m
  <2> QED BY <1>2, <2>1, FewestEscapes
<1>4. q \in Int /\ n + m <= q
  <2> HIDE DEF n, m, w
  <2>1. (W + 1) * n = w * n + 3 * n
    BY <1>0
  <2>2. w * (n + m) <= (W + 1) * n
    <3>1. w * (n + m) = w * n + w * m
      BY <1>0, <1>2
    <3>2. w * n \in Int /\ w * m \in Int /\ 3 * n \in Int
      BY <1>0, <1>2
    <3> QED BY <1>3, <2>1, <3>1, <3>2
  <2>3. n + m \in Nat /\ (W + 1) * n \in Nat
    BY <1>0, <1>2
  <2>4. ASSUME NEW b \in Nat \ {0}, NEW a \in Nat, NEW x \in Nat, b * x <= a
        PROVE  x <= a \div b /\ a \div b \in Int
    BY ONLY b \in Nat \ {0}, a \in Nat, x \in Nat, b * x <= a
  <2> DEFINE a == (W + 1) * n
             x == n + m
  <2>5. a \in Nat /\ x \in Nat /\ w * x <= a
    BY <2>2, <2>3
  <2> HIDE DEF a, x
  <2>6. x <= a \div w /\ a \div w \in Int
    BY ONLY <1>0, <2>4, <2>5
  <2> QED BY <2>6 DEF a, x
<1>5. CASE n = 0
  <2>1. Len(Encode(d)) = 1
    BY <1>5 DEF Encode
  <2> QED BY <1>0, <1>2, <1>4, <2>1
<1>6. CASE n # 0
  <2>1. Len(Encode(d)) = 1 + n + m
    BY <1>1, <1>6, EncodedIs DEF Encode
  <2> HIDE DEF n, m, q
  <2>2. Len(Encode(d)) + 1 <= 3 + q
    BY <1>0, <1>2, <1>4, <2>1
  <2> QED BY <2>2 DEF n, q, w
<1> QED BY <1>5, <1>6

\* encode.c: e is set by the loop for every blob that is not empty, whose m starts with n.
THEOREM OffsetAlwaysFound ==
  ASSUME NEW d \in Seq(Byte), d # <<>>
  PROVE  Offset(d) \in Offsets /\ Escapes(d, Offset(d)) < Len(d)
<1> DEFINE n == Len(d)
           m == Escapes(d, Offset(d))
           w == W - 2
<1>0. n \in Nat \ {0} /\ w \in Nat /\ w >= 4
  BY BytesAssumption
<1>1. Offset(d) \in Offsets /\ Offset(d) \in Byte
  BY OffsetExists DEF Offsets, Byte
<1>2. m \in Nat
  BY <1>1, EncodedIs
<1>3. w * m <= 3 * n
  <2>1. \A e \in Offsets : m <= Escapes(d, e)
    BY OffsetExists
  <2> HIDE DEF m
  <2> QED BY <1>2, <2>1, FewestEscapes
<1> HIDE DEF n, m, w
<1>4. 4 * m <= w * m
  BY <1>0, <1>2
<1>5. m < n
  <2>1. w * m \in Int
    BY <1>0, <1>2
  <2> QED BY <1>0, <1>2, <1>3, <1>4, <2>1
<1> QED BY <1>1, <1>5 DEF n, m
-----------------------------------------------------------------------------
(* The way back.                                                           *)

\* The walk over one byte more.
LEMMA WalkAppend ==
  ASSUME NEW t \in Seq(Byte), t # <<>>, NEW c \in Byte
  PROVE  /\ Walk(t) \in WalkState
         /\ Walk(Append(t, c)) = DecodeStep(Walk(t), c, t[1])
         /\ Append(t, c)[1] = t[1]
<1> DEFINE n == Len(t) - 1
           u == Append(t, c)
<1>1. n \in Nat /\ Len(t) = n + 1
  OBVIOUS
<1>2. u \in Seq(Byte) /\ u # <<>> /\ Len(u) - 1 = n + 1 /\ u[n + 2] = c /\ \A i \in 1..(n + 1) : u[i] = t[i]
  BY <1>1, AppendProperties
<1> HIDE DEF u
<1>3. PICK st : WalkOf(t, st) /\ Walk(t) = st[n]
  BY WalkExists
<1>4. PICK su : WalkOf(u, su) /\ Walk(u) = su[n + 1]
  BY <1>2, WalkExists
<1> HIDE DEF n
<1> DEFINE S == {i \in 0..n : su[i] = st[i]}
<1>5. 0 \in S
  BY <1>1, <1>3, <1>4 DEF WalkOf
<1>6. ASSUME NEW i \in 0..(n - 1), i \in S PROVE i + 1 \in S
  <2>1. i + 1 \in 1..n /\ i + 1 \in 1..(n + 1) /\ (i + 1) - 1 = i /\ (i + 1) + 1 \in 1..(n + 1) /\ Len(t) - 1 = n
    BY <1>1
  <2>2. st[i + 1] = DecodeStep(st[i], t[(i + 1) + 1], t[1])
    BY <1>3, <2>1 DEF WalkOf
  <2>3. su[i + 1] = DecodeStep(su[i], u[(i + 1) + 1], u[1])
    BY <1>2, <1>4, <2>1 DEF WalkOf
  <2>4. u[(i + 1) + 1] = t[(i + 1) + 1] /\ u[1] = t[1]
    BY <1>1, <1>2, <2>1
  <2>5. su[i + 1] = st[i + 1]
    BY <1>6, <2>2, <2>3, <2>4
  <2> QED BY <2>1, <2>5
<1> HIDE DEF S
<1>7. \A i \in 0..n : i \in S
  BY ONLY <1>1, <1>5, <1>6, UpTo
<1>8. su[n] = st[n]
  BY <1>1, <1>7 DEF S
<1>9. su[n + 1] = DecodeStep(su[n], u[n + 2], u[1])
  <2>1. n + 1 \in 1..(n + 1) /\ (n + 1) - 1 = n /\ (n + 1) + 1 = n + 2
    BY <1>1
  <2> QED BY <1>2, <1>4, <2>1 DEF WalkOf
<1>10. u[1] = t[1]
  BY <1>1, <1>2
<1>11. st[n] \in WalkState
  <2>1. Len(t) - 1 = n /\ n \in 0..n
    BY <1>1
  <2> QED BY <1>3, <2>1 DEF WalkOf
<1> QED BY <1>2, <1>3, <1>4, <1>8, <1>9, <1>10, <1>11 DEF u

\* The decoder writes no further than it has read, whatever the text: it may work in place.
LEMMA DecodedIs ==
  ASSUME NEW t \in Seq(Byte), t # <<>>
  PROVE  /\ Decode(t) \in WalkState
         /\ Decode(t).at \in {"end", "bad"}
         /\ Len(Decode(t).out) < Len(t)
<1> DEFINE n == Len(t) - 1
<1>1. n \in Nat /\ Len(t) = n + 1 /\ t[1] \in Byte
  OBVIOUS
<1>2. PICK st : WalkOf(t, st) /\ Walk(t) = st[n]
  BY WalkExists
<1> HIDE DEF n
<1>3. \A i \in 0..n : st[i] \in WalkState
  <2>1. Len(t) - 1 = n
    BY <1>1
  <2> QED BY <1>2, <2>1 DEF WalkOf
<1> DEFINE S == {i \in 0..n : Len(st[i].out) <= i}
<1>4. 0 \in S
  BY <1>1, <1>2 DEF WalkOf
<1>5. ASSUME NEW i \in 0..(n - 1), i \in S PROVE i + 1 \in S
  <2>1. i + 1 \in 1..n /\ (i + 1) - 1 = i /\ (i + 1) + 1 \in 1..Len(t) /\ Len(t) - 1 = n /\ i \in 0..n /\ i \in Nat
    BY <1>1
  <2>2. st[i + 1] = DecodeStep(st[i], t[(i + 1) + 1], t[1])
    BY <1>2, <2>1 DEF WalkOf
  <2>3. t[(i + 1) + 1] \in Byte
    BY <2>1
  <2>4. Len(st[i + 1].out) <= Len(st[i].out) + 1
    BY <1>1, <1>3, <2>1, <2>2, <2>3, DecodeStepIs
  <2>5. Len(st[i].out) \in Nat /\ Len(st[i + 1].out) \in Nat /\ Len(st[i].out) <= i
    BY <1>3, <1>5, <2>1 DEF WalkState
  <2> QED BY <2>1, <2>4, <2>5, SMTT(40)
<1> HIDE DEF S
<1>6. \A i \in 0..n : i \in S
  BY ONLY <1>1, <1>4, <1>5, UpTo
<1>7. st[n] \in WalkState /\ Len(st[n].out) <= n
  BY <1>1, <1>3, <1>6 DEF S
<1>8. Decode(t) = DecodeStep(st[n], 0, t[1])
  BY <1>2 DEF Decode
<1>9. 0 \in Byte
  BY BytesAssumption DEF Byte
<1>10. /\ Decode(t) \in WalkState
       /\ Decode(t).at \in {"end", "bad"}
       /\ Decode(t).out = st[n].out
  <2>1. st[n] \in WalkState /\ t[1] \in Byte
    BY <1>1, <1>7
  <2>2. /\ DecodeStep(st[n], 0, t[1]) \in WalkState
        /\ DecodeStep(st[n], 0, t[1]).at \in {"end", "bad"}
        /\ DecodeStep(st[n], 0, t[1]).out = st[n].out
    BY ONLY <2>1, <1>9, DecodeStepIs
  <2> QED BY <1>8, <2>2
<1>11. Len(Decode(t).out) < Len(t)
  <2>1. Len(st[n].out) \in Nat
    BY <1>7 DEF WalkState
  <2> QED BY <1>1, <1>7, <1>10, <2>1
<1> QED BY <1>10, <1>11

\* Three sequences joined in either order.
InEitherOrder(s1, s2, s3) == (s1 \o s2) \o s3 = s1 \o (s2 \o s3)

\* It is the same for sequences of bytes.
LEMMA Regroup ==
  ASSUME NEW s1 \in Seq(Byte), NEW s2 \in Seq(Byte), NEW s3 \in Seq(Byte)
  PROVE  InEitherOrder(s1, s2, s3)
BY ConcatAssociative DEF InEitherOrder

\* What a walk has read when it has taken the first i bytes back.
ReadUpTo(d, i) == [at |-> "text", out |-> SubSeq(d, 1, i)]

LEMMA ReadNext ==
  ASSUME NEW d \in Seq(Byte), NEW e \in Byte, NEW text, TextOf(d, e, text),
         \A i \in 0..Len(d) : text[i] # <<>> /\ text[i][1] = e,
         NEW i \in 0..(Len(d) - 1), Walk(text[i]) = ReadUpTo(d, i)
  PROVE  Walk(text[i + 1]) = ReadUpTo(d, i + 1)
<1> DEFINE b == d[i + 1]
           c == (b - e) % W
           s == text[i]
           o == SubSeq(d, 1, i)
<1>1. i \in Nat /\ i + 1 \in 1..Len(d) /\ i \in 0..Len(d) /\ (i + 1) - 1 = i
  OBVIOUS
<1>2. b \in Byte /\ c \in Byte /\ (c + e) % W = b
  <2>1. b \in Byte
    BY <1>1
  <2> QED BY <2>1, ByteDifference, OffsetUndone
<1>3. text[i + 1] = s \o Escaped(c) /\ s \in Seq(Byte) /\ s # <<>> /\ s[1] = e
  BY <1>1 DEF TextOf
<1>4. o \in Seq(Byte) /\ SubSeq(d, 1, i + 1) = Append(o, b)
  <2>1. o \in Seq(Byte)
    BY <1>1, SubSeqProperties
  <2>2. 1 \in 1..Len(d) /\ i + 1 \in 1..Len(d)
    BY <1>1
  <2>3. SubSeq(d, 1, i + 1) = o \o <<b>>
    BY <1>1, <2>2, SubSeqRecursiveSecond
  <2>4. Append(o, b) = o \o <<b>>
    BY <1>2, <2>1, AppendIsConcat
  <2> QED BY <2>1, <2>3, <2>4
<1>5. Walk(s) = [at |-> "text", out |-> o]
  BY DEF ReadUpTo
<1> HIDE DEF b, c, s, o
<1>6. CASE c \in {0, 1, Quote}
  <2>1. PICK k \in {1, 2, 3} : Escaped(c) = <<1, k>> /\ <<0, 1, Quote>>[k] = c
    BY <1>2, <1>6, EscapedIs
  <2>2. 1 \in Byte /\ k \in Byte
    BY BytesAssumption DEF Byte
  <2> DEFINE s1 == Append(s, 1)
             s2 == Append(s1, k)
  <2>3. s1 \in Seq(Byte) /\ s1 # <<>> /\ text[i + 1] = s2
    <3>1. s1 \in Seq(Byte) /\ s1 # <<>>
      BY <1>3, <2>2, AppendProperties
    <3>2. s1 = s \o <<1>> /\ s2 = s1 \o <<k>>
      BY <1>3, <2>2, <3>1, AppendIsConcat
    <3>3. <<1>> \in Seq(Byte) /\ <<k>> \in Seq(Byte) /\ <<1>> \o <<k>> = <<1, k>>
      <4>1. <<1>> \in Seq(Byte) /\ <<k>> \in Seq(Byte) /\ <<1, k>> \in Seq(Byte)
        BY <2>2
      <4>2. /\ Len(<<1>>) = 1 /\ Len(<<k>>) = 1 /\ Len(<<1, k>>) = 2
            /\ <<1>>[1] = 1 /\ <<k>>[1] = k /\ <<1, k>>[1] = 1 /\ <<1, k>>[2] = k
        OBVIOUS
      <4> DEFINE a1 == <<1>>
                 a2 == <<k>>
                 a3 == <<1, k>>
      <4>3. /\ a1 \in Seq(Byte) /\ a2 \in Seq(Byte) /\ a3 \in Seq(Byte)
            /\ Len(a1) = 1 /\ Len(a2) = 1 /\ Len(a3) = 2
            /\ a1[1] = a3[1] /\ a2[1] = a3[2]
        BY <4>1, <4>2
      <4> HIDE DEF a1, a2, a3
      <4>4. /\ a1 \o a2 \in Seq(Byte) /\ Len(a1 \o a2) = Len(a1) + Len(a2)
            /\ \A j \in 1..(Len(a1) + Len(a2)) :
                 (a1 \o a2)[j] = IF j <= Len(a1) THEN a1[j] ELSE a2[j - Len(a1)]
        BY <4>3, ConcatProperties
      <4>5. Len(a1 \o a2) = Len(a3) /\ \A j \in 1..Len(a1 \o a2) : (a1 \o a2)[j] = a3[j]
        BY <4>3, <4>4
      <4>6. a1 \o a2 = a3
        BY ONLY <4>3, <4>4, <4>5, SeqEqual
      <4> QED BY <4>1, <4>6 DEF a1, a2, a3
    <3>4. (s \o <<1>>) \o <<k>> = s \o (<<1>> \o <<k>>)
      <4> DEFINE a1 == <<1>>
                 a2 == <<k>>
      <4>1. s \in Seq(Byte) /\ a1 \in Seq(Byte) /\ a2 \in Seq(Byte)
        BY <1>3, <3>3
      <4> HIDE DEF a1, a2
      <4>2. InEitherOrder(s, a1, a2)
        BY ONLY <4>1, Regroup
      <4> QED BY ONLY <4>2, Zenon DEF InEitherOrder, a1, a2
    <3> QED BY <1>3, <2>1, <3>1, <3>2, <3>3, <3>4
  <2>4. Walk(s1) = DecodeStep(Walk(s), 1, e) /\ s1[1] = e
    BY <1>3, <2>2, WalkAppend
  <2>5. Walk(s1) = [at |-> "escape", out |-> o]
    BY <1>5, <2>4 DEF DecodeStep
  <2> HIDE DEF s1
  <2>6. Walk(s2) = DecodeStep(Walk(s1), k, e)
    BY <2>2, <2>3, <2>4, WalkAppend
  <2>7. DecodeStep(Walk(s1), k, e) = [at |-> "text", out |-> Append(o, (<<0, 1, Quote>>[k] + e) % W)]
    BY <2>5 DEF DecodeStep
  <2>8. DecodeStep(Walk(s1), k, e) = [at |-> "text", out |-> Append(o, b)]
    BY <1>2, <2>1, <2>7
  <2> QED BY <1>4, <2>3, <2>6, <2>8 DEF ReadUpTo
<1>7. CASE c \notin {0, 1, Quote}
  <2>1. text[i + 1] = Append(s, c)
    <3>1. Escaped(c) = <<c>>
      BY <1>2, <1>7, EscapedIs
    <3> QED BY <1>2, <1>3, <3>1, AppendIsConcat
  <2>2. Walk(Append(s, c)) = DecodeStep(Walk(s), c, e)
    BY <1>2, <1>3, WalkAppend
  <2>3. DecodeStep(Walk(s), c, e) = [at |-> "text", out |-> Append(o, (c + e) % W)]
    <3>1. c \notin {0, 1} /\ Walk(s).at = "text" /\ Walk(s).out = o
      BY <1>5, <1>7
    <3>2. DecodeStep(Walk(s), c, e) = [Walk(s) EXCEPT !.out = Append(@, (c + e) % W)]
      BY <3>1 DEF DecodeStep
    <3> DEFINE x == Append(o, (c + e) % W)
    <3>3. [Walk(s) EXCEPT !.out = x] = [at |-> "text", out |-> x]
      <4> HIDE DEF x
      <4> QED BY <1>5
    <3> QED BY ONLY <3>2, <3>3, <3>1
  <2> QED BY <1>2, <1>4, <2>1, <2>2, <2>3 DEF ReadUpTo
<1> QED BY <1>6, <1>7

\* Decoding the text of a blob gives the blob, whatever the offset.
THEOREM DecodeUndoesEncode ==
  ASSUME NEW d \in Seq(Byte), NEW e \in Byte
  PROVE  Decode(EncodedWith(d, e)) = [at |-> "end", out |-> d]
<1>1. PICK text : TextOf(d, e, text) /\ EncodedWith(d, e) = text[Len(d)]
  BY TextExists
<1> DEFINE n == Len(d)
<1>2. n \in Nat
  OBVIOUS
<1>3. \A i \in 0..n : text[i] # <<>> /\ text[i][1] = e
  <2> DEFINE X == {t \in Seq(Byte) : t # <<>> /\ t[1] = e}
  <2>1. text[0] \in X
    BY <1>1 DEF TextOf
  <2>2. ASSUME NEW i \in 1..n, text[i - 1] \in X PROVE text[i] \in X
    <3>1. text[i] = text[i - 1] \o Escaped((d[i] - e) % W)
      BY <1>1 DEF TextOf
    <3>2. Escaped((d[i] - e) % W) \in Seq(Byte)
      <4>1. d[i] \in Byte
        OBVIOUS
      <4> QED BY <4>1, ByteDifference, EscapedIs
    <3> DEFINE s == text[i - 1]
               u == Escaped((d[i] - e) % W)
    <3>3. s \in Seq(Byte) /\ u \in Seq(Byte) /\ Len(s) \in Nat \ {0} /\ Len(u) \in Nat /\ s[1] = e
      BY <2>2, <3>2
    <3> HIDE DEF s, u
    <3>4. s \o u \in Seq(Byte) /\ Len(s \o u) = Len(s) + Len(u) /\ (s \o u)[1] = s[1]
      BY <3>3, ConcatProperties
    <3>5. s \o u # <<>>
      BY <3>3, <3>4
    <3> QED BY <3>1, <3>3, <3>4, <3>5 DEF s, u
  <2> HIDE DEF X, n
  <2>3. \A i \in 0..n : text[i] \in X
    BY ONLY <1>2, <2>1, <2>2, RecursionType
  <2> QED BY <2>3 DEF X
<1> DEFINE S == {i \in 0..n : Walk(text[i]) = ReadUpTo(d, i)}
<1>4. 0 \in S
  <2>1. text[0] = <<e>>
    BY <1>1 DEF TextOf
  <2> DEFINE t == <<e>>
  <2>2. t \in Seq(Byte) /\ t # <<>> /\ Len(t) - 1 = 0
    OBVIOUS
  <2> HIDE DEF t
  <2>3. PICK st : WalkOf(t, st) /\ Walk(t) = st[Len(t) - 1]
    BY <2>2, WalkExists
  <2>4. Walk(t) = [at |-> "text", out |-> <<>>]
    BY <2>2, <2>3 DEF WalkOf
  <2>5. SubSeq(d, 1, 0) = <<>>
    BY SubSeqEmpty
  <2> QED BY <1>2, <2>1, <2>4, <2>5 DEF ReadUpTo, t
<1>5. ASSUME NEW i \in 0..(n - 1), i \in S PROVE i + 1 \in S
  <2>1. i + 1 \in 0..n
    BY <1>2
  <2> QED BY <1>1, <1>3, <1>5, <2>1, ReadNext
<1> HIDE DEF S
<1>6. \A i \in 0..n : i \in S
  BY ONLY <1>2, <1>4, <1>5, UpTo
<1>7. Walk(text[n]) = ReadUpTo(d, n)
  BY <1>2, <1>6 DEF S
<1>8. SubSeq(d, 1, n) = d
  BY SubSeqFull
<1>9. Walk(EncodedWith(d, e)) = [at |-> "text", out |-> d]
  BY <1>1, <1>7, <1>8 DEF ReadUpTo
<1> QED BY <1>9 DEF Decode, DecodeStep
-----------------------------------------------------------------------------
(* The buffer.                                                             *)

\* The text of the blob has room as long as the blob is there, also when the buffer was
\* allocated for another text of it.
RoomForText == Known => Len(Encode(value)) + 1 <= mnBufferLen

\* The text of a blob has its offset.
TextHasOffset == mbEncoded /\ Known => mpBuf # <<>>

BinaryInv == TypeOK /\ BlobKept /\ BufferHolds /\ TextIsQuotable /\ RoomForText /\ TextHasOffset

\* UNSET and ILL are neither texts nor blobs.
LEMMA Marks ==
  /\ UNSET \notin Seq(Byte) /\ ILL \notin Seq(Byte) /\ UNSET # ILL
  /\ Blobs \subseteq Seq(Byte)
  /\ <<>> # UNSET
<1>1. UNSET \notin Seq(Byte)
  <2>1. UNSET[1] = -1 /\ Len(UNSET) = 1
    BY DEF UNSET
  <2>2. -1 \notin Byte
    BY BytesAssumption DEF Byte
  <2>3. ASSUME NEW s \in Seq(Byte), Len(s) = 1 PROVE s[1] \in Byte
    BY <2>3
  <2> HIDE DEF UNSET
  <2> QED BY <2>1, <2>2, <2>3
<1>2. ILL \notin Seq(Byte)
  <2>1. ILL[1] = -2 /\ Len(ILL) = 1
    BY DEF ILL
  <2>2. -2 \notin Byte
    BY BytesAssumption DEF Byte
  <2>3. ASSUME NEW s \in Seq(Byte), Len(s) = 1 PROVE s[1] \in Byte
    BY <2>3
  <2> HIDE DEF ILL
  <2> QED BY <2>1, <2>2, <2>3
<1>3. UNSET # ILL
  <2>1. UNSET[1] = -1 /\ ILL[1] = -2
    BY DEF UNSET, ILL
  <2> QED BY <2>1
<1>4. Blobs \subseteq Seq(Byte)
  <2> SUFFICES ASSUME NEW n \in 0..MaxLen, NEW d \in [1..n -> Byte]
               PROVE  d \in Seq(Byte)
    BY DEF Blobs
  <2>1. n \in Nat
    BY BytesAssumption
  <2> QED BY <2>1
<1>5. <<>> # UNSET
  <2>1. <<>> \in Seq(Byte)
    OBVIOUS
  <2> QED BY <1>1, <2>1
<1> QED BY <1>1, <1>2, <1>3, <1>4, <1>5

\* The text getEncoded writes.
LEMMA EncodeIs ==
  ASSUME NEW d \in Seq(Byte)
  PROVE  /\ Encode(d) \in Seq(Byte) /\ Encode(d) # <<>>
         /\ Decode(Encode(d)) = [at |-> "end", out |-> d]
         /\ \A j \in 1..Len(Encode(d)) : Encode(d)[j] \notin {0, Quote}
<1>1. CASE Len(d) = 0
  <2> DEFINE t == EncodedWith(d, 1)
             u == <<1>>
  <2>0. d = <<>> /\ 1 \in Offsets /\ 1 \in Byte /\ Len(d) = 0
    BY <1>1, BytesAssumption DEF Offsets, Byte
  <2>1. /\ t \in Seq(Byte) /\ t # <<>> /\ t[1] = 1 /\ Len(t) = 1 + Len(d) + Escapes(d, 1)
        /\ Decode(t) = [at |-> "end", out |-> d]
        /\ \A j \in 1..Len(t) : t[j] \notin {0, Quote}
    <3>1. ASSUME NEW e \in Byte, e \in Offsets
          PROVE  /\ EncodedWith(d, e) \in Seq(Byte) /\ EncodedWith(d, e) # <<>>
                 /\ EncodedWith(d, e)[1] = e
                 /\ Len(EncodedWith(d, e)) = 1 + Len(d) + Escapes(d, e)
                 /\ Decode(EncodedWith(d, e)) = [at |-> "end", out |-> d]
                 /\ \A j \in 1..Len(EncodedWith(d, e)) : EncodedWith(d, e)[j] \notin {0, Quote}
      BY <3>1, EncodedIs, DecodeUndoesEncode
    <3> QED BY <2>0, <3>1
  <2>2. Escapes(d, 1) = 0
    <3>1. {i \in 1..Len(d) : (d[i] - 1) % W \in {0, 1, Quote}} = {}
      BY <2>0
    <3> QED BY <3>1, FS_EmptySet DEF Escapes
  <2>3. u \in Seq(Byte) /\ Len(u) = 1 /\ u[1] = 1
    BY <2>0
  <2> HIDE DEF t, u
  <2>4. Len(u) = Len(t) /\ \A i \in 1..Len(u) : u[i] = t[i]
    BY <2>0, <2>1, <2>2, <2>3
  <2>5. u = t
    BY ONLY <2>1, <2>3, <2>4, SeqEqual
  <2>6. Encode(d) = u
    BY <1>1 DEF Encode, u
  <2> QED BY <2>1, <2>5, <2>6
<1>2. CASE Len(d) # 0
  <2>1. Offset(d) \in Offsets /\ Offset(d) \in Byte
    BY OffsetExists DEF Offsets, Byte
  <2> DEFINE e == Offset(d)
             t == EncodedWith(d, e)
  <2>2. Encode(d) = t
    BY <1>2 DEF Encode
  <2>3. e \in Offsets /\ e \in Byte
    BY <2>1
  <2> HIDE DEF e
  <2>4. t \in Seq(Byte) /\ t # <<>> /\ \A j \in 1..Len(t) : t[j] \notin {0, Quote}
    BY ONLY d \in Seq(Byte), <2>3, EncodedIs
  <2>5. Decode(t) = [at |-> "end", out |-> d]
    BY ONLY d \in Seq(Byte), <2>3, DecodeUndoesEncode
  <2> HIDE DEF t
  <2> QED BY ONLY <2>2, <2>4, <2>5
<1> QED BY <1>1, <1>2

\* The texts of the format decode to a blob, and that blob's own text is no longer.
LEMMA WellFormedIs ==
  ASSUME NEW t \in WellFormed
  PROVE  /\ t \in Seq(Byte) /\ t # <<>>
         /\ Decode(t).at = "end" /\ Decode(t).out \in Blobs
         /\ Decode(t) = [at |-> "end", out |-> Decode(t).out]
         /\ Len(Encode(Decode(t).out)) <= Len(t)
         /\ \A j \in 1..Len(t) : t[j] \notin {0, Quote}
<1>1. PICK d \in Blobs, e \in Offsets : t = EncodedWith(d, e)
  BY DEF WellFormed
<1>2. d \in Seq(Byte) /\ e \in Byte
  BY Marks DEF Offsets, Byte
<1>3. Decode(t) = [at |-> "end", out |-> d]
  BY <1>1, <1>2, DecodeUndoesEncode
<1>4. /\ t \in Seq(Byte) /\ t # <<>>
      /\ Escapes(d, e) \in Nat /\ Len(t) = 1 + Len(d) + Escapes(d, e)
      /\ \A j \in 1..Len(t) : t[j] \notin {0, Quote}
  BY <1>1, <1>2, EncodedIs
<1>5. Len(Encode(d)) <= Len(t)
  <2>1. CASE Len(d) = 0
    <3>1. Len(Encode(d)) = 1
      BY <2>1 DEF Encode
    <3> QED BY <1>4, <2>1, <3>1
  <2>2. CASE Len(d) # 0
    <3> DEFINE o == Offset(d)
    <3>1. o \in Offsets /\ o \in Byte /\ Escapes(d, o) <= Escapes(d, e)
      BY <1>2, OffsetExists DEF Offsets, Byte
    <3>2. Encode(d) = EncodedWith(d, o)
      BY <2>2 DEF Encode
    <3> HIDE DEF o
    <3>3. Escapes(d, o) \in Nat /\ Len(Encode(d)) = 1 + Len(d) + Escapes(d, o)
      BY <1>2, <3>1, <3>2, EncodedIs
    <3>4. Len(d) \in Nat
      BY <1>2
    <3> QED BY <1>4, <3>1, <3>3, <3>4
  <2> QED BY <2>1, <2>2
<1> QED BY <1>1, <1>3, <1>4, <1>5

LEMMA BinaryInvInit == Init => BinaryInv
<1> SUFFICES ASSUME Init PROVE BinaryInv
  OBVIOUS
<1> USE DEF Init
<1>1. ~Known
  BY DEF Known
<1> QED BY <1>1 DEF BinaryInv, TypeOK, BlobKept, BufferHolds, TextIsQuotable, RoomForText, TextHasOffset

LEMMA SetBinaryKeeps ==
  ASSUME BinaryInv, NEW d \in Blobs, setBinary(d)
  PROVE  BinaryInv'
<1>0. d \in Seq(Byte) /\ Len(d) \in Nat /\ d # UNSET /\ d # ILL
  BY Marks
<1> DEFINE room == 3 + ((W + 1) * Len(d)) \div (W - 2)
<1>1. mpBuf' = d /\ value' = d /\ mnBinaryLen' = Len(d) /\ mnBufferLen' = room /\ mbEncoded' = FALSE
  BY DEF setBinary
<1>2. Len(Encode(d)) + 1 <= room
  BY <1>0, TextFits
<1>3. room \in Int
  <2> DEFINE a == (W + 1) * Len(d)
             b == W - 2
  <2>1. a \in Nat /\ b \in Nat \ {0}
    BY <1>0, BytesAssumption
  <2> HIDE DEF a, b
  <2>2. a \div b \in Int
    BY <2>1
  <2> QED BY <2>2 DEF a, b
<1> HIDE DEF room
<1>4. Len(Encode(d)) \in Nat /\ Len(d) <= Len(Encode(d))
  <2>1. Encode(d) \in Seq(Byte) /\ Encode(d) # <<>>
    BY <1>0, EncodeIs
  <2>2. Len(Decode(Encode(d)).out) < Len(Encode(d)) /\ Decode(Encode(d)).out = d
    BY <1>0, <2>1, DecodedIs, EncodeIs
  <2> QED BY <1>0, <2>1, <2>2
<1>5. TypeOK'
  <2>1. room \in Nat
    BY <1>2, <1>3, <1>4
  <2> QED BY <1>0, <1>1, <2>1 DEF TypeOK
<1>6. (BlobKept /\ BufferHolds /\ TextIsQuotable)'
  BY <1>0, <1>1, <1>2, <1>3, <1>4 DEF BlobKept, BufferHolds, TextIsQuotable, Known
<1>7. RoomForText' /\ TextHasOffset'
  BY <1>1, <1>2 DEF RoomForText, TextHasOffset
<1> QED BY <1>5, <1>6, <1>7 DEF BinaryInv

LEMMA SetEncodedKeeps ==
  ASSUME BinaryInv, NEW t \in Texts, setEncoded(t)
  PROVE  BinaryInv'
<1>0. t \in Seq(Byte) /\ Len(t) \in Nat /\ t # UNSET
  <2>1. CASE t \in WellFormed
    BY <2>1, WellFormedIs, Marks
  <2>2. CASE t \notin WellFormed
    <3>1. PICK n \in 0..MaxLen : t \in [1..n -> Byte \ {0}]
      BY <2>2 DEF Texts
    <3>2. n \in Nat
      BY BytesAssumption
    <3>3. t \in Seq(Byte) /\ Len(t) = n
      BY <3>1, <3>2
    <3> QED BY <3>2, <3>3, Marks
  <2> QED BY <2>1, <2>2
<1>1. mpBuf' = t /\ mnBufferLen' = Len(t) + 1 /\ mbEncoded' = TRUE /\ mnBinaryLen' \in {mnBinaryLen, 0}
  BY DEF setEncoded
<1>2. mnBinaryLen' \in Nat \cup {-1}
  BY <1>1 DEF BinaryInv, TypeOK
<1>3. TextHasOffset'
  <2>1. Known' => t \in WellFormed
    BY DEF Known, setEncoded
  <2> QED BY <1>1, <2>1, WellFormedIs DEF TextHasOffset
<1>4. CASE t \in WellFormed
  <2> DEFINE d == Decode(t).out
  <2>1. /\ Decode(t) = [at |-> "end", out |-> d] /\ d \in Blobs
        /\ Len(Encode(d)) <= Len(t)
        /\ \A j \in 1..Len(t) : t[j] \notin {0, Quote}
    BY <1>4, WellFormedIs
  <2>2. value' = d
    BY <1>4 DEF setEncoded
  <2> HIDE DEF d
  <2>3. d \in Seq(Byte) /\ d # UNSET /\ d # ILL
    BY <2>1, Marks
  <2>4. TypeOK'
    BY <1>0, <1>1, <1>2, <2>1, <2>2, <2>3 DEF TypeOK
  <2>5. (BlobKept /\ BufferHolds /\ TextIsQuotable)'
    BY <1>0, <1>1, <2>1, <2>2, <2>3 DEF BlobKept, BufferHolds, TextIsQuotable, Known
  <2>6. RoomForText'
    <3>1. Len(Encode(d)) \in Nat
      BY <2>3, EncodeIs
    <3> QED BY <1>0, <1>1, <2>1, <2>2, <3>1 DEF RoomForText
  <2> QED BY <1>3, <2>4, <2>5, <2>6 DEF BinaryInv
<1>5. CASE t \notin WellFormed
  <2>1. value' = ILL
    BY <1>5 DEF setEncoded
  <2>2. ~Known'
    BY <2>1 DEF Known
  <2>3. TypeOK'
    BY <1>0, <1>1, <1>2, <2>1, Marks DEF TypeOK
  <2> QED BY <1>3, <2>2, <2>3 DEF BinaryInv, BlobKept, BufferHolds, TextIsQuotable, RoomForText
<1> QED BY <1>4, <1>5

LEMMA GetEncodedKeeps ==
  ASSUME BinaryInv, getEncoded
  PROVE  BinaryInv'
<1> DEFINE t == Encode(mpBuf)
<1>1. mpBuf \in Seq(Byte) /\ ~mbEncoded
  BY DEF getEncoded, BinaryInv, TypeOK
<1>2. /\ t \in Seq(Byte) /\ t # <<>> /\ t # UNSET
      /\ Decode(t) = [at |-> "end", out |-> mpBuf]
      /\ \A j \in 1..Len(t) : t[j] \notin {0, Quote}
  BY <1>1, EncodeIs, Marks
<1>3. /\ mpBuf' = t /\ mbEncoded' = TRUE
      /\ UNCHANGED <<mnBinaryLen, mnBufferLen, value>>
  BY DEF getEncoded
<1> HIDE DEF t
<1>4. TypeOK'
  BY <1>2, <1>3 DEF TypeOK, BinaryInv, getEncoded
<1>5. Known' => Known /\ mpBuf = value
  BY <1>1, <1>3 DEF Known, BinaryInv, BlobKept
<1>6. (BlobKept /\ TextIsQuotable)'
  BY <1>2, <1>3, <1>5 DEF BlobKept, TextIsQuotable, Known
<1>7. BufferHolds'
  <2>1. Known' => Len(t) + 1 <= mnBufferLen
    BY <1>5 DEF BinaryInv, RoomForText, t
  <2> QED BY <1>3, <2>1 DEF BufferHolds
<1>8. RoomForText'
  BY <1>3, <1>5 DEF BinaryInv, RoomForText
<1>9. TextHasOffset'
  BY <1>2, <1>3 DEF TextHasOffset
<1> QED BY <1>4, <1>6, <1>7, <1>8, <1>9 DEF BinaryInv

\* A text that has its offset decodes to one thing.
LEMMA GetBinaryOfText ==
  ASSUME BinaryInv, getBinary, mpBuf # <<>>
  PROVE  BinaryInv'
<1> DEFINE s == Decode(mpBuf)
<1>0. Decodings = {s}
  BY DEF Decodings
<1>1. mpBuf \in Seq(Byte) /\ mpBuf # <<>> /\ mbEncoded /\ mpBuf # UNSET
  BY DEF getBinary, BinaryInv, TypeOK
<1>2. s \in WalkState /\ s.at \in {"end", "bad"} /\ Len(s.out) < Len(mpBuf)
  BY <1>1, DecodedIs
<1>3. s.out \in Seq(Byte) /\ Len(s.out) \in Nat /\ Len(mpBuf) \in Nat
  BY <1>1, <1>2 DEF WalkState
<1>4. UNCHANGED <<mnBufferLen, value>> /\ (Known' <=> Known)
  BY DEF getBinary, Known
<1>5. Known => s.at = "end" /\ s.out = value
  BY <1>1 DEF BinaryInv, BlobKept
<1>6. CASE s.at = "bad"
  <2> DEFINE rest == SubSeq(mpBuf, Len(s.out) + 1, Len(mpBuf))
             t == s.out \o rest
  <2>1. mpBuf' = t /\ mnBinaryLen' = -1 /\ UNCHANGED mbEncoded
    BY <1>0, <1>6 DEF getBinary
  <2>2. rest \in Seq(Byte) /\ Len(rest) = Len(mpBuf) - Len(s.out)
    <3> DEFINE k == Len(s.out) + 1
               n == Len(mpBuf)
    <3>1. k \in Int /\ n \in Int /\ k <= n /\ \A i \in k..n : mpBuf[i] \in Byte
      BY <1>1, <1>2, <1>3
    <3> HIDE DEF k, n
    <3>2. SubSeq(mpBuf, k, n) \in Seq(Byte) /\ Len(SubSeq(mpBuf, k, n)) = n - k + 1
      BY ONLY <3>1, SubSeqProperties
    <3>3. n - k + 1 = Len(mpBuf) - Len(s.out)
      BY <1>3 DEF k, n
    <3>4. rest = SubSeq(mpBuf, k, n)
      BY DEF k, n
    <3> HIDE DEF rest
    <3> QED BY ONLY <3>2, <3>3, <3>4
  <2> HIDE DEF rest, s
  <2>3. t \in Seq(Byte) /\ Len(t) = Len(mpBuf)
    BY <1>3, <2>2, ConcatProperties
  <2> HIDE DEF t
  <2>4. t # <<>> /\ t # UNSET
    BY <1>1, <2>3, Marks
  <2>5. ~Known'
    BY <1>4, <1>5, <1>6
  <2>6. TypeOK'
    BY <1>1, <1>4, <2>1, <2>3, <2>4 DEF TypeOK, BinaryInv
  <2>7. TextHasOffset'
    BY <2>1, <2>4 DEF TextHasOffset
  <2> QED BY <2>5, <2>6, <2>7 DEF BinaryInv, BlobKept, BufferHolds, TextIsQuotable, RoomForText
<1>7. CASE s.at # "bad"
  <2>1. mpBuf' = s.out /\ mnBinaryLen' = Len(s.out) /\ mbEncoded' = FALSE
    BY <1>0, <1>7 DEF getBinary
  <2> HIDE DEF s
  <2>2. TypeOK'
    BY <1>1, <1>3, <1>4, <2>1, Marks DEF TypeOK, BinaryInv
  <2>3. (BlobKept /\ TextIsQuotable)'
    BY <1>4, <1>5, <2>1 DEF BlobKept, TextIsQuotable
  <2>4. BufferHolds'
    <3>1. Known => Len(mpBuf) + 1 <= mnBufferLen
      BY <1>1 DEF BinaryInv, BufferHolds
    <3>2. mnBufferLen \in Nat
      BY DEF BinaryInv, TypeOK
    <3>3. Known => Len(s.out) <= mnBufferLen
      BY <1>2, <1>3, <3>1, <3>2
    <3> QED BY <1>3, <1>4, <2>1, <3>2, <3>3 DEF BufferHolds
  <2>5. RoomForText'
    BY <1>4 DEF BinaryInv, RoomForText
  <2>6. TextHasOffset'
    BY <2>1 DEF TextHasOffset
  <2> QED BY <2>2, <2>3, <2>4, <2>5, <2>6 DEF BinaryInv
<1> QED BY <1>6, <1>7

\* What is read behind the buffer of an empty text is no blob anybody has put in.
LEMMA GetBinaryOfNothing ==
  ASSUME BinaryInv, getBinary, mpBuf = <<>>
  PROVE  BinaryInv'
<1>1. mbEncoded /\ UNCHANGED <<mnBufferLen, value>> /\ ~Known
  BY DEF getBinary, BinaryInv, TextHasOffset
<1>2. ~Known'
  BY <1>1 DEF Known
<1>3. PICK d \in Decodings :
        IF d.at = "bad"
        THEN /\ mpBuf' = d.out \o SubSeq(mpBuf, Len(d.out) + 1, Len(mpBuf))
             /\ mnBinaryLen' = -1
             /\ UNCHANGED mbEncoded
        ELSE /\ mpBuf' = d.out
             /\ mnBinaryLen' = Len(d.out)
             /\ mbEncoded' = FALSE
  BY DEF getBinary
<1>4. d.out \in Blobs
  BY <1>3 DEF Decodings
<1>5. d.out \in Seq(Byte) /\ Len(d.out) \in Nat
  BY <1>4, Marks
<1>6. d.out \o SubSeq(mpBuf, Len(d.out) + 1, Len(mpBuf)) \in Seq(Byte)
  <2> DEFINE k == Len(d.out) + 1
             rest == SubSeq(mpBuf, k, 0)
  <2>1. k \in Nat \ {0}
    BY <1>5
  <2> HIDE DEF k
  <2>2. rest = <<>>
    BY <2>1, SubSeqEmpty
  <2>3. Len(mpBuf) = 0
    OBVIOUS
  <2> HIDE DEF rest
  <2>4. d.out \o rest \in Seq(Byte)
    BY <1>5, <2>2, ConcatProperties
  <2> QED BY <2>3, <2>4 DEF k, rest
<1>7. mpBuf' \in Seq(Byte) /\ mnBinaryLen' \in Nat \cup {-1} /\ mbEncoded' \in BOOLEAN
  BY <1>1, <1>3, <1>5, <1>6 DEF BinaryInv, TypeOK
<1>8. TypeOK'
  BY <1>1, <1>7, Marks DEF BinaryInv, TypeOK
<1> QED
  BY <1>2, <1>8
     DEF BinaryInv, BlobKept, BufferHolds, TextIsQuotable, RoomForText, TextHasOffset

LEMMA GetBinaryKeeps ==
  ASSUME BinaryInv, getBinary
  PROVE  BinaryInv'
BY GetBinaryOfText, GetBinaryOfNothing

LEMMA ClearKeeps ==
  ASSUME BinaryInv, clear
  PROVE  BinaryInv'
<1> USE DEF clear
<1>1. ~Known'
  BY DEF Known
<1>2. TypeOK'
  BY DEF BinaryInv, TypeOK
<1>3. TextHasOffset'
  BY <1>1 DEF TextHasOffset
<1> QED BY <1>1, <1>2, <1>3 DEF BinaryInv, BlobKept, BufferHolds, TextIsQuotable, RoomForText

LEMMA BinaryInvNext == BinaryInv /\ [Next]_vars => BinaryInv'
<1> SUFFICES ASSUME BinaryInv, [Next]_vars PROVE BinaryInv'
  OBVIOUS
<1>1. CASE \E d \in Blobs : setBinary(d)
  BY <1>1, SetBinaryKeeps
<1>2. CASE \E t \in Texts : setEncoded(t)
  BY <1>2, SetEncodedKeeps
<1>3. CASE getEncoded
  BY <1>3, GetEncodedKeeps
<1>4. CASE getBinary
  BY <1>4, GetBinaryKeeps
<1>5. CASE clear
  BY <1>5, ClearKeeps
<1>6. CASE UNCHANGED vars
  BY <1>6 DEF vars, BinaryInv, TypeOK, BlobKept, BufferHolds, TextIsQuotable, RoomForText,
       TextHasOffset, Known
<1> QED BY <1>1, <1>2, <1>3, <1>4, <1>5, <1>6 DEF Next

-----------------------------------------------------------------------------
(* The two together.                                                       *)

\* The invariants of the parts.
SqliteInv == OwnersParts /\ BinaryInv

\* They hold in every behaviour of either part.
THEOREM SqliteInvariant == McSpec => []SqliteInv
<1>1. McInit => SqliteInv
  BY OwnersInvInit, BinaryInvInit DEF McInit, SqliteInv
<1>2. SqliteInv /\ [McNext]_<<part, vars, ownerVars>> => SqliteInv'
  <2> SUFFICES ASSUME SqliteInv, [McNext]_<<part, vars, ownerVars>> PROVE SqliteInv'
    OBVIOUS
  <2>1. [Owners!Next]_(Owners!vars)
    BY DEF McNext, ownerVars, Owners!vars
  <2>2. [Next]_vars
    BY DEF McNext
  <2>3. OwnersParts'
    BY <2>1, OwnersInvNext DEF SqliteInv
  <2>4. BinaryInv'
    BY <2>2, BinaryInvNext DEF SqliteInv
  <2> QED BY <2>3, <2>4 DEF SqliteInv
<1> QED BY <1>1, <1>2, PTL DEF McSpec

\* CppSQLite3.cpp: the members of the wrapper and of the buffer keep their types: none is
\* ever taken for an address, a length or a flag it cannot be.
THEOREM TypesAlwaysOK == McSpec => []TypesOK
<1>1. SqliteInv => TypesOK
  BY TwoForms DEF SqliteInv, OwnersInv, BinaryInv, TypesOK
<1> QED BY <1>1, SqliteInvariant, PTL

\* CppSQLite3Binary and encode.c: through any sequence of conversions bytes and text stay
\* those of the blob, and the text fits the buffer and can stand between quotes.
THEOREM BlobAlwaysIntact == McSpec => []BlobIntact
<1>1. SqliteInv => BlobIntact
  BY DEF SqliteInv, BinaryInv, BlobIntact
<1> QED BY <1>1, SqliteInvariant, PTL

\* CppSQLite3.cpp: however queries and statements are copied, assigned to, finalized and
\* destroyed, and whichever step fails, every VM has one owner or was leaked by line 930,
\* nobody is left with one that was freed, and eof tells of a row, at every address that was
\* not freed under another object by line 597 or by a statement finalized before its queries.
THEOREM StatementsAlwaysOwned == McSpec => []VMsOwned
<1>1. SqliteInv => VMsOwned
  BY TwoForms DEF SqliteInv, OwnersInv, VMsOwned
<1> QED BY <1>1, SqliteInvariant, PTL

\* CppSQLite3.cpp: every handle SQLite holds open belongs to one object that can close it
\* when no VM is left, and no VM outlives its handle.
THEOREM HandlesAlwaysHeld == McSpec => []HandlesHeld
<1>1. SqliteInv => HandlesHeld
  BY TwoForms DEF SqliteInv, OwnersInv, HandlesHeld
<1> QED BY <1>1, SqliteInvariant, PTL
=============================================================================
