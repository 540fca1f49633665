--------------------------- MODULE HostBook_proof ---------------------------
(* What HostBook promises holds for any number of windows, ids and texts.  *)
EXTENDS HostBook, TLAPS

\* The shape of the state, and: no row, in the table, in a window's copy or in
\* its form, has a type without an item in typecombo.
BookInv ==
  /\ DOMAIN hostList = Windows /\ DOMAIN form = Windows
  /\ DOMAIN tab = Windows /\ DOMAIN editId = Windows
  /\ running \subseteq Windows
  /\ \A i \in DOMAIN table : table[i].type \in TypeItems
  /\ \A w \in Windows :
       /\ \A i \in DOMAIN hostList[w] : hostList[w][i].type \in TypeItems
       /\ form[w].type \in TypeItems
  /\ FormShowsHost

\* A table an earlier run has left satisfies the invariant.
LEMMA BookInvInit == Init => BookInv
<1> SUFFICES ASSUME Init PROVE BookInv
  OBVIOUS
<1>1. PICK ids \in SUBSET (1..(nextId - 1)) : table \in [ids -> StoredRow]
  BY DEF Init
<1>2. \A r \in StoredRow : r.type \in TypeItems
  BY DEF StoredRow
<1>3. \A i \in DOMAIN table : table[i].type \in TypeItems
  BY <1>1, <1>2
<1>4. NewForm.type \in TypeItems
  BY DEF NewForm, TypeItems
<1>5. FormShowsHost
  BY DEF Init, FormShowsHost
<1> QED  BY <1>3, <1>4, <1>5 DEF Init, BookInv

\* After InitData the copy of the window is the new table.
LEMMA InitDataKeepsTypes ==
  ASSUME DOMAIN hostList = Windows, NEW w \in Windows, InitData(w),
         \A i \in DOMAIN table' : table'[i].type \in TypeItems,
         \A v \in Windows : \A i \in DOMAIN hostList[v] :
            hostList[v][i].type \in TypeItems
  PROVE  /\ DOMAIN hostList' = Windows
         /\ \A v \in Windows : \A i \in DOMAIN hostList'[v] :
              hostList'[v][i].type \in TypeItems
         /\ \A v \in Windows \ {w} : hostList'[v] = hostList[v]
  BY DEF InitData

\* ClearControl changes no combo and no other window.
LEMMA ClearControlKeepsTypes ==
  ASSUME DOMAIN form = Windows, NEW w \in Windows, ClearControl(w),
         \A v \in Windows : form[v].type \in TypeItems
  PROVE  /\ DOMAIN form' = Windows
         /\ \A v \in Windows : form'[v].type \in TypeItems
         /\ \A v \in Windows \ {w} : form'[v] = form[v]
<1> DEFINE cleared == [form[w] EXCEPT !.text = Cleared]
<1>1. form' = [form EXCEPT ![w] = cleared]
  BY DEF ClearControl
<1>2. cleared.type = form[w].type
  OBVIOUS
<1> HIDE DEF cleared
<1> QED  BY <1>1, <1>2

\* The row Save writes has the type of the form.
LEMMA StoredKeepsType ==
  ASSUME NEW w \in Windows, form[w].type \in TypeItems
  PROVE  Stored(w).type \in TypeItems
  BY DEF Stored

\* No operation of any window breaks the invariant.
LEMMA BookInvNext == BookInv /\ [Next]_vars => BookInv'
<1> SUFFICES ASSUME BookInv, [Next]_vars PROVE BookInv'
  OBVIOUS
<1>1. CASE UNCHANGED vars
  BY <1>1 DEF vars, database, BookInv, FormShowsHost
<1>2. ASSUME NEW w \in Windows, NEW t \in {0, 2}, ClickTab(w, t) PROVE BookInv'
  BY <1>2 DEF ClickTab, database, BookInv, FormShowsHost
<1>3. ASSUME NEW w \in Windows, ClickAdd(w) PROVE BookInv'
  <2>1. /\ DOMAIN form' = Windows
        /\ \A v \in Windows : form'[v].type \in TypeItems
        /\ \A v \in Windows \ {w} : form'[v] = form[v]
    BY <1>3, ClearControlKeepsTypes DEF ClickAdd, BookInv
  <2>2. FormShowsHost'
    BY <1>3, <2>1 DEF ClickAdd, database, BookInv, FormShowsHost
  <2> QED  BY <1>3, <2>1, <2>2 DEF ClickAdd, database, BookInv
<1>4. ASSUME NEW w \in Windows, NEW i \in Ids, Edit(w, i) PROVE BookInv'
  BY <1>4 DEF Edit, database, BookInv, FormShowsHost
<1>5. ASSUME NEW w \in Windows, Fill(w) PROVE BookInv'
  <2>1. \E r : form' = [form EXCEPT ![w] = r] /\ r.type \in TypeItems
    <3>1. ASSUME NEW e \in Edits, NEW t \in Texts,
                 form' = [form EXCEPT ![w] = [@ EXCEPT !.text[e] = t]]
          PROVE  \E r : form' = [form EXCEPT ![w] = r] /\ r.type \in TypeItems
      <4> WITNESS [form[w] EXCEPT !.text[e] = t]
      <4>1. [form[w] EXCEPT !.text[e] = t].type = form[w].type
        OBVIOUS
      <4> QED  BY <3>1, <4>1 DEF BookInv
    <3>2. ASSUME NEW k \in TypeItems,
                 form' = [form EXCEPT ![w] = [@ EXCEPT !.type = k]]
          PROVE  \E r : form' = [form EXCEPT ![w] = r] /\ r.type \in TypeItems
      <4> WITNESS [form[w] EXCEPT !.type = k]
      <4> QED  BY <3>2 DEF BookInv
    <3>3. ASSUME NEW k \in CryptItems,
                 form' = [form EXCEPT ![w] = [@ EXCEPT !.crypt = k]]
          PROVE  \E r : form' = [form EXCEPT ![w] = r] /\ r.type \in TypeItems
      <4> WITNESS [form[w] EXCEPT !.crypt = k]
      <4>1. [form[w] EXCEPT !.crypt = k].type = form[w].type
        OBVIOUS
      <4> QED  BY <3>3, <4>1 DEF BookInv
    <3> QED  BY <1>5, <3>1, <3>2, <3>3 DEF Fill
  <2>2. PICK r : form' = [form EXCEPT ![w] = r] /\ r.type \in TypeItems
    BY <2>1
  <2>3. touched' = touched \cup {w}
    BY <1>5 DEF Fill
  <2> QED
    BY <1>5, <2>2, <2>3 DEF Fill, database, BookInv, FormShowsHost
<1>6. ASSUME NEW w \in Windows, Saved(w),
             \A i \in DOMAIN table' : table'[i].type \in TypeItems
      PROVE  BookInv'
  <2>1. /\ DOMAIN form' = Windows
        /\ \A v \in Windows : form'[v].type \in TypeItems
        /\ \A v \in Windows \ {w} : form'[v] = form[v]
    BY <1>6, ClearControlKeepsTypes DEF Saved, BookInv
  <2>2. /\ DOMAIN hostList' = Windows
        /\ \A v \in Windows : \A i \in DOMAIN hostList'[v] :
             hostList'[v][i].type \in TypeItems
        /\ \A v \in Windows \ {w} : hostList'[v] = hostList[v]
    BY <1>6, InitDataKeepsTypes DEF Saved, BookInv
  <2>3. FormShowsHost'
    BY <1>6, <2>1, <2>2 DEF Saved, BookInv, FormShowsHost
  <2> QED  BY <1>6, <2>1, <2>2, <2>3 DEF Saved, BookInv
<1>7. ASSUME NEW w \in Windows, Add(w) PROVE BookInv'
  <2>1. Stored(w).type \in TypeItems
    BY StoredKeepsType DEF BookInv
  <2>2. \A i \in DOMAIN table' : table'[i].type \in TypeItems
    BY <1>7, <2>1 DEF Add, BookInv
  <2> QED  BY <1>6, <1>7, <2>2 DEF Add
<1>8. ASSUME NEW w \in Windows, Set(w) PROVE BookInv'
  <2>1. Stored(w).type \in TypeItems
    BY StoredKeepsType DEF BookInv
  <2>2. \A i \in DOMAIN table' : table'[i].type \in TypeItems
    BY <1>8, <2>1 DEF Set, BookInv
  <2> QED  BY <1>6, <1>8, <2>2 DEF Set
<1>9. ASSUME NEW w \in Windows, NEW i \in Ids, Del(w, i) PROVE BookInv'
  <2>1. \A j \in DOMAIN table' : table'[j].type \in TypeItems
    BY <1>9 DEF Del, BookInv
  <2>2. /\ DOMAIN hostList' = Windows
        /\ \A v \in Windows : \A j \in DOMAIN hostList'[v] :
             hostList'[v][j].type \in TypeItems
        /\ \A v \in Windows \ {w} : hostList'[v] = hostList[v]
    BY <1>9, <2>1, InitDataKeepsTypes DEF Del, BookInv
  <2>3. FormShowsHost'
    BY <1>9, <2>2 DEF Del, BookInv, FormShowsHost
  <2> QED  BY <1>9, <2>1, <2>2, <2>3 DEF Del, BookInv
<1>10. ASSUME NEW w \in Windows, Stop(w) PROVE BookInv'
  BY <1>10 DEF Stop, database, BookInv, FormShowsHost
<1>11. ASSUME NEW w \in Windows, Start(w) PROVE BookInv'
  <2>1. table' = table
    BY <1>11 DEF Start, database
  <2>2. /\ DOMAIN hostList' = Windows
        /\ \A v \in Windows : \A j \in DOMAIN hostList'[v] :
             hostList'[v][j].type \in TypeItems
        /\ \A v \in Windows \ {w} : hostList'[v] = hostList[v]
    BY <1>11, <2>1, InitDataKeepsTypes DEF Start, BookInv
  <2>3. NewForm.type \in TypeItems
    BY DEF NewForm, TypeItems
  <2>4. FormShowsHost'
    BY <1>11, <2>2 DEF Start, BookInv, FormShowsHost
  <2> QED  BY <1>11, <2>1, <2>2, <2>3, <2>4 DEF Start, BookInv
<1> QED
  BY <1>1, <1>2, <1>3, <1>4, <1>5, <1>7, <1>8, <1>9, <1>10, <1>11 DEF Next

\* The invariant holds in every behaviour.
LEMMA BookInvAlways == Spec => []BookInv
<1> QED  BY BookInvInit, BookInvNext, PTL DEF Spec

\* In every window, and whatever other windows do, the protocol in the list is
\* the one Connect dials.
THEOREM CaptionAlwaysTells == Spec => []CaptionTellsProtocol
<1>1. BookInv => CaptionTellsProtocol
  BY DEF BookInv, CaptionTellsProtocol, TypeText, Dials, TypeItems
<1> QED  BY <1>1, BookInvAlways, PTL

\* A form that was opened for a host and left alone shows that host.
THEOREM FormAlwaysShowsHost == Spec => []FormShowsHost
<1>1. BookInv => FormShowsHost
  BY DEF BookInv
<1> QED  BY <1>1, BookInvAlways, PTL

\* No sequence of saves by any number of windows brings a deleted host back.
THEOREM DeletedHostsStayDeleted == Spec => DeletedStaysDeleted
<1> DEFINE Stays == \A i \in 1..(nextId - 1) :
                      i \notin DOMAIN table => i \notin DOMAIN table'
<1>1. ASSUME [Next]_vars PROVE [Stays]_vars
  <2>1. CASE UNCHANGED vars
    BY <2>1
  <2>2. ASSUME NEW w \in Windows, Add(w) PROVE Stays
    BY <2>2 DEF Add
  <2>3. ASSUME NEW w \in Windows, Set(w) PROVE Stays
    BY <2>3 DEF Set
  <2>4. ASSUME NEW w \in Windows, NEW i \in Ids, Del(w, i) PROVE Stays
    BY <2>4 DEF Del
  <2>5. CASE UNCHANGED table
    BY <2>5
  <2> QED
    BY <1>1, <2>1, <2>2, <2>3, <2>4, <2>5
    DEF Next, ClickTab, ClickAdd, Edit, Fill, Stop, Start, database
<1> QED  BY <1>1, PTL DEF Spec, DeletedStaysDeleted

-----------------------------------------------------------------------------
(* Types.                                                                  *)

\* A set of rows under ids is a function of Rows.
LEMMA RowsAre ==
  ASSUME NEW f, NEW ids \in SUBSET Ids, f \in [ids -> Row]
  PROVE  f \in Rows
  BY DEF Rows

\* And the reverse.
LEMMA RowsHave ==
  ASSUME NEW f \in Rows
  PROVE  /\ DOMAIN f \in SUBSET Ids
         /\ f \in [DOMAIN f -> Row]
         /\ \A i \in DOMAIN f : f[i] \in Row
<1>1. PICK ids \in SUBSET Ids : f \in [ids -> Row]
  BY DEF Rows
<1> QED  BY <1>1

\* A row left by an earlier run, the form of a new window and a cleared form are rows.
LEMMA RowsOfForms ==
  /\ StoredRow \subseteq Row
  /\ NewForm \in Row
  /\ Cleared \in [Edits -> Texts]
<1>1. StoredRow \subseteq Row
  BY DEF StoredRow, Row
<1>2. Cleared \in [Edits -> Texts]
  BY TextsAssumption DEF Cleared
<1>3. NewForm \in Row
  BY <1>2, CryptAssumption DEF NewForm, Row, TypeItems
<1> QED  BY <1>1, <1>2, <1>3

\* The row a save that is accepted stores is a row.
LEMMA StoredIsRow ==
  ASSUME NEW w \in Windows, form[w] \in Row, Accepted(w)
  PROVE  Stored(w) \in Row
<1> DEFINE texts == [e \in Edits |-> StoredAs[form[w].text[e]]]
<1>1. texts \in [Edits -> Texts]
  BY StoredAssumption, TextsAssumption DEF Accepted, Row
<1>2. Stored(w) = [form[w] EXCEPT !.text = texts]
  BY DEF Stored
<1> HIDE DEF texts
<1> QED  BY <1>1, <1>2 DEF Row

\* ClearControl leaves a row in each form, InitData the table in a window.
LEMMA HelpersKeepTypes ==
  ASSUME NEW w \in Windows
  PROVE  /\ form \in [Windows -> Row] /\ ClearControl(w) => form' \in [Windows -> Row]
         /\ hostList \in [Windows -> Rows] /\ table' \in Rows /\ InitData(w)
              => hostList' \in [Windows -> Rows]
<1>1. ASSUME form \in [Windows -> Row], ClearControl(w) PROVE form' \in [Windows -> Row]
  <2>1. [form[w] EXCEPT !.text = Cleared] \in Row
    BY <1>1, RowsOfForms DEF Row
  <2> DEFINE cleared == [form[w] EXCEPT !.text = Cleared]
  <2>2. form' = [form EXCEPT ![w] = cleared]
    BY <1>1 DEF ClearControl
  <2> HIDE DEF cleared
  <2>3. cleared \in Row
    BY <2>1 DEF cleared
  <2> QED  BY <1>1, <2>2, <2>3
<1>2. ASSUME hostList \in [Windows -> Rows], table' \in Rows, InitData(w)
      PROVE  hostList' \in [Windows -> Rows]
  BY <1>2 DEF InitData
<1> QED  BY <1>1, <1>2

\* The initial state is of the type.
LEMMA TypeOKInit == Init => TypeOK
<1> SUFFICES ASSUME Init PROVE TypeOK
  OBVIOUS
<1>1. PICK ids \in SUBSET (1..(nextId - 1)) : table \in [ids -> StoredRow]
  BY DEF Init
<1>2. nextId \in 1..(MaxId + 1)
  BY DEF Init
<1>3. ids \in SUBSET Ids
  BY <1>1, <1>2, MaxIdAssumption DEF Ids
<1>4. table \in [ids -> Row]
  BY <1>1, RowsOfForms
<1>5. table \in Rows
  BY <1>3, <1>4, RowsAre
<1>6. /\ hostList \in [Windows -> Rows] /\ form \in [Windows -> Row]
  BY <1>5, RowsOfForms DEF Init
<1>7. /\ tab \in [Windows -> 0..2] /\ editId \in [Windows -> 0..MaxId]
  BY MaxIdAssumption DEF Init
<1> QED  BY <1>2, <1>5, <1>6, <1>7 DEF Init, TypeOK

\* Each operation keeps the types.
LEMMA TypeOKNext == TypeOK /\ [Next]_vars => TypeOK'
<1> SUFFICES ASSUME TypeOK, [Next]_vars PROVE TypeOK'
  OBVIOUS
<1> USE DEF TypeOK
<1>1. CASE UNCHANGED vars
  BY <1>1 DEF vars, database
<1>2. ASSUME NEW w \in Windows, NEW t \in {0, 2}, ClickTab(w, t) PROVE TypeOK'
  BY <1>2 DEF ClickTab, database
<1>3. ASSUME NEW w \in Windows, ClickAdd(w) PROVE TypeOK'
  <2>1. form' \in [Windows -> Row]
    BY <1>3, HelpersKeepTypes DEF ClickAdd
  <2>2. editId' \in [Windows -> 0..MaxId]
    BY <1>3, MaxIdAssumption DEF ClickAdd
  <2>3. tab' \in [Windows -> 0..2] /\ touched' \in SUBSET Windows
    BY <1>3 DEF ClickAdd
  <2>4. table' = table /\ nextId' = nextId /\ hostList' = hostList /\ running' = running
    BY <1>3 DEF ClickAdd, database
  <2> QED  BY <2>1, <2>2, <2>3, <2>4
<1>4. ASSUME NEW w \in Windows, NEW i \in Ids, Edit(w, i) PROVE TypeOK'
  <2>1. hostList[w][i] \in Row /\ i \in 0..MaxId
    BY <1>4, RowsHave, MaxIdAssumption DEF Edit, Ids
  <2>2. form' \in [Windows -> Row]
    BY <1>4, <2>1 DEF Edit
  <2> QED  BY <1>4, <2>1, <2>2 DEF Edit, database
<1>5. ASSUME NEW w \in Windows, Fill(w) PROVE TypeOK'
  <2>1. \E r \in Row : form' = [form EXCEPT ![w] = r]
    <3>1. ASSUME NEW e \in Edits, NEW t \in Texts,
                 form' = [form EXCEPT ![w] = [@ EXCEPT !.text[e] = t]]
          PROVE  \E r \in Row : form' = [form EXCEPT ![w] = r]
      <4> DEFINE texts == [form[w].text EXCEPT ![e] = t]
                 filled == [form[w] EXCEPT !.text = texts]
      <4>1. form[w] \in Row
        OBVIOUS
      <4>2. texts \in [Edits -> Texts]
        BY <4>1 DEF Row
      <4>3. form' = [form EXCEPT ![w] = filled]
        BY <3>1, Zenon
      <4> HIDE DEF texts
      <4>4. filled \in Row
        BY <4>1, <4>2 DEF Row
      <4> HIDE DEF filled
      <4> QED  BY <4>3, <4>4
    <3>2. ASSUME NEW k \in TypeItems,
                 form' = [form EXCEPT ![w] = [@ EXCEPT !.type = k]]
          PROVE  \E r \in Row : form' = [form EXCEPT ![w] = r]
      <4>1. [form[w] EXCEPT !.type = k] \in Row
        BY DEF Row
      <4> QED  BY <3>2, <4>1
    <3>3. ASSUME NEW k \in CryptItems,
                 form' = [form EXCEPT ![w] = [@ EXCEPT !.crypt = k]]
          PROVE  \E r \in Row : form' = [form EXCEPT ![w] = r]
      <4>1. [form[w] EXCEPT !.crypt = k] \in Row
        BY DEF Row
      <4> QED  BY <3>3, <4>1
    <3> QED  BY <1>5, <3>1, <3>2, <3>3 DEF Fill
  <2>2. form' \in [Windows -> Row]
    BY <2>1
  <2> QED  BY <1>5, <2>2 DEF Fill, database
<1>6. ASSUME NEW w \in Windows, Saved(w), table' \in Rows, nextId' \in 1..(MaxId + 1)
      PROVE  TypeOK'
  <2>1. form' \in [Windows -> Row] /\ hostList' \in [Windows -> Rows]
    BY <1>6, HelpersKeepTypes DEF Saved
  <2>2. tab' \in [Windows -> 0..2]
    BY <1>6 DEF Saved
  <2>3. editId' = editId /\ running' = running /\ touched' = touched
    BY <1>6 DEF Saved
  <2> QED  BY <1>6, <2>1, <2>2, <2>3
<1>7. ASSUME NEW w \in Windows, Add(w) PROVE TypeOK'
  <2>1. Stored(w) \in Row
    BY <1>7, StoredIsRow DEF Add
  <2>2. nextId \in Ids /\ nextId' \in 1..(MaxId + 1)
    BY <1>7, MaxIdAssumption DEF Add, Ids
  <2>3. table' \in [DOMAIN table \cup {nextId} -> Row]
    BY <1>7, <2>1, RowsHave DEF Add
  <2>4. DOMAIN table \cup {nextId} \in SUBSET Ids
    BY <2>2, RowsHave
  <2>5. table' \in Rows
    BY <2>3, <2>4, RowsAre
  <2> QED  BY <1>6, <1>7, <2>2, <2>5 DEF Add
<1>8. ASSUME NEW w \in Windows, Set(w) PROVE TypeOK'
  <2>1. Stored(w) \in Row
    BY <1>8, StoredIsRow DEF Set
  <2>2. table' \in [DOMAIN table -> Row] /\ DOMAIN table \in SUBSET Ids
    BY <1>8, <2>1, RowsHave DEF Set
  <2>3. table' \in Rows
    BY <2>2, RowsAre
  <2> QED  BY <1>6, <1>8, <2>3 DEF Set
<1>9. ASSUME NEW w \in Windows, NEW i \in Ids, Del(w, i) PROVE TypeOK'
  <2>1. table' \in [DOMAIN table \ {i} -> Row] /\ DOMAIN table \ {i} \in SUBSET Ids
    BY <1>9, RowsHave DEF Del
  <2>2. table' \in Rows
    BY <2>1, RowsAre
  <2>3. hostList' \in [Windows -> Rows]
    BY <1>9, <2>2, HelpersKeepTypes DEF Del
  <2> QED  BY <1>9, <2>2, <2>3 DEF Del
<1>10. ASSUME NEW w \in Windows, Stop(w) PROVE TypeOK'
  BY <1>10 DEF Stop, database
<1>11. ASSUME NEW w \in Windows, Start(w) PROVE TypeOK'
  <2>1. table' = table /\ nextId' = nextId
    BY <1>11 DEF Start, database
  <2>2. hostList' \in [Windows -> Rows]
    BY <1>11, <2>1, HelpersKeepTypes DEF Start
  <2>3. form' \in [Windows -> Row]
    BY <1>11, RowsOfForms DEF Start
  <2> QED  BY <1>11, <2>1, <2>2, <2>3, MaxIdAssumption DEF Start
<1> QED
  BY <1>1, <1>2, <1>3, <1>4, <1>5, <1>7, <1>8, <1>9, <1>10, <1>11 DEF Next

\* Whatever windows do, table, copies and forms hold rows of the book.
THEOREM TypeCorrect == Spec => []TypeOK
<1> QED  BY TypeOKInit, TypeOKNext, PTL DEF Spec

-----------------------------------------------------------------------------
(* One window.                                                             *)

\* The copy of a single window is the table, since nobody else changes it, and every id
\* of the table has been handed out.
CopyInv ==
  /\ \A w \in Windows : hostList[w] = table
  /\ \A i \in DOMAIN table : i < nextId

\* It holds when the first run starts.
LEMMA CopyInvInit == Init => CopyInv
<1> SUFFICES ASSUME Init PROVE CopyInv
  OBVIOUS
<1>1. PICK ids \in SUBSET (1..(nextId - 1)) : table \in [ids -> StoredRow]
  BY DEF Init
<1>2. nextId \in 1..(MaxId + 1)
  BY DEF Init
<1>3. \A i \in 1..(nextId - 1) : i < nextId
  BY <1>2, MaxIdAssumption
<1>4. \A i \in DOMAIN table : i < nextId
  BY <1>1, <1>3
<1> QED  BY <1>4 DEF Init, CopyInv

\* InitData reads the table again.
LEMMA CopyFollows ==
  ASSUME NEW window, Windows = {window}, TypeOK, NEW w \in Windows, InitData(w)
  PROVE  \A v \in Windows : hostList'[v] = table'
  BY DEF TypeOK, InitData

\* Every operation of a single window keeps it.
LEMMA CopyInvNext ==
  ASSUME NEW window, Windows = {window}, TypeOK, CopyInv, [Next]_vars
  PROVE  CopyInv'
<1> USE DEF CopyInv
<1>1. CASE UNCHANGED <<table, nextId, hostList>>
  BY <1>1
<1>2. ASSUME NEW w \in Windows, Add(w) PROVE CopyInv'
  <2>1. \A v \in Windows : hostList'[v] = table'
    BY <1>2, CopyFollows DEF Add, Saved
  <2>2. nextId \in Nat /\ DOMAIN table \subseteq Nat
    BY MaxIdAssumption, RowsHave DEF TypeOK, Ids
  <2>3. DOMAIN table' = DOMAIN table \cup {nextId} /\ nextId' = nextId + 1
    BY <1>2 DEF Add
  <2>4. \A i \in DOMAIN table' : i < nextId'
    BY <2>2, <2>3
  <2> QED  BY <2>1, <2>4
<1>3. ASSUME NEW w \in Windows, Set(w) PROVE CopyInv'
  <2>1. \A v \in Windows : hostList'[v] = table'
    BY <1>3, CopyFollows DEF Set, Saved
  <2>2. DOMAIN table' = DOMAIN table /\ nextId' = nextId
    BY <1>3 DEF Set
  <2> QED  BY <2>1, <2>2
<1>4. ASSUME NEW w \in Windows, NEW i \in Ids, Del(w, i) PROVE CopyInv'
  <2>1. \A v \in Windows : hostList'[v] = table'
    BY <1>4, CopyFollows DEF Del
  <2>2. DOMAIN table' \subseteq DOMAIN table /\ nextId' = nextId
    BY <1>4 DEF Del
  <2> QED  BY <2>1, <2>2
<1>5. ASSUME NEW w \in Windows, Start(w) PROVE CopyInv'
  <2>1. \A v \in Windows : hostList'[v] = table'
    BY <1>5, CopyFollows DEF Start
  <2> QED  BY <1>5, <2>1 DEF Start, database
<1> QED
  BY <1>1, <1>2, <1>3, <1>4, <1>5
  DEF vars, Next, ClickTab, ClickAdd, Edit, Fill, Stop, database

\* Texts that are stored as they are written leave the row as it is.
LEMMA SameTextsSameRow ==
  ASSUME NEW r \in Row, \A e \in Edits : StoredAs[r.text[e]] = r.text[e]
  PROVE  [r EXCEPT !.text = [e \in Edits |-> StoredAs[r.text[e]]]] = r
<1> DEFINE texts == [e \in Edits |-> StoredAs[r.text[e]]]
<1>1. texts = r.text
  BY DEF Row
<1> HIDE DEF texts
<1>2. [r EXCEPT !.text = texts] = r
  BY <1>1 DEF Row
<1> QED  BY <1>2 DEF texts

\* A single window changes a row only from a form the user has touched, or where a text of
\* the row is stored differently from how it is written.
LEMMA SaveKeepsUntouchedRow ==
  ASSUME NEW window, Windows = {window}, TypeOK, CopyInv, FormShowsHost, Next,
         NEW i \in DOMAIN table \cap DOMAIN table', table'[i] # table[i]
  PROVE  \/ \E w \in touched : editId[w] = i
         \/ \E e \in Edits : StoredAs[table[i].text[e]] # table[i].text[e]
<1>1. \E w \in Windows : Set(w)
  <2>1. ASSUME NEW w \in Windows, Add(w) PROVE FALSE
    <3>1. i < nextId
      BY DEF CopyInv
    <3>2. i # nextId
      BY <3>1, MaxIdAssumption DEF TypeOK
    <3> QED  BY <2>1, <3>2 DEF Add
  <2>2. ASSUME NEW w \in Windows, NEW j \in Ids, Del(w, j) PROVE FALSE
    BY <2>2 DEF Del
  <2>3. table' # table
    OBVIOUS
  <2> QED
    BY <2>1, <2>2, <2>3 DEF Next, ClickTab, ClickAdd, Edit, Fill, Stop, Start, database
<1>2. PICK w \in Windows : Set(w)
  BY <1>1
<1>3. /\ table' = [table EXCEPT ![editId[w]] = Stored(w)]
      /\ w \in running /\ tab[w] = 1 /\ editId[w] \in DOMAIN table
  BY <1>2 DEF Set, CanSave
<1>4. editId[w] = i
  BY <1>3
<1>5. CASE w \in touched
  BY <1>4, <1>5
<1>6. CASE w \notin touched
  <2>1. editId[w] # 0
    BY <1>3, RowsHave, MaxIdAssumption DEF TypeOK, Ids
  <2>2. form[w] = hostList[w][i]
    BY <1>3, <1>4, <1>6, <2>1 DEF FormShowsHost
  <2>3. form[w] = table[i] /\ table[i] \in Row
    BY <2>2, RowsHave DEF CopyInv, TypeOK
  <2>4. Stored(w) # table[i]
    BY <1>3, <1>4
  <2>5. ~ \A e \in Edits : StoredAs[table[i].text[e]] = table[i].text[e]
    BY <2>3, <2>4, SameTextsSameRow DEF Stored
  <2> QED  BY <2>5
<1> QED  BY <1>5, <1>6

\* With one window, saving a form nobody has changed leaves the row as it is, whatever was
\* done before and whatever the texts are, if SQLite reads them as they are written.
THEOREM UntouchedSavesKeepRows ==
  ASSUME NEW window, Windows = {window}
  PROVE  Spec => UntouchedSaveKeepsRow
<1> DEFINE Keeps == \A i \in DOMAIN table \cap DOMAIN table' :
             table'[i] # table[i] =>
               \/ \E w \in touched : editId[w] = i
               \/ \E e \in Edits : StoredAs[table[i].text[e]] # table[i].text[e]
<1>1. Init => CopyInv
  BY CopyInvInit
<1>2. TypeOK /\ CopyInv /\ [Next]_vars => CopyInv'
  BY CopyInvNext
<1>3. TypeOK /\ CopyInv /\ FormShowsHost /\ [Next]_vars => [Keeps]_vars
  BY SaveKeepsUntouchedRow
<1> QED
  BY <1>1, <1>2, <1>3, TypeCorrect, FormAlwaysShowsHost, PTL DEF Spec, UntouchedSaveKeepsRow
=============================================================================
