--------------------------- MODULE ListSelection ----------------------------
(***************************************************************************)
(* The items of a CListUI or of a CComboUI.  Each item keeps its index in  *)
(* the list, because a click tells the list only this index; the list      *)
(* keeps the index of the current item.  Both must follow every insertion, *)
(* removal, move and sort.                                                 *)
(***************************************************************************)
EXTENDS Integers, Sequences, SequencesExt

CONSTANTS
  Elements,    \* list elements; one that is destroyed may come back as a new one
  Disablable,  \* those the application enables and disables while they live
  NULL

ASSUME NullAssumption == NULL \notin Elements
ASSUME DisablableAssumption == Disablable \subseteq Elements

VARIABLES
  isCombo,     \* the owner is a CComboUI
  m_items,
  m_iIndex,    \* of each element
  m_bSelected, \* those with m_bSelected
  m_bEnabled,
  m_bVisible,
  m_iCurSel,
  lost         \* history: an item was moved past the end and left the list, unnoticed since

vars == <<isCombo, m_items, m_iIndex, m_bSelected, m_bEnabled, m_bVisible, m_iCurSel, lost>>

In == {m_items[k] : k \in DOMAIN m_items}

TypeOK ==
  /\ isCombo \in BOOLEAN
  /\ m_items \in Seq(Elements)
  /\ m_iIndex \in [Elements -> Int]
  /\ m_bSelected \subseteq Elements
  /\ m_bEnabled \subseteq Elements
  /\ m_bVisible \subseteq Elements
  /\ m_iCurSel \in -1..Len(m_items)
  /\ lost \in BOOLEAN
  /\ ~lost => m_iCurSel < Len(m_items)

Init ==
  /\ isCombo \in BOOLEAN
  /\ m_items = <<>>
  /\ m_iIndex = [e \in Elements |-> -1]
  /\ m_bSelected = {}
  /\ m_bEnabled \in SUBSET Elements
  /\ m_bVisible = Elements
  /\ m_iCurSel = -1
  /\ lost = FALSE

\* SetIndex(i) of the items from index p to index q.
Numbered(items, p, q) ==
  [e \in Elements |->
     IF \E i \in p..q : items[i + 1] = e
     THEN CHOOSE i \in p..q : items[i + 1] = e ELSE m_iIndex[e]]

\* Select(false) of the current item, which a disabled item refuses.
Unselected(items, sel, cur) ==
  IF cur < 0 \/ cur >= Len(items) THEN sel ELSE sel \ ({items[cur + 1]} \cap m_bEnabled)

\* The item SelectItem(i) aims at: a combo takes its last one for an index too large.
Target(items, i) ==
  LET j == IF isCombo /\ i >= Len(items) THEN Len(items) - 1 ELSE i
  IN IF i >= 0 /\ j \in 0..(Len(items) - 1) /\ items[j + 1] \in m_bEnabled
     THEN j ELSE -1

\* SelectItem(i): the new m_bSelected and m_iCurSel.  The item's Select(true) calls
\* SelectItem(m_iIndex) once more, which is i.
SelectItem(i, items, sel, cur) ==
  LET j == Target(items, i)
      rest == Unselected(items, sel, cur)
  IN IF i = cur THEN <<sel, cur>>
     ELSE <<IF j = -1 THEN rest ELSE rest \cup {items[j + 1]}, j>>

\* FindSelectable(i, false): the nearest one downwards, else the first one.
FindSelectable(i, items) ==
  LET good == {k \in 0..(Len(items) - 1) : items[k + 1] \in m_bEnabled \cap m_bVisible}
      below == {k \in good : k <= i}
  IN IF good = {} THEN -1
     ELSE IF below # {} THEN CHOOSE k \in below : \A l \in below : l <= k
     ELSE CHOOSE k \in good : \A l \in good : k <= l

Selects(i, items, sel, cur) ==
  LET s == SelectItem(i, items, sel, cur)
  IN m_bSelected' = s[1] /\ m_iCurSel' = s[2]

Add(e) ==
  /\ e \notin In
  /\ m_items' = Append(m_items, e)
  /\ m_iIndex' = [m_iIndex EXCEPT ![e] = Len(m_items)]
  /\ UNCHANGED <<isCombo, m_bSelected, m_bEnabled, m_bVisible, m_iCurSel, lost>>

\* Mutant of AddAt: the new item gets its index, those behind it keep theirs.
AddAtNumbersOne(e, i) ==
  /\ e \notin In
  /\ m_items' = InsertAt(m_items, i + 1, e)
  /\ m_iIndex' = Numbered(m_items', i, i)
  /\ m_iCurSel' = IF m_iCurSel >= i THEN m_iCurSel + 1 ELSE m_iCurSel
  /\ UNCHANGED <<isCombo, m_bSelected, m_bEnabled, m_bVisible, lost>>

\* Mutant of AddAt: an item inserted at the current index does not push it on.
AddAtBehind(e, i) ==
  /\ e \notin In
  /\ m_items' = InsertAt(m_items, i + 1, e)
  /\ m_iIndex' = Numbered(m_items', i, Len(m_items))
  /\ m_iCurSel' = IF m_iCurSel > i THEN m_iCurSel + 1 ELSE m_iCurSel
  /\ UNCHANGED <<isCombo, m_bSelected, m_bEnabled, m_bVisible, lost>>

AddAt(e, i) ==
  /\ e \notin In
  /\ m_items' = InsertAt(m_items, i + 1, e)
  /\ m_iIndex' = Numbered(m_items', i, Len(m_items))
  /\ m_iCurSel' = IF m_iCurSel >= i THEN m_iCurSel + 1 ELSE m_iCurSel
  /\ UNCHANGED <<isCombo, m_bSelected, m_bEnabled, m_bVisible, lost>>

\* Mutant of RemoveItem: the next item becomes current without being selected.
RemoveItemStays(p) ==
  LET e == m_items[p + 1]
  IN /\ m_items' = RemoveAt(m_items, p + 1)
     /\ m_iIndex' = [Numbered(m_items', p, Len(m_items) - 2) EXCEPT ![e] = -1]
     /\ m_bSelected' = m_bSelected \ {e}
     /\ m_iCurSel' = IF p < m_iCurSel \/ m_iCurSel = Len(m_items) - 1
                     THEN m_iCurSel - 1 ELSE m_iCurSel
     /\ UNCHANGED <<isCombo, m_bEnabled, m_bVisible, lost>>

\* Remove and RemoveAt: the item is destroyed.  If it was the current one a
\* neighbour takes its place.
RemoveItem(p) ==
  LET e == m_items[p + 1]
      sel == m_bSelected \ {e}
  IN /\ m_items' = RemoveAt(m_items, p + 1)
     /\ m_iIndex' = [Numbered(m_items', p, Len(m_items) - 2) EXCEPT ![e] = -1]
     /\ IF p = m_iCurSel
        THEN Selects(FindSelectable(p, m_items'), m_items', sel, -1)
        ELSE /\ m_bSelected' = sel
             /\ m_iCurSel' = IF p < m_iCurSel THEN m_iCurSel - 1 ELSE m_iCurSel
     /\ UNCHANGED <<isCombo, m_bEnabled, m_bVisible, lost>>

\* Mutant of RemoveAll: the current index survives the items.
RemoveAllButCurrent ==
  /\ m_items' = <<>>
  /\ m_iIndex' = [e \in Elements |-> IF e \in In THEN -1 ELSE m_iIndex[e]]
  /\ m_bSelected' = m_bSelected \ In
  /\ lost' = FALSE
  /\ UNCHANGED <<isCombo, m_bEnabled, m_bVisible, m_iCurSel>>

RemoveAll ==
  /\ m_items' = <<>>
  /\ m_iIndex' = [e \in Elements |-> IF e \in In THEN -1 ELSE m_iIndex[e]]
  /\ m_bSelected' = m_bSelected \ In
  /\ m_iCurSel' = -1
  /\ lost' = FALSE
  /\ UNCHANGED <<isCombo, m_bEnabled, m_bVisible>>

Lower(p, q) == IF p < q THEN p ELSE q
Upper(p, q) == IF p < q THEN q ELSE p

\* SetItemIndex(p's item, q) with another index q of the list.
SetItemIndex(p, q) ==
  /\ p # q
  /\ m_items' = InsertAt(RemoveAt(m_items, p + 1), q + 1, m_items[p + 1])
  /\ m_iIndex' = Numbered(m_items', Lower(p, q), Upper(p, q))
  /\ m_iCurSel' = IF m_iCurSel >= 0 THEN m_iIndex'[m_items[m_iCurSel + 1]] ELSE m_iCurSel
  /\ UNCHANGED <<isCombo, m_bSelected, m_bEnabled, m_bVisible, lost>>

\* SetItemIndex(p's item, q) with any other q: the item is taken out, the insertion
\* fails, and the call returns false with nothing renumbered and nothing destroyed.
SetItemIndexOutside(p) ==
  /\ m_items' = RemoveAt(m_items, p + 1)
  /\ lost' = TRUE
  /\ UNCHANGED <<isCombo, m_iIndex, m_bSelected, m_bEnabled, m_bVisible, m_iCurSel>>

\* SortItems of a list by any order: nothing is current afterwards.
SortItems(f) ==
  /\ ~isCombo
  /\ m_items' = [k \in DOMAIN m_items |-> m_items[f[k]]]
  /\ m_iIndex' = Numbered(m_items', 0, Len(m_items) - 1)
  /\ Selects(-1, m_items', m_bSelected \ (In \cap m_bEnabled), m_iCurSel)
  /\ lost' = FALSE
  /\ UNCHANGED <<isCombo, m_bEnabled, m_bVisible>>

\* SelectItem by the application or the keyboard.
SelectIndex(i) ==
  /\ Selects(i, m_items, m_bSelected, m_iCurSel)
  /\ UNCHANGED <<isCombo, m_items, m_iIndex, m_bEnabled, m_bVisible, lost>>

\* Select(true) of an element: a click on it.
Select(e) ==
  /\ e \in In \cap m_bEnabled /\ e \notin m_bSelected
  /\ Selects(m_iIndex[e], m_items, m_bSelected \cup {e}, m_iCurSel)
  /\ UNCHANGED <<isCombo, m_items, m_iIndex, m_bEnabled, m_bVisible, lost>>

SetEnabled(e) ==
  /\ e \in Disablable
  /\ m_bEnabled' = IF e \in m_bEnabled THEN m_bEnabled \ {e} ELSE m_bEnabled \cup {e}
  /\ UNCHANGED <<isCombo, m_items, m_iIndex, m_bSelected, m_bVisible, m_iCurSel, lost>>

\* SetVisible(b) of an element of a list that is shown: one that is hidden then and
\* selected leaves the list without a current item, also when it was hidden before.
SetVisible(e, b) ==
  /\ m_bVisible' = IF b THEN m_bVisible \cup {e} ELSE m_bVisible \ {e}
  /\ IF ~b /\ e \in m_bSelected
     THEN Selects(-1, m_items, m_bSelected \ {e}, m_iCurSel)
     ELSE UNCHANGED <<m_bSelected, m_iCurSel>>
  /\ UNCHANGED <<isCombo, m_items, m_iIndex, m_bEnabled, lost>>

Positions == 0..(Len(m_items) - 1)
Orders == Bijection(DOMAIN m_items, DOMAIN m_items)

\* Once an item is lost the model follows only what numbers or empties the whole list.
Next ==
  \/ /\ ~lost
     /\ \/ \E e \in Elements :
             \/ Add(e) \/ Select(e) \/ SetEnabled(e)
             \/ \E b \in BOOLEAN : SetVisible(e, b)
             \/ \E i \in 0..Len(m_items) : AddAt(e, i)
        \/ \E p \in Positions :
             \/ RemoveItem(p) \/ SetItemIndexOutside(p)
             \/ \E q \in Positions : SetItemIndex(p, q)
        \/ \E i \in -1..Len(m_items) : SelectIndex(i)
  \/ \E f \in Orders : SortItems(f)
  \/ RemoveAll

Spec == Init /\ [][Next]_vars

-----------------------------------------------------------------------------
(* Properties.                                                             *)

Current == IF m_iCurSel \in Positions THEN m_items[m_iCurSel + 1] ELSE NULL

\* The index an item tells its list when it is clicked is the one it has there, after any
\* number of insertions, removals, moves and sorts; not after a move to an index outside the
\* list (SetItemIndex), until the next sort or RemoveAll.
IndicesFollow == lost \/ \A k \in DOMAIN m_items : m_iIndex[m_items[k]] = k - 1

\* The current item is drawn as selected, and a removal leaves a current item only where
\* that one was told so; with the same exception.
CurrentIsSelected == ~lost /\ m_iCurSel >= 0 => Current \in m_bSelected

\* Whatever is inserted, removed or moved within the list, the current item that stays in it
\* stays the current one; a sort alone gives it up, with every other selection of the list.
StaysCurrent ==
  ~lost' /\ m_items' # m_items /\ Current # NULL /\ Current \in In'
    => \/ Current' = Current
       \/ /\ ~isCombo /\ In' = In
          /\ Current' = NULL /\ m_bSelected' \cap m_bEnabled \cap In = {}

SelectionFollows == [][StaysCurrent]_vars
=============================================================================
