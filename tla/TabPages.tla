------------------------------ MODULE TabPages ------------------------------
(***************************************************************************)
(* CTabLayoutUI: its pages, which of them are visible, and the index of    *)
(* the current one, which is the only page that gets the tab's rectangle.  *)
(* The pages change through the methods of the tab layout; RemoveAt and    *)
(* SetItemIndex, which it inherits and which leave m_iCurSel alone, are    *)
(* not called.                                                             *)
(***************************************************************************)
EXTENDS Integers, Sequences

CONSTANT Pages  \* pages; one that is removed may come back as a new one

SX == INSTANCE SequencesExt

VARIABLES
  m_items,
  m_bVisible, \* the pages with m_bVisible
  m_iCurSel,
  tabVisible  \* IsVisible() of the tab layout, which its pages take over

vars == <<m_items, m_bVisible, m_iCurSel, tabVisible>>

In == {m_items[k] : k \in DOMAIN m_items}
ItemAt(i) == m_items[i + 1] \* GetItemAt
IsVisible(p) == p \in m_bVisible /\ tabVisible

TypeOK ==
  /\ m_items \in Seq(Pages)
  /\ m_bVisible \subseteq Pages
  /\ m_iCurSel \in -1..(Len(m_items) - 1)
  /\ tabVisible \in BOOLEAN

Init ==
  /\ m_items = <<>> /\ m_bVisible = Pages
  /\ m_iCurSel = -1
  /\ tabVisible \in BOOLEAN

\* The markup or the application hides a page, or shows it again, before it is added.
Prepare(p) ==
  /\ p \notin In
  /\ m_bVisible' = (m_bVisible \ {p}) \cup ({p} \ m_bVisible)
  /\ UNCHANGED <<m_items, m_iCurSel, tabVisible>>

Add(p) ==
  /\ p \notin In
  /\ m_items' = Append(m_items, p)
  /\ IF m_iCurSel = -1 /\ IsVisible(p)
     THEN m_iCurSel' = Len(m_items) /\ UNCHANGED m_bVisible
     ELSE m_bVisible' = m_bVisible \ {p} /\ UNCHANGED m_iCurSel
  /\ UNCHANGED tabVisible

\* Mutant of AddAt: a page that takes the place of the current one becomes current.
AddAtBefore(p, i) ==
  /\ p \notin In
  /\ m_items' = SX!InsertAt(m_items, i + 1, p)
  /\ CASE m_iCurSel = -1 /\ IsVisible(p) -> m_iCurSel' = i /\ UNCHANGED m_bVisible
       [] m_iCurSel # -1 /\ i < m_iCurSel -> m_iCurSel' = m_iCurSel + 1 /\ UNCHANGED m_bVisible
       [] OTHER -> m_bVisible' = m_bVisible \ {p} /\ UNCHANGED m_iCurSel
  /\ UNCHANGED tabVisible

\* Behind the last page it is Add of the container.
AddAt(p, i) ==
  /\ p \notin In
  /\ m_items' = SX!InsertAt(m_items, i + 1, p)
  /\ CASE m_iCurSel = -1 /\ IsVisible(p) -> m_iCurSel' = i /\ UNCHANGED m_bVisible
       [] m_iCurSel # -1 /\ i <= m_iCurSel -> m_iCurSel' = m_iCurSel + 1 /\ UNCHANGED m_bVisible
       [] OTHER -> m_bVisible' = m_bVisible \ {p} /\ UNCHANGED m_iCurSel
  /\ UNCHANGED tabVisible

\* The first page follows a current one.  The page that is destroyed comes back visible.
Remove(p) ==
  /\ p \in In
  /\ LET i == (CHOOSE k \in DOMAIN m_items : m_items[k] = p) - 1
         rest == SX!RemoveAt(m_items, i + 1)
     IN /\ m_items' = rest
        /\ m_iCurSel' = IF m_iCurSel = i THEN (IF rest = <<>> THEN -1 ELSE 0)
                        ELSE IF m_iCurSel > i THEN m_iCurSel - 1 ELSE m_iCurSel
        /\ m_bVisible' = m_bVisible \cup {p}
             \cup (IF m_iCurSel = i /\ rest # <<>> THEN {rest[1]} ELSE {})
  /\ UNCHANGED tabVisible

RemoveAll ==
  /\ m_items' = <<>> /\ m_iCurSel' = -1
  /\ m_bVisible' = m_bVisible \cup In
  /\ UNCHANGED tabVisible

\* Every other page is hidden; of the current index nothing is done.
SelectItem(i) ==
  /\ i \in 0..(Len(m_items) - 1) /\ i # m_iCurSel
  /\ m_iCurSel' = i
  /\ m_bVisible' = (m_bVisible \ In) \cup {ItemAt(i)}
  /\ UNCHANGED <<m_items, tabVisible>>

\* The tab layout is shown or hidden with all its pages.
SetVisible ==
  /\ tabVisible' = ~tabVisible
  /\ UNCHANGED <<m_items, m_bVisible, m_iCurSel>>

Others ==
  \/ \E p \in Pages : Prepare(p) \/ Add(p) \/ Remove(p)
  \/ \E i \in 0..(Len(m_items) - 1) : SelectItem(i)
  \/ RemoveAll \/ SetVisible

Next == Others \/ \E p \in Pages : \E i \in 0..Len(m_items) : AddAt(p, i)

\* No visible page is inserted before the current one.
NextBehind ==
  \/ Others
  \/ \E p \in Pages : \E i \in 0..Len(m_items) :
       (i > m_iCurSel \/ p \notin m_bVisible) /\ AddAt(p, i)

Spec == Init /\ [][Next]_vars

-----------------------------------------------------------------------------
\* The page at m_iCurSel, the one that is laid out, is not hidden, whatever was inserted,
\* removed or hidden with the tab before.
CurrentShown == m_iCurSel # -1 => ItemAt(m_iCurSel) \in m_bVisible

\* No page is drawn under the current one: the others are hidden.
OnlyCurrentShown == \A k \in DOMAIN m_items : m_items[k] \in m_bVisible => k - 1 = m_iCurSel

\* The same page stays current, at whatever index, until it is removed or another page is
\* selected (a step that changes the index alone).
StaysCurrent ==
  m_iCurSel # -1 /\ m_items' # m_items /\ ItemAt(m_iCurSel) \in {m_items'[k] : k \in DOMAIN m_items'}
    => m_iCurSel' # -1 /\ m_items'[m_iCurSel' + 1] = ItemAt(m_iCurSel)

SelectionFollows == [][StaysCurrent]_vars
=============================================================================
