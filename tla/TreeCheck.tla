------------------------------ MODULE TreeCheck ------------------------------
(***************************************************************************)
(* The check boxes of a tree view.  A box that changes tells the view,     *)
(* which passes the change to the boxes below and lets the parent look at  *)
(* all its children; each box this changes tells the view in its turn.     *)
(***************************************************************************)
EXTENDS Naturals

CONSTANT N \* the number of nodes

\* What is taken for granted of the constants.
ConstantsAssumption == N \in Nat \ {0}

VARIABLES
  pParentTreeNode, \* 0: a root; a node comes after its parent
  checked          \* the nodes whose check box is selected

vars == <<pParentTreeNode, checked>>

NodeIds == 1..N

TypeOK ==
  /\ pParentTreeNode \in [NodeIds -> 0..(N - 1)]
  /\ \A n \in NodeIds : pParentTreeNode[n] < n
  /\ checked \subseteq NodeIds

Init ==
  /\ pParentTreeNode \in {f \in [NodeIds -> 0..(N - 1)] : \A n \in NodeIds : f[n] < n}
  /\ checked = {}

Children(n) == {m \in NodeIds : pParentTreeNode[m] = n}

\* Mutant of IsAllChildChecked: a parent is checked with its children, not unchecked.
IsAllChildCheckedOnly(c, n) ==
  {b \in {TRUE} : Children(n) # {} /\ Children(n) \subseteq c /\ n \notin c}

\* CTreeNodeUI::IsAllChildChecked: what the box of n is selected to, if anything, when
\* the boxes c are.
IsAllChildChecked(c, n) ==
  {b \in BOOLEAN :
     /\ Children(n) # {}
     /\ IF b THEN Children(n) \subseteq c /\ n \notin c
             ELSE Children(n) \cap c = {} /\ n \in c}

\* The calls for node n and state b that are made while the boxes c are selected.
\* SetItemCheckBox is called for a box that has just been given the state.
Selected(c, b, n) == [do |-> "Selected", c |-> c, b |-> b, n |-> n]
SetItemCheckBox(c, b, n) == [do |-> "SetItemCheckBox", c |-> c, b |-> b, n |-> n]

Calls ==
  {call \in [do : {"Selected", "SetItemCheckBox"}, c : SUBSET NodeIds, b : BOOLEAN, n : NodeIds] :
     call.do = "SetItemCheckBox" => (call.n \in call.c <=> call.b)}

\* The loops of SetItemCheckBox: each box of S in its turn, and once more what is below it,
\* where after[call] are the boxes selected after a call.
Told(after, c, b, S) ==
  LET told[k \in 0..N] ==
        IF k = 0 THEN c
        ELSE IF k \in S THEN after[SetItemCheckBox(after[Selected(told[k - 1], b, k)], b, k)]
        ELSE told[k - 1]
  IN told[N]

\* COptionUI::Selected of a check box, and OnCheckBoxChanged, which it calls whether the
\* box has changed or not: the boxes below are told, and the parent looks at its children.
After[call \in Calls] ==
  LET c == call.c
      b == call.b
      n == call.n
      p == pParentTreeNode[n]
  IN IF call.do = "SetItemCheckBox" THEN Told(After, c, b, Children(n))
     ELSE LET below == After[SetItemCheckBox(IF b THEN c \cup {n} ELSE c \ {n}, b, n)]
          IN IF p = 0 \/ IsAllChildChecked(below, p) = {} THEN below
             ELSE After[Selected(below, CHOOSE a \in IsAllChildChecked(below, p) : TRUE, p)]

\* The user clicks on the box of n, or the application calls CheckBoxSelected.
Toggle(n) ==
  /\ checked' = After[Selected(checked, n \notin checked, n)]
  /\ UNCHANGED pParentTreeNode

\* SetItemCheckBox of the whole view.
SetAll(b) ==
  /\ checked' = Told(After, checked, b, NodeIds)
  /\ UNCHANGED pParentTreeNode

Next == (\E n \in NodeIds : Toggle(n)) \/ (\E b \in BOOLEAN : SetAll(b))

Spec == Init /\ [][Next]_vars

-----------------------------------------------------------------------------
(* Properties.                                                             *)

\* A node and all it is below of.
Above[n \in 0..N] == IF n = 0 THEN {} ELSE {n} \cup Above[pParentTreeNode[n]]

Below(n) == {m \in NodeIds : n \in Above[m]}

\* A node all of whose children are checked is checked, and one none of whose
\* children is checked is not, at every level of the tree after every click.
ParentsFollowChildren ==
  \A n \in NodeIds :
    Children(n) # {} => /\ Children(n) \subseteq checked => n \in checked
                        /\ Children(n) \cap checked = {} => n \notin checked

\* A click gives the box and all boxes below it one state, and takes the click
\* back nowhere: boxes that change change the way the clicked one did.
ClickDecides ==
  \A n \in NodeIds :
    Toggle(n) => IF n \in checked
                 THEN Below(n) \cap checked' = {} /\ checked' \subseteq checked
                 ELSE Below(n) \subseteq checked' /\ checked \subseteq checked'

ClickDecidesBelow == [][ClickDecides]_vars
=============================================================================
