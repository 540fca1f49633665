----------------------------- MODULE Containers -----------------------------
(***************************************************************************)
(* Tables and containers of DuiLib: list and combo, option groups, tab     *)
(* layout, timer table, hash table, the tree view and its check boxes.     *)
(* They share no state, so that no interleaving of two of them can show    *)
(* what neither shows alone: a behaviour is one of one of them, the part,  *)
(* while the others stay as they were created.                             *)
(***************************************************************************)
EXTENDS ListSelection

CONSTANTS
  Options, Groups, NONE,
  Pages,
  Controls, LocalIds, Wrap, FirstId, MaxTimers,
  Keys, Data, Items, MaxBuckets,
  N,
  Nodes

VARIABLES
  part,
  m_mOptionGroup, m_sGroupName, optionsSelected, attached, aliveOptions, strays, doubled,
  pages, visiblePages, curPage, tabVisible,
  m_aTimers, m_uTimerID, windowTimers, alive, shared,
  m_nBuckets, m_nCount, m_aT, key, data, pNext, pPrev, result, walk, seen,
  pParentTreeNode, checked,
  list, mTreeNodes, parent, pTreeView, aliveNodes, removed, fault, astray

optionVars == <<m_mOptionGroup, m_sGroupName, optionsSelected, attached, aliveOptions, strays, doubled>>
tabVars == <<pages, visiblePages, curPage, tabVisible>>
timerVars == <<m_aTimers, m_uTimerID, windowTimers, alive, shared>>
hashVars == <<m_nBuckets, m_nCount, m_aT, key, data, pNext, pPrev, result, walk, seen>>
boxVars == <<pParentTreeNode, checked>>
treeVars == <<list, mTreeNodes, parent, pTreeView, aliveNodes, removed, fault, astray>>
partVars == <<vars, optionVars, tabVars, timerVars, hashVars, boxVars, treeVars>>

O == INSTANCE OptionGroups WITH m_bSelected <- optionsSelected, alive <- aliveOptions
Tab == INSTANCE TabPages WITH m_items <- pages, m_bVisible <- visiblePages, m_iCurSel <- curPage
T == INSTANCE Timers
Hash == INSTANCE StringPtrMap
Boxes == INSTANCE TreeCheck
Tree == INSTANCE TreeView WITH pParentTreeNode <- parent, alive <- aliveNodes

ASSUME ContainersAssumption ==
  /\ O!ConstantsAssumption /\ T!ConstantsAssumption
  /\ Hash!ConstantsAssumption /\ Boxes!ConstantsAssumption /\ Tree!ConstantsAssumption

Parts == {"list", "options", "tab", "tabBehind", "timers", "hash", "boxes", "tree"}

\* Each part as it was created; only its own behaviours begin with another choice.
PartsInit ==
  /\ part \in Parts
  /\ Init /\ O!Init /\ Tab!Init /\ T!Init /\ Hash!Init /\ Boxes!Init /\ Tree!Init
  /\ part = "list" \/ (~isCombo /\ m_bEnabled = Elements)
  /\ part \in {"tab", "tabBehind"} \/ tabVisible
  /\ part = "boxes" \/ \A n \in 1..N : pParentTreeNode[n] = 0

PartsNext ==
  \/ /\ part = "list" /\ Next
     /\ UNCHANGED <<part, optionVars, tabVars, timerVars, hashVars, boxVars, treeVars>>
  \/ /\ part = "options" /\ O!Next
     /\ UNCHANGED <<part, vars, tabVars, timerVars, hashVars, boxVars, treeVars>>
  \/ /\ part = "tab" /\ Tab!Next
     /\ UNCHANGED <<part, vars, optionVars, timerVars, hashVars, boxVars, treeVars>>
  \/ /\ part = "tabBehind" /\ Tab!NextBehind
     /\ UNCHANGED <<part, vars, optionVars, timerVars, hashVars, boxVars, treeVars>>
  \/ /\ part = "timers" /\ T!Next
     /\ UNCHANGED <<part, vars, optionVars, tabVars, hashVars, boxVars, treeVars>>
  \/ /\ part = "hash" /\ Hash!Next
     /\ UNCHANGED <<part, vars, optionVars, tabVars, timerVars, boxVars, treeVars>>
  \/ /\ part = "boxes" /\ Boxes!Next
     /\ UNCHANGED <<part, vars, optionVars, tabVars, timerVars, hashVars, treeVars>>
  \/ /\ part = "tree" /\ Tree!Next
     /\ UNCHANGED <<part, vars, optionVars, tabVars, timerVars, hashVars, boxVars>>

PartsSpec == PartsInit /\ [][PartsNext]_<<part, partVars>>

-----------------------------------------------------------------------------
(* The properties of the parts, under names of their own.                  *)

\* Each variable of the tables and containers keeps its type.
TypesOK == TypeOK /\ O!TypeOK /\ Tab!TypeOK /\ T!TypeOK /\ Hash!TypeOK /\ Boxes!TypeOK /\ Tree!TypeOK

\* UIOption.cpp: the members of a group are just the options of the window with its name and
\* those that dropped it by SetGroup(NULL), and no two of them are selected, unless one of
\* them was selected when it was put into the window and none has been selected since.
GroupsMatch == O!MembersMatch /\ O!OneSelected

\* UITabLayout.cpp: the page at m_iCurSel stays the same one, at whatever index, and is shown
\* after each step; the others are not, if none that is visible is inserted before it
\* ("tabBehind").
PageStaysCurrent ==
  [][ /\ Tab!CurrentShown'
      /\ Tab!StaysCurrent
      /\ part = "tabBehind" => Tab!OnlyCurrentShown' ]_<<part, tabVars>>

\* UIManager.cpp, the timers: a destroyed control has no entry and gets no tick, until an id
\* is given out twice each timer has the ticks of one window timer, and none has the caret's.
TicksReachTheirOwner == T!NoTickAfterDeath /\ T!OwnTicks /\ T!CaretTimerIsFree

\* Utils.cpp, CStdStringPtrMap: the links back mirror the links on, m_nCount counts the items
\* they lead to, and a loop over GetAt that searches as it goes meets every key.
TableIntact == Hash!LinksMirror /\ Hash!CountsItems /\ Hash!WalkSeesAll

\* Utils.cpp, CStdStringPtrMap: the hash table is a map from texts to pointers.
ImplementsMap == Hash!ImplementsMap

\* UITreeView.cpp, the check boxes: after each step a parent is checked when all its children
\* are and not when none is, and a click decides everything below it.
BoxesAgree == [][Boxes!ParentsFollowChildren' /\ Boxes!ClickDecides]_<<part, boxVars>>

\* UITreeView.cpp: the list shows the tree in order, until a last child is inserted by its index
\* behind children that have children or a node of the view is given one that has children; a
\* removed node is gone with all below it, and none that exists knows a destroyed one, until
\* the view itself removes a node that is no root or has several children; and whatever is
\* removed in whatever way, no other node goes.
TreeIntact ==
  Tree!ListIsPreorder /\ Tree!RemovedIsGone /\ Tree!NobodyKeepsTheDead /\ Tree!OthersStay
=============================================================================
