------------------------------ MODULE TreeView ------------------------------
(***************************************************************************)
(* CTreeViewUI and CTreeNodeUI.  A tree view is a flat list of nodes; the  *)
(* tree is in the nodes, each with its children and its parent.  The list  *)
(* must show the tree in order, and no node may keep a destroyed one.      *)
(***************************************************************************)
EXTENDS Integers, Sequences, SequencesExt

CONSTANTS
  Nodes,
  NULL

\* What is taken for granted of the constants.
ConstantsAssumption == NULL \notin Nodes

VARIABLES
  list,            \* the items of the CListUI
  mTreeNodes,      \* the children of each node
  pParentTreeNode,
  pTreeView,       \* the nodes that know their view
  alive,
  removed,         \* history: the nodes told to be removed, with all below them
  fault,           \* a method was called on a NULL node
  astray           \* history: the last call that left the tree and its list apart

vars == <<list, mTreeNodes, pParentTreeNode, pTreeView, alive, removed, fault, astray>>
tree == <<list, mTreeNodes, alive>>

Elems(s) == {s[k] : k \in DOMAIN s}

\* What f has for the elements of s, one sequence behind the other.
Spread(s, f) == FlattenSeq([k \in DOMAIN s |-> f[s[k]]])

Without(s, X) == Spread(s, [x \in Nodes |-> IF x \in X THEN <<>> ELSE <<x>>])

\* "tail": a last child was inserted by its index behind children that have children; "branch":
\* a node with children was given to a node of the view; "view": the view was to remove a node
\* that is no root, or a root it only removes in part.
Astray == {"no", "tail", "branch", "view"}

\* No node is a child twice, and no nodes are below each other in a ring.
IsForest(kids) ==
  /\ \A p \in Nodes : \A i, j \in DOMAIN kids[p] : kids[p][i] = kids[p][j] => i = j
  /\ \A p, q \in Nodes : p # q => Elems(kids[p]) \cap Elems(kids[q]) = {}
  /\ \A S \in SUBSET Nodes : S # {} => \E n \in S : Elems(kids[n]) \cap S = {}

TypeOK ==
  /\ list \in Seq(Nodes)
  /\ mTreeNodes \in [Nodes -> Seq(Nodes)]
  /\ pParentTreeNode \in [Nodes -> Nodes \cup {NULL}]
  /\ pTreeView \subseteq Nodes /\ alive \subseteq Nodes /\ removed \subseteq Nodes
  /\ Elems(list) \subseteq alive
  /\ fault \in BOOLEAN /\ astray \in Astray

Init ==
  /\ list = <<>>
  /\ mTreeNodes = [n \in Nodes |-> <<>>]
  /\ pParentTreeNode = [n \in Nodes |-> NULL]
  /\ pTreeView = {} /\ alive = Nodes /\ removed = {}
  /\ fault = FALSE /\ astray = "no"

Preorder(n) ==
  LET from[m \in Nodes] == <<m>> \o Spread(mTreeNodes[m], from)
  IN from[n]

Subtree(n) == Elems(Preorder(n))

GetTreeIndex(n) == IF n \in Elems(list) THEN (CHOOSE k \in DOMAIN list : list[k] = n) - 1 ELSE -1

\* Mutant of GetLastNode: the last child instead of the last node below it.
GetLastNodeShallow(n) == IF mTreeNodes[n] = <<>> THEN n ELSE Last(mTreeNodes[n])

GetLastNode(n) ==
  LET last[m \in Nodes] == IF mTreeNodes[m] = <<>> THEN m ELSE last[Last(mTreeNodes[m])]
  IN last[n]

\* A node the application has created and not yet put into a tree.
New(n) == n \in alive /\ pParentTreeNode[n] = NULL /\ n \notin Elems(list)

\* CTreeViewUI::AddAt: a node comes with its first child, the first child of that, and so on.
FirstLine(n) ==
  LET line[m \in Nodes] ==
        IF mTreeNodes[m] = <<>> THEN <<m>> ELSE <<m>> \o line[Head(mTreeNodes[m])]
  IN line[n]

AddedAt(n, i) ==
  IF mTreeNodes[n] = <<>> THEN InsertAt(list, i + 1, n)
  ELSE SubSeq(list, 1, i) \o FirstLine(n) \o SubSeq(list, i + 1, Len(list))

\* CalLocation of n under p, which a shown p has put into the list at index i.
Placed(p, n, i) ==
  /\ pParentTreeNode' = [pParentTreeNode EXCEPT ![n] = p]
  /\ IF p \in pTreeView
     THEN pTreeView' = pTreeView \cup {n} /\ list' = AddedAt(n, i)
     ELSE UNCHANGED <<pTreeView, list>>
  /\ UNCHANGED <<alive, removed, fault>>

MayTake(p, n) == p \in alive /\ New(n) /\ p \notin Subtree(n)

\* A shown p takes n with no more of the nodes below it than the first line.
TakesBranch(p, n) == p \in pTreeView /\ mTreeNodes[n] # <<>>

AddChildNode(p, n) ==
  /\ MayTake(p, n)
  /\ Placed(p, n, GetTreeIndex(GetLastNode(p)) + 1)
  /\ mTreeNodes' = [mTreeNodes EXCEPT ![p] = Append(@, n)]
  /\ astray' = IF TakesBranch(p, n) THEN "branch" ELSE astray

\* AddAt before the child with index i.
AddBefore(p, n, i) ==
  /\ MayTake(p, n)
  /\ Placed(p, n, GetTreeIndex(mTreeNodes[p][i + 1]))
  /\ mTreeNodes' = [mTreeNodes EXCEPT ![p] = InsertAt(@, i + 1, n)]
  /\ astray' = IF TakesBranch(p, n) THEN "branch" ELSE astray

OnlyLeaves(p) == \A c \in Elems(mTreeNodes[p]) : mTreeNodes[c] = <<>>

\* AddAt behind the last child.  The search takes the last child if it lies within
\* as many places of p as there are children; its next step reads past the children.
AddTail(p, n) ==
  LET c == Len(mTreeNodes[p])
      last == GetTreeIndex(Last(mTreeNodes[p]))
  IN /\ MayTake(p, n)
     /\ IF p \in pTreeView /\ c > 0 /\ last > GetTreeIndex(p) + c
        THEN fault' = TRUE /\ UNCHANGED <<tree, pParentTreeNode, pTreeView, removed>>
        ELSE /\ Placed(p, n, IF c = 0 THEN GetTreeIndex(p) + 1 ELSE last + 1)
             /\ mTreeNodes' = [mTreeNodes EXCEPT ![p] = Append(@, n)]
     /\ astray' = IF TakesBranch(p, n) THEN "branch"
                  ELSE IF p \in pTreeView /\ ~OnlyLeaves(p) THEN "tail" ELSE astray

\* CTreeViewUI::Add of a root with all below it.
Add(n) ==
  /\ New(n)
  /\ list' = list \o Preorder(n)
  /\ pTreeView' = pTreeView \cup Subtree(n)
  /\ UNCHANGED <<mTreeNodes, pParentTreeNode, alive, removed, fault, astray>>

\* CListUI::Remove: the item is destroyed.
Dropped(s, n) ==
  IF n \notin Elems(s.list) THEN s
  ELSE [s EXCEPT !.list = Without(@, {n}), !.alive = @ \ {n}]

States ==
  {s \in [list : Seq(Nodes), kids : [Nodes -> Seq(Nodes)], alive : SUBSET Nodes] : IsForest(s.kids)}

\* The calls that remove, in the state s: CTreeNodeUI::RemoveAt, and Remove, of the child n
\* of p; the loop in it, for the children of n; CTreeViewUI::Remove of n.
NodeRemoveAt(s, p, n) == [do |-> "NodeRemoveAt", s |-> s, p |-> p, n |-> n]
Emptied(s, n) == [do |-> "Emptied", s |-> s, p |-> n, n |-> n]
ViewRemove(s, n) == [do |-> "ViewRemove", s |-> s, p |-> n, n |-> n]

Calls == [do : {"NodeRemoveAt", "Emptied", "ViewRemove"}, s : States, p : Nodes, n : Nodes]

\* What the calls come to, where after[call] is the state after each: the child and all below
\* it; the first child until none is left; the child at each index up to the first
\* count, each from what the earlier ones have left, and then the node.
AfterRemoveAt(after, s, p, n) ==
  IF n \notin Elems(s.kids[p]) THEN s
  ELSE LET t == [after[Emptied(s, n)] EXCEPT !.kids[p] = Without(@, {n})]
       IN IF p \in pTreeView THEN after[ViewRemove(t, n)] ELSE t

AfterEmptied(after, s, n) ==
  IF s.kids[n] = <<>> THEN s
  ELSE after[Emptied(after[NodeRemoveAt(s, n, Head(s.kids[n]))], n)]

AfterViewRemove(after, s, n) ==
  LET each[k \in 0..Len(s.kids[n])] ==
        IF k = 0 THEN s
        ELSE LET t == each[k - 1]
             IN IF k <= Len(t.kids[n]) THEN after[NodeRemoveAt(t, n, t.kids[n][k])] ELSE t
  IN Dropped(each[Len(s.kids[n])], n)

After[call \in Calls] ==
  CASE call.do = "NodeRemoveAt" -> AfterRemoveAt(After, call.s, call.p, call.n)
    [] call.do = "Emptied" -> AfterEmptied(After, call.s, call.n)
    [] call.do = "ViewRemove" -> AfterViewRemove(After, call.s, call.n)

Becomes(s) == list' = s.list /\ mTreeNodes' = s.kids /\ alive' = s.alive

Now == [list |-> list, kids |-> mTreeNodes, alive |-> alive]

\* The application removes a child from its node, ...
RemoveChild(p, n) ==
  /\ p \in alive /\ n \in Elems(mTreeNodes[p])
  /\ Becomes(After[NodeRemoveAt(Now, p, n)])
  /\ removed' = IF p \in pTreeView THEN removed \cup Subtree(n) ELSE removed
  /\ UNCHANGED <<pParentTreeNode, pTreeView, fault, astray>>

\* ... a node from the view, which does not tell its parent and passes over every second child, ...
RemoveNode(n) ==
  /\ n \in Elems(list)
  /\ Becomes(After[ViewRemove(Now, n)])
  /\ removed' = removed \cup Subtree(n)
  /\ astray' = IF pParentTreeNode[n] = NULL /\ Len(mTreeNodes[n]) <= 1 THEN astray ELSE "view"
  /\ UNCHANGED <<pParentTreeNode, pTreeView, fault>>

\* ... or the node at an index of the view, which only happens if it has children.
RemoveIndex(i) ==
  LET n == list[i + 1]
  IN /\ Becomes(IF mTreeNodes[n] = <<>> THEN Now ELSE After[ViewRemove(Now, n)])
     /\ removed' = removed \cup Subtree(n)
     /\ astray' = IF pParentTreeNode[n] = NULL /\ Len(mTreeNodes[n]) = 1 THEN astray ELSE "view"
     /\ UNCHANGED <<pParentTreeNode, pTreeView, fault>>

RemoveAll ==
  /\ list' = <<>>
  /\ alive' = alive \ Elems(list)
  /\ removed' = removed \cup Elems(list)
  /\ UNCHANGED <<mTreeNodes, pParentTreeNode, pTreeView, fault, astray>>

\* After a call on NULL, and once nodes lack their view or point to destroyed ones, nothing
\* more is followed.
Next ==
  /\ ~fault /\ astray \in {"no", "tail"}
  /\ \/ \E n \in Nodes :
          \/ Add(n) \/ RemoveNode(n)
          \/ \E p \in Nodes :
               \/ AddChildNode(p, n) \/ AddTail(p, n) \/ RemoveChild(p, n)
               \/ \E i \in 0..(Len(mTreeNodes[p]) - 1) : AddBefore(p, n, i)
     \/ \E i \in 0..(Len(list) - 1) : RemoveIndex(i)
     \/ RemoveAll

Spec == Init /\ [][Next]_vars

-----------------------------------------------------------------------------
(* Properties.                                                             *)

Roots == Without(list, {n \in Nodes : pParentTreeNode[n] # NULL})

\* The list shows each root with all below it, every node behind its parent and before the
\* next sibling of that: the tree in order, whatever was put in or out.  An insertion finds
\* its place.  Not so after a call that leads astray.
ListIsPreorder ==
  astray = "no" => ~fault /\ list = Spread(Roots, [n \in Nodes |-> Preorder(n)])

\* No node that exists has a destroyed child, and no node of the list a destroyed parent:
\* the check boxes and GetNodeIndex follow both.  CTreeViewUI::Remove and RemoveAt see to it
\* for roots with one child.
NobodyKeepsTheDead ==
  astray # "view" =>
    /\ \A n \in alive : Elems(mTreeNodes[n]) \subseteq alive
    /\ \A n \in Elems(list) : pParentTreeNode[n] \in alive \cup {NULL}

\* The comments of CTreeViewUI::Remove and RemoveAt (lines 748 and 771): the node and all
\* nodes below it are removed.  They do so for roots with one child, Remove with none too.
RemovedIsGone == astray # "view" => removed \cap Elems(list) = {}

\* Nothing else is destroyed or leaves the list: not even a removal that does too little, or
\* tells too few, does too much.
OthersStay == Nodes \ alive \subseteq removed /\ alive \cap pTreeView \subseteq Elems(list)
=============================================================================
