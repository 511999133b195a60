----------------------------- MODULE LayoutTree -----------------------------
(***************************************************************************)
(* The layout tree of a tab (frontend/layout/lib/layoutNode.ts and         *)
(* layoutTree.ts): a nested flexbox of panes.  A node is a leaf, which      *)
(* shows one block, or a group, which has children laid out along its flex *)
(* direction.  Sizes are left out: no decision of this code reads one.     *)
(*                                                                         *)
(* Trees are values here and objects that are changed in place in the      *)
(* code; every operator returns the tree the code leaves behind.  Fresh    *)
(* node ids (crypto.randomUUID) are parameters.                            *)
(***************************************************************************)
EXTENDS Integers, Sequences, SequencesExt, FiniteSetsExt

CONSTANTS NoBlock,      \* the data of a group
          MaxChildren   \* DEFAULT_MAX_CHILDREN of automatic insertion

NoTree == [id |-> 0, dir |-> "row", block |-> NoBlock, kids |-> <<>>]

\* newLayoutNode: a new pane, always of direction row.
NewLeaf(id, b) == [id |-> id, dir |-> "row", block |-> b, kids |-> <<>>]
NewGroup(id, dir, kids) == [id |-> id, dir |-> dir, block |-> NoBlock, kids |-> kids]

IsLeaf(n) == n.block # NoBlock

reverseFlexDirection(dir) == IF dir = "row" THEN "column" ELSE "row"

-----------------------------------------------------------------------------
(* walkNodes, findNode and findParent. *)

RECURSIVE Nodes(_)
Nodes(t) == {t} \cup UNION {Nodes(t.kids[i]) : i \in DOMAIN t.kids}

Ids(t) == IF t = NoTree THEN {} ELSE {n.id : n \in Nodes(t)}

\* The panes in reading order.
RECURSIVE LeafsOf(_)
LeafsOf(kids) ==
  IF kids = <<>> THEN <<>>
  ELSE (IF IsLeaf(Head(kids)) THEN <<Head(kids)>> ELSE LeafsOf(Head(kids).kids))
         \o LeafsOf(Tail(kids))

Panes(t) == IF t = NoTree THEN <<>> ELSE LeafsOf(<<t>>)

\* The node of an id that is in the tree.
findNode(t, id) == CHOOSE n \in Nodes(t) : n.id = id

IsParentOf(n, id) == \E i \in DOMAIN n.kids : n.kids[i].id = id
HasParent(t, id) == \E n \in Nodes(t) : IsParentOf(n, id)
findParent(t, id) == CHOOSE n \in Nodes(t) : IsParentOf(n, id)

\* The position, from 0, of a child among its siblings.
IndexIn(n, id) == (CHOOSE i \in DOMAIN n.kids : n.kids[i].id = id) - 1

\* The tree with the subtree of one id exchanged.
RECURSIVE Subst(_, _, _)
Subst(t, id, new) ==
  IF t.id = id THEN new
  ELSE [t EXCEPT !.kids = [i \in DOMAIN t.kids |-> Subst(t.kids[i], id, new)]]

-----------------------------------------------------------------------------
(* Changing one node. *)

\* addIntermediateNode on a leaf: the pane moves one level down and keeps its
\* id, the node that is left gets a new one.
addIntermediateNode(n, fresh) ==
  NewGroup(fresh, n.dir, <<[n EXCEPT !.dir = reverseFlexDirection(n.dir)]>>)

\* What addChildAt inserts for a child: itself if it already runs across its
\* new parent, its children if it is a group along the parent, and otherwise
\* itself turned around.
Adopted(n, child) ==
  IF child.dir # n.dir THEN <<child>>
  ELSE IF ~IsLeaf(child) THEN child.kids
  ELSE <<[child EXCEPT !.dir = reverseFlexDirection(n.dir)]>>

addChildAt(n, idx, child, fresh) ==
  LET p == IF IsLeaf(n) THEN addIntermediateNode(n, fresh) ELSE n
      at == IF Len(p.kids) <= idx THEN Len(p.kids) ELSE idx
  IN  [p EXCEPT !.kids = SubSeq(@, 1, at) \o Adopted(p, child)
                           \o SubSeq(@, at + 1, Len(@))]

removeChild(n, id) == [n EXCEPT !.kids = SelectSeq(@, LAMBDA k : k.id # id)]

-----------------------------------------------------------------------------
(* balanceNode: one walk, correcting directions and dropping groups that    *)
(* hold one group on the way down, and turning a group with one pane into   *)
(* that pane on the way up.                                                 *)

\* A mutant: the children of a dropped group come in the wrong order.
FlattenedReversed(n, child) ==
  LET c == IF child.dir = n.dir
           THEN [child EXCEPT !.dir = reverseFlexDirection(n.dir)] ELSE child
  IN  IF ~IsLeaf(c) /\ Len(c.kids) = 1 /\ ~IsLeaf(c.kids[1]) THEN Reverse(c.kids[1].kids)
      ELSE IF ~IsLeaf(c) /\ c.kids = <<>> THEN <<>>
      ELSE <<c>>

\* What a child becomes in the children of n before the walk enters them.
Flattened(n, child) ==
  LET c == IF child.dir = n.dir
           THEN [child EXCEPT !.dir = reverseFlexDirection(n.dir)] ELSE child
  IN  IF ~IsLeaf(c) /\ Len(c.kids) = 1 /\ ~IsLeaf(c.kids[1]) THEN c.kids[1].kids
      ELSE IF ~IsLeaf(c) /\ c.kids = <<>> THEN <<>>
      ELSE <<c>>

RECURSIVE balanceNode(_)
balanceNode(n) ==
  LET flat == IF n.kids = <<>> THEN <<>>
              ELSE FlattenSeq([i \in DOMAIN n.kids |-> Flattened(n, n.kids[i])])
      kids == [i \in DOMAIN flat |-> balanceNode(flat[i])]
  IN  IF Len(kids) = 1 /\ IsLeaf(kids[1])
      THEN [kids[1] EXCEPT !.dir = n.dir]
      ELSE [n EXCEPT !.kids = kids]

-----------------------------------------------------------------------------
(* Where a new pane goes. *)

\* Math.pow(depth, index + maxChildren), the weight places are compared by.
Weight(loc) == loc.depth ^ (loc.index + MaxChildren)

\* The lightest place; of equal ones the first.
Lightest(locs) ==
  locs[CHOOSE i \in DOMAIN locs :
         /\ \A j \in DOMAIN locs : Weight(locs[i]) <= Weight(locs[j])
         /\ \A j \in 1..(i - 1) : Weight(locs[j]) > Weight(locs[i])]

\* The node itself if it has room, then its children from the last one on.
RECURSIVE findNextInsertLocationHelper(_, _)
findNextInsertLocationHelper(n, depth) ==
  IF IsLeaf(n) THEN [id |-> n.id, index |-> 1, depth |-> depth]
  ELSE LET here == IF Len(n.kids) < MaxChildren
                   THEN <<[id |-> n.id, index |-> Len(n.kids), depth |-> depth]>>
                   ELSE <<>>
       IN  Lightest(here \o [i \in DOMAIN n.kids |->
                               findNextInsertLocationHelper(Reverse(n.kids)[i], depth + 1)])

findNextInsertLocation(t) == findNextInsertLocationHelper(t, 1)

\* An index array read from the root down; an index past the end means the last
\* child.  (Callers pass no negative index.)
RECURSIVE findInsertLocationFromIndexArr(_, _)
findInsertLocationFromIndexArr(n, arr) ==
  LET size == IF IsLeaf(n) THEN 1 ELSE Len(n.kids)
      next == IF Head(arr) < size - 1 THEN Head(arr) ELSE size - 1
  IN  IF Len(arr) = 1 \/ IsLeaf(n) THEN [id |-> n.id, index |-> next]
      ELSE findInsertLocationFromIndexArr(n.kids[next + 1], Tail(arr))

-----------------------------------------------------------------------------
(***************************************************************************)
(* layoutTree.ts: the reducers.  A layout state is a record with at least   *)
(* rootNode, focusedNodeId and magnifiedNodeId; id 0 is undefined.          *)
(***************************************************************************)
NoPending == [type |-> "none"]
Move(parentId, index, node) ==
  [type |-> "move", parentId |-> parentId, index |-> index, node |-> node]
Swap(id1, id2) == [type |-> "swap", node1Id |-> id1, node2Id |-> id2]
Resize(id1, id2) == [type |-> "resize", ids |-> {id1, id2}]

\* The axis of a drop side and whether the drop comes after the target on it.
Axis(side) == IF side \in {"top", "bottom"} THEN "column" ELSE "row"
\* A mutant: the sides mixed up.
PastSwapped(side) == IF side \in {"bottom", "left"} THEN 1 ELSE 0
Past(side) == IF side \in {"bottom", "right"} THEN 1 ELSE 0

\* Where a drop on a pane puts the dragged one: beside the target's parent for
\* an outer drop along the pane's direction, inside the pane for another drop
\* along it, and otherwise beside the pane.
DropTarget(t, node, side, outer) ==
  LET parent == findParent(t, node.id)
      along == node.dir = Axis(side)
  IN  IF along /\ outer /\ HasParent(t, parent.id)
      THEN LET grand == findParent(t, parent.id)
           IN  [parentId |-> grand.id, index |-> IndexIn(grand, parent.id) + Past(side)]
      ELSE IF along THEN [parentId |-> node.id, index |-> Past(side)]
      ELSE [parentId |-> parent.id, index |-> IndexIn(parent, node.id) + Past(side)]

\* The operation a drag over a pane computes.  Drop targets and dragged nodes
\* are panes, and two different panes have parents.
computeMoveNode(s, nodeId, nodeToMoveId, side, outer) ==
  LET t == s.rootNode
      to == DropTarget(t, findNode(t, nodeId), side, outer)
      from == findParent(t, nodeToMoveId)
      was == IndexIn(from, nodeToMoveId)
  IN  IF nodeId = nodeToMoveId \/ ~({nodeId, nodeToMoveId} \subseteq Ids(t)) THEN NoPending
      ELSE IF side = "center" THEN Swap(nodeId, nodeToMoveId)
      ELSE IF to.parentId = from.id /\ to.index \in {was, was + 1} THEN NoPending
      ELSE Move(to.parentId, to.index, findNode(t, nodeToMoveId))

\* A reducer that meets a node that is gone throws and leaves the tree alone.
ReducerThrows(s, action) ==
  CASE action.type = "move" -> action.parentId \notin Ids(s.rootNode)
    [] action.type = "swap" ->
         /\ s.rootNode.id \notin {action.node1Id, action.node2Id}
         /\ ~({action.node1Id, action.node2Id} \subseteq Ids(s.rootNode))
    [] action.type = "resize" -> ~(action.ids \subseteq Ids(s.rootNode))
    [] OTHER -> FALSE

\* Stands in for the dragged pane at its old place until it is removed there.
Hole(n) == [n EXCEPT !.id = -1]

\* moveNode inserts first and removes the old occurrence then, so the index
\* counts the old place.  A node the tree no longer has is inserted as the drag
\* remembers it.
moveNode(s, action, fresh) ==
  LET id == action.node.id
      known == id \in Ids(s.rootNode)
      node == IF known THEN findNode(s.rootNode, id) ELSE action.node
      holed == IF known THEN Subst(s.rootNode, id, Hole(node)) ELSE s.rootNode
      put == Subst(holed, action.parentId,
                   addChildAt(findNode(holed, action.parentId), action.index, node, fresh))
      old == findParent(put, -1)
  IN  [s EXCEPT !.rootNode = IF known THEN Subst(put, old.id, removeChild(old, -1))
                             ELSE put]

\* Two panes exchange their places; the root is not swapped.
swapNode(s, action) ==
  LET t == s.rootNode
      n1 == findNode(t, action.node1Id)
      n2 == findNode(t, action.node2Id)
  IN  IF t.id \in {action.node1Id, action.node2Id} THEN s
      ELSE [s EXCEPT !.rootNode = Subst(Subst(Subst(t, n1.id, Hole(n1)), n2.id, n1), -1, n2)]

InsertedAt(s, loc, idx, leaf, fresh) ==
  Subst(s.rootNode, loc.id, addChildAt(findNode(s.rootNode, loc.id), idx, leaf, fresh))

\* The focus and the magnification an insertion asks for.  The first pane of a
\* tree is never magnified.
AfterInsert(s, t, leaf, magnified, focused) ==
  LET magnify == magnified /\ s.rootNode # NoTree
  IN  [s EXCEPT !.rootNode = t,
                !.magnifiedNodeId = IF magnify THEN leaf.id ELSE @,
                !.focusedNodeId = IF magnify \/ focused THEN leaf.id ELSE @]

insertNode(s, leaf, magnified, focused, fresh) ==
  LET loc == findNextInsertLocation(s.rootNode)
      t == IF s.rootNode = NoTree THEN leaf ELSE InsertedAt(s, loc, loc.index, leaf, fresh)
  IN  AfterInsert(s, t, leaf, magnified, focused)

insertNodeAtIndex(s, leaf, indexArr, magnified, focused, fresh) ==
  LET loc == findInsertLocationFromIndexArr(s.rootNode, indexArr)
      t == IF s.rootNode = NoTree THEN leaf ELSE InsertedAt(s, loc, loc.index + 1, leaf, fresh)
  IN  AfterInsert(s, t, leaf, magnified, focused)

\* A mutant: the focus stays on the pane that is gone.
deleteNodeKeepingFocus(s, id) ==
  LET parent == findParent(s.rootNode, id)
  IN  IF s.rootNode.id = id THEN [s EXCEPT !.rootNode = NoTree]
      ELSE [s EXCEPT !.rootNode = Subst(@, parent.id, removeChild(parent, id))]

\* Deleting the root keeps the focus, deleting another focused pane drops it.
deleteNode(s, id) ==
  LET parent == findParent(s.rootNode, id)
  IN  IF s.rootNode.id = id THEN [s EXCEPT !.rootNode = NoTree]
      ELSE [s EXCEPT !.rootNode = Subst(@, parent.id, removeChild(parent, id)),
                     !.focusedNodeId = IF @ = id THEN 0 ELSE @]

focusNode(s, id) == [s EXCEPT !.focusedNodeId = id]

magnifyNodeToggle(s, id) ==
  IF s.rootNode.id = id THEN s
  ELSE IF s.magnifiedNodeId = id THEN [s EXCEPT !.magnifiedNodeId = 0]
  ELSE [s EXCEPT !.magnifiedNodeId = id, !.focusedNodeId = id]

\* clearTree, with the focus the reducer sets for a replacement tree.
clearTree(s, t, focus) ==
  [s EXCEPT !.rootNode = t, !.focusedNodeId = focus, !.magnifiedNodeId = 0]

replaceNode(s, id, leaf, focused) ==
  [s EXCEPT !.rootNode = Subst(@, id, leaf),
            !.focusedNodeId = IF focused THEN leaf.id ELSE @]

\* splitHorizontal (dir "row") and splitVertical (dir "column"): into the parent
\* if it runs along dir, otherwise into a new group in the target's place.
splitNode(s, id, leaf, dir, before, focused, fresh) ==
  LET t == s.rootNode
      target == findNode(t, id)
      parent == findParent(t, id)
      at == IndexIn(parent, id) + IF before THEN 0 ELSE 1
      pair == IF before THEN <<leaf, target>> ELSE <<target, leaf>>
  IN  [s EXCEPT !.rootNode =
                  IF HasParent(t, id) /\ parent.dir = dir
                  THEN Subst(t, parent.id,
                             [parent EXCEPT !.kids = InsertAt(@, at + 1, leaf)])
                  ELSE Subst(t, id, NewGroup(fresh, dir, pair)),
                !.focusedNodeId = IF focused THEN leaf.id ELSE @]

=============================================================================
