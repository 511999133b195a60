---------------------------- MODULE MCLayoutModel ----------------------------
(***************************************************************************)
(* The layout model on two instances side by side, chosen by the initial    *)
(* state.                                                                   *)
(*   "tree": drags and the tree.  The focus and the magnification, which no  *)
(*   operation on the tree reads, do not count in the view, and no pane     *)
(*   floats.  The last pane is shown only while no batch runs.  During a    *)
(*   drag the user does nothing else; the backend may, one action a batch.  *)
(*   A new hover is one after the drag was given up, which leaves the same  *)
(*   state.  A batch waits for the deletion of its first action only.       *)
(*   "focus": fewer panes and batches of one action, during which the user *)
(*   does nothing, without drags, which do not touch the focus; of trees with*)
(*   one reading order, the only thing the focus depends on, one is explored,*)
(*   and panes are split one way.                                          *)
(***************************************************************************)
EXTENDS LayoutModel

CONSTANT MaxFocusPanes   \* bound: blocks shown in the focus instance

VARIABLE instance

MCIndexArrs == {<<0>>, <<0, 1>>}

MCInit == Init /\ instance \in {"tree", "focus"}

InTree == instance = "tree"
UserRuns == IF InTree THEN pending = NoPending ELSE batch = NoBatch
Directions == IF InTree THEN {"row", "column"} ELSE {"row"}

TreeBounds ==
  /\ model'.ephemeralNode = NoTree
  /\ ShownBlocks(model') = Blocks => batch' = NoBatch
  /\ pending' # NoPending \/ batch'.phase = "waiting" => batch'.done <= 1

FocusBounds ==
  /\ Cardinality(ShownBlocks(model')) <= MaxFocusPanes
  /\ batch'.done <= 1

MCNext ==
  /\ \/ InTree /\ pending = NoPending /\ Hover
     \/ InTree /\ Drop
     \/ BackendOps
     \/ UserRuns /\ Still
     \/ \E dir \in Directions : BackendSplits(dir) \/ (UserRuns /\ UserSplits(dir))
  /\ IF InTree THEN TreeBounds ELSE FocusBounds
  /\ UNCHANGED instance

MCSpec == MCInit /\ [][MCNext]_<<vars, instance>>

-----------------------------------------------------------------------------
(* Node ids are random and blocks interchangeable, and both are only         *)
(* compared.  The view keeps the shapes, and names a node by its place among *)
(* the ids in the order in which the state mentions them.  A block goes with *)
(* its pane.                                                                *)

RECURSIVE PreOrderOf(_)
PreOrderOf(kids) == IF kids = <<>> THEN <<>>
                    ELSE <<Head(kids).id>> \o PreOrderOf(Head(kids).kids) \o PreOrderOf(Tail(kids))
PreOrder(n) == PreOrderOf(<<n>>)

RECURSIVE Shape(_)
Shape(n) == <<n.dir, IsLeaf(n), [i \in DOMAIN n.kids |-> Shape(n.kids[i])]>>

Arrangement == IF InTree THEN Shape(model.rootNode)
               ELSE <<Len(Panes(model.rootNode)), IsLeaf(model.rootNode)>>
TreeIds == IF InTree THEN PreOrder(model.rootNode)
           ELSE LET panes == Panes(model.rootNode) IN [i \in DOMAIN panes |-> panes[i].id]

FocusIds == IF instance = "focus"
            THEN model.focusedNodeIdStack \o <<model.focusedNodeId, model.magnifiedNodeId>>
            ELSE <<>>

PendingIds == CASE pending.type = "move" -> <<pending.parentId, pending.node.id>>
                [] pending.type = "swap" -> <<pending.node1Id, pending.node2Id>>
                [] pending.type = "resize" -> SetToSeq(pending.ids)
                [] OTHER -> <<>>

CanonicalView ==
  LET focusIds == FocusIds
      pendingIds == PendingIds
      ids == TreeIds \o PreOrder(model.ephemeralNode) \o focusIds \o pendingIds
      place == [id \in ToSet(ids) |-> SelectInSeq(ids, LAMBDA x : x = id)]
      name(id) == IF id = Missing THEN 0
                  ELSE IF id \in DOMAIN place THEN place[id] ELSE -1
  IN  <<instance, batch, Arrangement, model.ephemeralNode # NoTree,
        model.mounted, model.unbalanced,
        {<<name(e.id), e.block \in BlocksOf(model.rootNode)>> : e \in model.leafs},
        Cardinality(model.leafs), Emptied(model),
        [i \in DOMAIN focusIds |-> name(focusIds[i])],
        pending.type,
        IF pending.type = "resize" THEN {name(id) : id \in pending.ids}
        ELSE [i \in DOMAIN pendingIds |-> name(pendingIds[i])],
        IF pending.type = "move" THEN <<pending.index, pending.node.dir>> ELSE <<>>>>
=============================================================================
