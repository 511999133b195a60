---------------------------- MODULE LayoutModel ----------------------------
(***************************************************************************)
(* The layout model of one tab (frontend/layout/lib/layoutModel.ts): the    *)
(* tree and what is derived from it, the focus stack, the pending action of *)
(* a drag, the ephemeral pane that floats above the tree, the batches of    *)
(* actions that arrive from the backend, and the Snap replacement of the    *)
(* whole tree.                                                              *)
(*                                                                         *)
(* JavaScript runs one handler at a time, so a handler is one action up to  *)
(* its first await.  The handlers that change the model are synchronous;    *)
(* only a batch from the backend can be suspended, while blocks are being   *)
(* deleted, and the handlers of the user run then.                          *)
(*                                                                         *)
(* Persistence, and the creation and deletion of the blocks themselves, are *)
(* left out.                                                                *)
(***************************************************************************)
EXTENDS LayoutTree

CONSTANTS Blocks,      \* the blocks that can be shown
          MaxBatch,    \* bound: actions in a batch of the backend
          IndexArrs    \* the index arrays the backend asks to insert at

VARIABLES
  model,    \* the layout model: treeState, focus stack, leafs and ephemeral node
  pending,  \* pendingTreeAction: what a drop or the end of a resize commits
  batch     \* the batch being applied: "idle", "running" or "waiting", actions done

vars == <<model, pending, batch>>

Missing == 0          \* an undefined node id
Throws == -1          \* a lookup that throws
NoBatch == [phase |-> "idle", done |-> 0]

-----------------------------------------------------------------------------
(* What the model holds. *)

EmptyModel == [rootNode |-> NoTree, focusedNodeId |-> Missing, magnifiedNodeId |-> Missing,
               focusedNodeIdStack |-> <<>>, leafs |-> {}, ephemeralNode |-> NoTree,
               mounted |-> FALSE,
               unbalanced |-> FALSE]   \* changed since it was last balanced

PaneIds(t) == {n.id : n \in ToSet(Panes(t))}
BlocksOf(t) == {n.block : n \in ToSet(Panes(t))}

\* The panes on screen: those of the tree and the ephemeral one.
ShownIds(m) == PaneIds(m.rootNode) \cup Ids(m.ephemeralNode)
ShownBlocks(m) == BlocksOf(m.rootNode) \cup BlocksOf(m.ephemeralNode)

\* Ids some part of the model still names; a fresh id is none of them.
UsedIds(m, p) ==
  Ids(m.rootNode) \cup Ids(m.ephemeralNode) \cup ToSet(m.focusedNodeIdStack)
    \cup {m.focusedNodeId, m.magnifiedNodeId} \cup {e.id : e \in m.leafs}
    \cup CASE p.type = "move" -> {p.parentId, p.node.id}
           [] p.type = "swap" -> {p.node1Id, p.node2Id}
           [] p.type = "resize" -> p.ids
           [] OTHER -> {}

\* An id nothing names.
Fresh(n) == Max(UsedIds(model, pending)) + n

\* A block the backend has just created: no pane shows it.  Blocks are only
\* compared, so it does not matter which.
Created == {b \in Blocks : /\ b \notin ShownBlocks(model)
                           /\ b \notin {e.block : e \in model.leafs}
                           /\ pending.type = "move" => pending.node.block # b}
BlockIsCreated == Created # {}
NewPane == NewLeaf(Fresh(1), CHOOSE b \in Created : TRUE)

-----------------------------------------------------------------------------
(* updateTree: nothing until the container is mounted. *)

LeafEntries(t) == {[id |-> n.id, block |-> n.block] : n \in ToSet(Panes(t))}

\* leafOrder.  The ephemeral pane sorts before the panes of a group and after
\* a pane that is the root, which has no key to sort by.
LeafOrder(before, m) ==
  LET leafs == Panes(m.rootNode)
      panes == [i \in DOMAIN leafs |-> leafs[i].id]
      floating == IF m.ephemeralNode = NoTree THEN <<>> ELSE <<m.ephemeralNode.id>>
  IN  IF IsLeaf(before) THEN panes \o floating ELSE floating \o panes

\* A mutant: repetitions stay.
SurvivingRepeated(stack, order) == SelectSeq(stack, LAMBDA id : id \in ToSet(order))

\* Drops what is not on screen and repetitions, keeping the first occurrence.
Surviving(stack, order) ==
  FoldLeft(LAMBDA kept, id : IF id \in ToSet(order) /\ id \notin ToSet(kept)
                             THEN Append(kept, id) ELSE kept,
           <<>>, stack)

validateFocusedNode(m, order) ==
  LET stack == Surviving(m.focusedNodeIdStack, order)
      popped == IF m.focusedNodeId # Missing THEN [focus |-> m.focusedNodeId, rest |-> stack]
                ELSE IF stack # <<>> THEN [focus |-> Head(stack), rest |-> Tail(stack)]
                ELSE [focus |-> IF order = <<>> THEN Missing ELSE Head(order), rest |-> <<>>]
      top == IF m.focusedNodeIdStack = <<>> THEN Missing ELSE Head(m.focusedNodeIdStack)
  IN  IF m.focusedNodeId = top THEN m
      ELSE [m EXCEPT !.focusedNodeId = popped.focus,
                     !.focusedNodeIdStack = <<popped.focus>> \o popped.rest]

validateMagnifiedNode(m, order) ==
  IF Len(order) = 1 THEN [m EXCEPT !.magnifiedNodeId = Missing] ELSE m

updateTree(m, balance) ==
  LET n == [m EXCEPT !.rootNode = IF balance /\ @ # NoTree THEN balanceNode(@) ELSE @]
      order == LeafOrder(m.rootNode, n)
      checked == validateMagnifiedNode(validateFocusedNode(n, order), order)
  IN  IF ~m.mounted THEN m
      ELSE [checked EXCEPT !.leafs = LeafEntries(n.rootNode) \cup LeafEntries(n.ephemeralNode),
                           !.unbalanced = @ /\ ~balance]

-----------------------------------------------------------------------------
(* The operations of the model, up to their first await. *)

FocusedOn(m) == IF m.focusedNodeIdStack = <<>> THEN Missing ELSE Head(m.focusedNodeIdStack)

FocusNodeOp(m, id) ==
  IF FocusedOn(m) = id \/ id \notin Ids(m.rootNode) \cup Ids(m.ephemeralNode) THEN m
  ELSE updateTree(focusNode(m, id), TRUE)

MagnifyOp(m, id) == updateTree(magnifyNodeToggle(m, id), TRUE)

\* closeNode for a pane of the tree unmagnifies it first.
CloseTreePane(m, id) ==
  LET plain == IF id = m.magnifiedNodeId THEN MagnifyOp(m, id) ELSE m
  IN  updateTree(deleteNode(plain, id), TRUE)

CloseEphemeral(m) ==
  updateTree([m EXCEPT !.ephemeralNode = NoTree, !.focusedNodeId = Missing], FALSE)

closeNode(m, id) ==
  IF id \in Ids(m.rootNode) THEN CloseTreePane(m, id)
  ELSE IF id \in Ids(m.ephemeralNode) THEN CloseEphemeral(m)
  ELSE m

\* A new ephemeral pane takes the place of the old one and the focus.
newEphemeralNode(m, leaf) ==
  LET old == IF m.ephemeralNode = NoTree THEN m ELSE CloseEphemeral(m)
  IN  FocusNodeOp([old EXCEPT !.ephemeralNode = leaf], leaf.id)

addEphemeralNodeToLayout(m, fresh) ==
  LET docked == [m EXCEPT !.ephemeralNode = NoTree]
      plain == IF m.magnifiedNodeId = Missing THEN docked
               ELSE magnifyNodeToggle(docked, m.magnifiedNodeId)
  IN  updateTree(insertNode(plain, m.ephemeralNode, FALSE, FALSE, fresh), TRUE)

-----------------------------------------------------------------------------
(* getNodeByBlockId reads the leafs atom, whose entries are the node objects *)
(* of the last update.  Inserting into a pane turns its object into a group  *)
(* (addIntermediateNode), so the entry loses its block; the search throws    *)
(* when it comes to such an entry.  The entries are sorted by random ids, so *)
(* it may find the block before.                                            *)

Emptied(m) == \E e \in m.leafs : e.block = NoBlock

getNodeByBlockId(m, b) ==
  LET found == {e.id : e \in {e \in m.leafs : e.block = b}}
  IN  (IF found = {} /\ ~Emptied(m) THEN {Missing} ELSE found)
        \cup (IF Emptied(m) THEN {Throws} ELSE {})

\* After an insertion that no update has followed yet, the entry of the pane it
\* went into.  (A pane that took the place of its group in the last update is
\* another object than its entry, and keeps it.)
LeafsAfterInsert(m, locId) ==
  {m.leafs} \cup
    IF locId \in PaneIds(m.rootNode)
    THEN {{IF e.id = locId THEN [id |-> Missing, block |-> NoBlock] ELSE e : e \in m.leafs}}
    ELSE {}

-----------------------------------------------------------------------------
(* Handlers of the user interface. *)

\* They run between macrotasks: not while a batch runs from one await to the next.
HandlersRun == batch.phase # "running" /\ model.mounted

\* The container is mounted: onTreeStateAtomUpdated(true).
Mount ==
  /\ batch.phase # "running"
  /\ ~model.mounted
  /\ model' = updateTree([model EXCEPT !.mounted = TRUE], TRUE)
  /\ UNCHANGED <<pending, batch>>

\* createBlock, after the backend has answered.
UserInsert(magnified) ==
  /\ HandlersRun
  /\ BlockIsCreated
  /\ model' = updateTree(insertNode(model, NewPane, magnified, TRUE, Fresh(2)), TRUE)
  /\ UNCHANGED <<pending, batch>>

\* createBlockSplitHorizontally and createBlockSplitVertically; a target that is
\* gone, or is not in the tree, leaves the new block without a pane.
UserSplit(target, dir, before) ==
  /\ HandlersRun
  /\ BlockIsCreated
  /\ \E id \in getNodeByBlockId(model, target) :
       /\ id \in Ids(model.rootNode)
       /\ model' = updateTree(splitNode(model, id, NewPane, dir, before, TRUE, Fresh(2)), TRUE)
  /\ UNCHANGED <<pending, batch>>

\* replaceBlock
UserReplace(target, focused) ==
  /\ HandlersRun
  /\ BlockIsCreated
  /\ \E id \in getNodeByBlockId(model, target) :
       /\ id \in Ids(model.rootNode)
       /\ model' = updateTree(replaceNode(model, id, NewPane, focused), TRUE)
  /\ UNCHANGED <<pending, batch>>

UserClose(id) ==
  /\ HandlersRun
  /\ id \in ShownIds(model)
  /\ model' = closeNode(model, id)
  /\ UNCHANGED <<pending, batch>>

UserFocus(id) ==
  /\ HandlersRun
  /\ id \in ShownIds(model)
  /\ model' = FocusNodeOp(model, id)
  /\ UNCHANGED <<pending, batch>>

UserMagnify(id) ==
  /\ HandlersRun
  /\ id \in PaneIds(model.rootNode)
  /\ model' = MagnifyOp(model, id)
  /\ UNCHANGED <<pending, batch>>

UserEphemeral ==
  /\ HandlersRun
  /\ BlockIsCreated
  /\ model' = newEphemeralNode(model, NewPane)
  /\ UNCHANGED <<pending, batch>>

AddEphemeral ==
  /\ HandlersRun
  /\ model.ephemeralNode # NoTree
  /\ model' = addEphemeralNodeToLayout(model, Fresh(1))
  /\ UNCHANGED <<pending, batch>>

-----------------------------------------------------------------------------
(* Dragging: computed while the pointer moves, committed on the drop. *)

\* ComputeMove over another pane.
DragOver ==
  /\ HandlersRun
  /\ model' = updateTree(model, TRUE)
  /\ \E nodeId, nodeToMoveId \in PaneIds(model.rootNode),
        side \in {"top", "bottom", "left", "right", "center"}, outer \in BOOLEAN :
       /\ nodeId # nodeToMoveId
       /\ side = "center" => ~outer
       /\ pending' = computeMoveNode(model, nodeId, nodeToMoveId, side, outer)
  /\ UNCHANGED batch

\* onResizeMove: the pending resize of two neighbours.
DragResize ==
  /\ HandlersRun
  /\ model' = updateTree(model, TRUE)
  /\ \E n \in Nodes(model.rootNode) : \E i \in 1..(Len(n.kids) - 1) :
       pending' = Resize(n.kids[i].id, n.kids[i + 1].id)
  /\ UNCHANGED batch

\* ClearPendingAction: the drag ended, or the Snap bar opened.
DragEnd ==
  /\ HandlersRun
  /\ pending' = NoPending
  /\ model' = updateTree(model, TRUE)
  /\ UNCHANGED batch

Applied(m, action, fresh) ==
  CASE action.type = "move" -> moveNode(m, action, fresh)
    [] action.type = "swap" -> swapNode(m, action)
    [] OTHER -> m

\* CommitPendingAction (onDrop, onResizeEnd).  The inner reducer updates the tree
\* and the outer one again; one that throws leaves the action pending.
CommitPending ==
  /\ HandlersRun
  /\ pending # NoPending
  /\ ~ReducerThrows(model, pending)
  /\ model' = updateTree(updateTree(Applied(model, pending, Fresh(1)), TRUE), TRUE)
  /\ pending' = NoPending
  /\ UNCHANGED batch

\* onContainerResize
ContainerResize ==
  /\ HandlersRun
  /\ model' = updateTree(model, TRUE)
  /\ UNCHANGED <<pending, batch>>

-----------------------------------------------------------------------------
(* Snap: a preset becomes the whole tree. *)

\* The shapes of SNAP_PRESETS (snapPresets.ts); slots and groups are numbered.
Slot(i) == NewLeaf(i, "slot")
SNAP_PRESETS ==
  {NewGroup(1, "row", <<Slot(2), Slot(3)>>),
   NewGroup(1, "column", <<Slot(2), Slot(3)>>),
   NewGroup(1, "row", <<Slot(2), Slot(3), Slot(4)>>),
   NewGroup(1, "column", <<NewGroup(2, "row", <<Slot(3), Slot(4)>>),
                           NewGroup(5, "row", <<Slot(6), Slot(7)>>)>>),
   NewGroup(1, "row", <<Slot(2), NewGroup(3, "column", <<Slot(4), Slot(5)>>)>>),
   NewGroup(1, "row", <<NewGroup(2, "column", <<Slot(3), Slot(4)>>), Slot(5)>>)}

\* materializeSnapPreset: every node gets a new id, every slot its block.
RECURSIVE materializeSnapPreset(_, _, _)
materializeSnapPreset(template, blockOf, nodeId) ==
  [template EXCEPT !.id = nodeId[template.id],
                   !.block = IF IsLeaf(template) THEN blockOf[template.id] ELSE NoBlock,
                   !.kids = [i \in DOMAIN template.kids |->
                               materializeSnapPreset(template.kids[i], blockOf, nodeId)]]

\* commitSnapRoot.  The panes that are not kept have been reclaimed by the
\* caller; which pane goes where is its choice (SnapApply), and does not matter
\* here, where blocks are only compared.  The tree is not balanced.
SnapCommit ==
  /\ HandlersRun
  /\ model.rootNode # NoTree
  /\ \E preset \in SNAP_PRESETS :
       LET slots == SetToSeq(PaneIds(preset))
           fill == SetToSeq(BlocksOf(model.rootNode)) \o SetToSeq(Created)
           blockOf == [id \in ToSet(slots) |-> fill[SelectInSeq(slots, LAMBDA x : x = id)]]
           t == materializeSnapPreset(preset, blockOf, [i \in Ids(preset) |-> Fresh(i)])
       IN  /\ Len(slots) <= Len(fill)
           /\ \E slot \in ToSet(slots) :
                 model' = updateTree(clearTree(model, t, Fresh(slot)), FALSE)
  /\ UNCHANGED <<pending, batch>>

-----------------------------------------------------------------------------
(* processPendingBackendActions: the actions one after the other without an  *)
(* update of the tree in between, and one update at the end.  The handlers    *)
(* that are suspended are those that delete blocks.                          *)

BatchStart ==
  /\ batch = NoBatch
  /\ batch' = [phase |-> "running", done |-> 0]
  /\ UNCHANGED <<model, pending>>

BatchGoesOn == batch.phase = "running" /\ batch.done < MaxBatch
Done == batch' = [batch EXCEPT !.done = @ + 1]

Changed == [model EXCEPT !.unbalanced = TRUE]

\* A handler that throws ends the batch: no update, and the rest is not applied.
BatchThrows == batch' = NoBatch /\ UNCHANGED <<model, pending>>

BackendInsert(focused, magnified) ==
  LET inserted == insertNode(model, NewPane, magnified, focused, Fresh(2))
      locId == IF model.rootNode = NoTree THEN Missing ELSE findNextInsertLocation(model.rootNode).id
  IN  /\ BatchGoesOn
      /\ BlockIsCreated
      /\ \E leafs \in LeafsAfterInsert(model, locId) :
           model' = [inserted EXCEPT !.leafs = leafs, !.unbalanced = TRUE]
      /\ Done
      /\ UNCHANGED pending

BackendInsertAtIndex(indexArr, focused) ==
  LET inserted == insertNodeAtIndex(model, NewPane, indexArr, FALSE, focused, Fresh(2))
      locId == IF model.rootNode = NoTree THEN Missing
               ELSE findInsertLocationFromIndexArr(model.rootNode, indexArr).id
  IN  /\ BatchGoesOn
      /\ BlockIsCreated
      /\ \E leafs \in LeafsAfterInsert(model, locId) :
           model' = [inserted EXCEPT !.leafs = leafs, !.unbalanced = TRUE]
      /\ Done
      /\ UNCHANGED pending

\* Before the container is mounted the pane is set and then measuring it throws.
BackendEphemeral ==
  /\ BatchGoesOn
  /\ BlockIsCreated
  /\ IF model.mounted
     THEN model' = newEphemeralNode(model, NewPane) /\ Done
     ELSE model' = [model EXCEPT !.ephemeralNode = NewPane] /\ batch' = NoBatch
  /\ UNCHANGED pending

BackendSplit(target, dir, before) ==
  /\ BatchGoesOn
  /\ BlockIsCreated
  /\ \E id \in getNodeByBlockId(model, target) :
       IF id = Throws THEN BatchThrows
       ELSE /\ model' = IF id \in Ids(model.rootNode)
                        THEN splitNode(Changed, id, NewPane, dir, before, FALSE, Fresh(2))
                        ELSE model
            /\ Done
            /\ UNCHANGED pending

\* With no tree at all the reducer throws on a target that is still listed.
BackendReplace(target) ==
  /\ BatchGoesOn
  /\ BlockIsCreated
  /\ \E id \in getNodeByBlockId(model, target) :
       IF id = Throws \/ (id # Missing /\ model.rootNode = NoTree) THEN BatchThrows
       ELSE /\ model' = IF id \in Ids(model.rootNode)
                        THEN replaceNode(Changed, id, NewPane, FALSE) ELSE model
            /\ Done
            /\ UNCHANGED pending

\* DeleteNode runs closeNode and waits for the backend to delete the block.
BackendDelete(target) ==
  /\ BatchGoesOn
  /\ \E id \in getNodeByBlockId(model, target) :
       IF id = Throws THEN BatchThrows
       ELSE /\ model' = closeNode(model, id)
            /\ batch' = [phase |-> IF id \in ShownIds(model) THEN "waiting" ELSE "running",
                         done |-> batch.done + 1]
            /\ UNCHANGED pending

\* cleanupOrphanedBlocks: what it deletes is not part of the model (SnapApply).
BackendCleanup ==
  /\ BatchGoesOn
  /\ batch' = [phase |-> "waiting", done |-> batch.done + 1]
  /\ UNCHANGED <<model, pending>>

BackendDeleted ==
  /\ batch.phase = "waiting"
  /\ batch' = [batch EXCEPT !.phase = "running"]
  /\ UNCHANGED <<model, pending>>

BackendClear ==
  /\ BatchGoesOn
  /\ model' = clearTree(Changed, NoTree, Missing)
  /\ Done
  /\ UNCHANGED pending

BatchEnd ==
  /\ batch.phase = "running"
  /\ model' = updateTree(model, TRUE)
  /\ batch' = NoBatch
  /\ UNCHANGED pending

-----------------------------------------------------------------------------
(* initializeFromWaveObject: the tab is shown again from what was saved. *)
Reload ==
  /\ batch = NoBatch
  /\ model.mounted
  /\ model' = [EmptyModel EXCEPT !.rootNode = model.rootNode,
                                 !.focusedNodeId = model.focusedNodeId,
                                 !.magnifiedNodeId = model.magnifiedNodeId]
  /\ pending' = NoPending
  /\ UNCHANGED batch

-----------------------------------------------------------------------------
Init == model = EmptyModel /\ pending = NoPending /\ batch = NoBatch

UserSplits(dir) == \E target \in Blocks, before \in BOOLEAN : UserSplit(target, dir, before)

UserOps ==
  \/ \E magnified \in BOOLEAN : UserInsert(magnified)
  \/ \E target \in Blocks, focused \in BOOLEAN : UserReplace(target, focused)
  \/ \E id \in ShownIds(model) : UserClose(id) \/ UserFocus(id) \/ UserMagnify(id)
  \/ UserEphemeral
  \/ AddEphemeral

Hover == DragOver \/ DragResize
Drop == DragEnd \/ CommitPending \/ ContainerResize
Drags == Hover \/ Drop

BackendSplits(dir) == \E target \in Blocks, before \in BOOLEAN : BackendSplit(target, dir, before)

BackendOps ==
  \/ BatchStart
  \/ \E focused, magnified \in BOOLEAN : BackendInsert(focused, magnified)
  \/ \E arr \in IndexArrs, focused \in BOOLEAN : BackendInsertAtIndex(arr, focused)
  \/ BackendEphemeral
  \/ \E target \in Blocks : BackendReplace(target)
  \/ \E target \in Blocks : BackendDelete(target)
  \/ BackendCleanup
  \/ BackendDeleted
  \/ BackendClear
  \/ BatchEnd

Splits(dir) == UserSplits(dir) \/ BackendSplits(dir)

\* What the user and the application do besides splits and drags.
Still == Mount \/ UserOps \/ Reload \/ SnapCommit

Next == Still \/ BackendOps \/ (\E dir \in {"row", "column"} : Splits(dir)) \/ Drags

Spec == Init /\ [][Next]_vars

-----------------------------------------------------------------------------
(* Types. *)
TypeOK ==
  /\ ShownBlocks(model) \subseteq Blocks
  /\ model.rootNode # NoTree => Ids(model.rootNode) \subseteq Nat \ {Missing}
  /\ {model.focusedNodeId, model.magnifiedNodeId} \cup ToSet(model.focusedNodeIdStack)
       \subseteq Nat
  /\ model.mounted \in BOOLEAN
  /\ pending.type \in {"none", "move", "swap", "resize"}
  /\ batch.phase \in {"idle", "running", "waiting"} /\ batch.done \in 0..MaxBatch

\* No batch has changed the tree since it was last balanced.
Settled == model.mounted /\ ~model.unbalanced

\* Whatever operations ran, the tree that is shown is well formed: no id and no
\* block occurs twice, groups alternate between rows and columns, and only the
\* root may be a group of one (layoutNode.ts, balanceNode).
TreeWellFormed ==
  LET t == model.rootNode
      groups == {n \in Nodes(t) : ~IsLeaf(n)}
  IN  Settled /\ t # NoTree =>
        /\ Cardinality(Ids(t)) = Cardinality(Nodes(t))
        /\ Cardinality(BlocksOf(t)) = Len(Panes(t))
        /\ \A g \in groups :
             /\ Len(g.kids) >= IF g = t THEN 1 ELSE 2
             /\ \A i \in DOMAIN g.kids : ~IsLeaf(g.kids[i]) => g.kids[i].dir # g.dir

\* The top of the focus stack is the focused pane and below it every pane is
\* listed once, so that what closing falls back to is what was focused last
\* (validateFocusedNode).
StackIsRecent ==
  LET stack == model.focusedNodeIdStack
  IN  Settled /\ model.focusedNodeId # Missing =>
        stack # <<>> /\ Head(stack) = model.focusedNodeId /\ IsInjective(Tail(stack))

\* No pane stays magnified when it is the only one on screen: nothing would show
\* how to get back (validateMagnifiedNode).
MagnifiedNotAlone ==
  Settled /\ model.magnifiedNodeId # Missing => Cardinality(ShownIds(model)) >= 2

\* What holds of the model between two operations.
ModelInv == TypeOK /\ TreeWellFormed /\ StackIsRecent /\ MagnifiedNotAlone

\* A pane dropped on a side of another one ends up next to it on that side, in a
\* group that runs along that side, whatever the removal from its old place and
\* the balancing did to the groups (computeMoveNode, moveNode, balanceNode).
DropsLandBeside ==
  LET t == model.rootNode
      Lands(target, dragged, side) ==
        LET move == computeMoveNode(model, target, dragged, side, FALSE)
            after == updateTree(Applied(model, move, Fresh(1)), TRUE).rootNode
            pair == IF side \in {"top", "left"} THEN <<dragged, target>> ELSE <<target, dragged>>
        IN  \E g \in Nodes(after) : \E i \in 1..(Len(g.kids) - 1) :
              g.dir = Axis(side) /\ <<g.kids[i].id, g.kids[i + 1].id>> = pair
  IN  HandlersRun /\ Settled /\ pending = NoPending /\ t = balanceNode(t) =>
        \A target, dragged \in PaneIds(t), side \in {"top", "bottom", "left", "right"} :
          target # dragged => Lands(target, dragged, side)

-----------------------------------------------------------------------------
(* What a step may never do. *)

\* Dropping a pane, and giving a drag up, loses no pane; a drop shows no other
\* pane than the dragged one (CommitPendingAction).
DropKeepsPanes ==
  [][pending # NoPending /\ pending' = NoPending =>
       LET dragged == IF pending.type = "move" THEN {pending.node.block} ELSE {}
           before == BlocksOf(model.rootNode)
       IN  before \subseteq BlocksOf(model'.rootNode)
             /\ BlocksOf(model'.rootNode) \subseteq before \cup dragged]_vars

\* Closing panes, the end of a batch, showing the tab: whatever only takes panes
\* away leaves the others in their reading order, however the groups around them
\* are dissolved (deleteNode, balanceNode).
RemovalKeepsOrder ==
  [][Settled' /\ ~(pending # NoPending /\ pending' = NoPending) /\ model'.rootNode # model.rootNode
     => LET before == Panes(model.rootNode)
            after == Panes(model'.rootNode)
            left == {n.id : n \in ToSet(after)}
        IN  left \subseteq {n.id : n \in ToSet(before)} =>
              [i \in DOMAIN after |-> after[i].block]
                = LET kept == SelectSeq(before, LAMBDA n : n.id \in left)
                  IN  [i \in DOMAIN kept |-> kept[i].block]]_vars

\* Closing a pane leaves the focus on a pane that is shown; if the focused pane
\* was closed, on the one focused last among those that remain.  Closing the
\* only pane of the tree is the exception (deleteNode, validateFocusedNode).
ClosingRefocuses ==
  [][/\ Settled /\ Settled' /\ model' # model
     /\ model.focusedNodeId \in ShownIds(model)
     /\ Cardinality(ShownIds(model')) < Cardinality(ShownIds(model))
     /\ model'.rootNode # NoTree
     => /\ model'.focusedNodeId \in ShownIds(model')
        /\ LET left == SelectSeq(model.focusedNodeIdStack, LAMBDA id : id \in ShownIds(model'))
           IN  left # <<>> => model'.focusedNodeId = Head(left)]_vars

\* A magnified pane that goes away takes the magnification with it, unless
\* another pane took its place (closeNode, clearTree, replaceNode).
MagnificationKept ==
  [][/\ Settled /\ Settled' /\ model.magnifiedNodeId # Missing /\ model'.rootNode # model.rootNode
     /\ model.magnifiedNodeId \in PaneIds(model.rootNode)
     /\ Len(Panes(model'.rootNode)) # Len(Panes(model.rootNode))
     => model'.magnifiedNodeId \in PaneIds(model'.rootNode) \cup {Missing}]_vars

\* What an operation on some panes leaves alone: the panes of a drop, the order of the
\* others, the magnification.
EditsKeepTheRest == DropKeepsPanes /\ RemovalKeepsOrder /\ MagnificationKept

=============================================================================
