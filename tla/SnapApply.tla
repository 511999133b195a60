----------------------------- MODULE SnapApply -----------------------------
(***************************************************************************)
(* Applying a Snap preset to a tab (frontend/app/workspace/snapApply.ts,    *)
(* snapLayoutHost.ts, snapReclaim.ts): the panes fill the slots of the      *)
(* preset, missing ones are created, panes that are too many are removed if *)
(* Snap made them and nobody has used them.  Every step waits for the       *)
(* backend, and the user goes on working in between.                        *)
(*                                                                         *)
(* The layout is the set of blocks it shows: where a pane is does not       *)
(* matter to any decision of this code.  Positions, and the tree itself,    *)
(* are in LayoutModel.                                                      *)
(***************************************************************************)
EXTENDS Naturals, FiniteSets

CONSTANTS Blocks,      \* block ids, never used twice
          NoBlock,
          SlotCounts,  \* the numbers of slots of the presets
          MaxUserOps   \* bound: what the user does during one application

ASSUME BlocksAssumption == IsFiniteSet(Blocks) /\ NoBlock \notin Blocks
ASSUME BoundsAssumption == SlotCounts \subseteq Nat /\ MaxUserOps \in Nat

VARIABLES
  \* The tab.
  tab,        \* the blocks the tab owns (getTabBlockIds)
  tree,       \* the blocks the layout shows (getLeafBlockIds)
  unborn,     \* ids no block has had
  snapMade,   \* blocks with the meta key snap:autocreated
  typed,      \* blocks the user has typed in
  touched,    \* blocks whose meta key snap:touched this client has
  inserting,  \* blocks of createBlock that wait to be inserted
  closing,    \* blocks of closed panes whose deletion is on its way
  sweep,      \* blocks cleanupOrphanedBlocks is still going to delete
  userOps,    \* what the user has done
  \* The application.
  pc,         \* where it is
  depth,      \* snapApplyDepth
  slots, sticky,      \* the request: slots of the preset, the dragged pane
  existing,   \* the panes when it began
  reclaim,    \* the panes it is going to remove
  judged, good,       \* panes whose facts are read; those judged reclaimable
  need,       \* terminals still to create
  created,    \* terminals it has created to fill slots
  previous,   \* captureTreeSnapshot
  target, ok, \* the pane being confirmed, and what its meta said
  removed,    \* panes it has removed
  toReplace, replacements, unreplaced,  \* compensation: left, made, failed
  toDelete, leaked,   \* blocks to be deleted again; those that could not be
  marked      \* touched as it was at the commit; no decision reads it

env == <<unborn, snapMade, typed, touched, inserting, closing, sweep, userOps>>
request == <<slots, sticky, existing>>
plan == <<reclaim, judged, good>>
making == <<need, created, previous, marked>>
removing == <<target, ok, removed>>
repairing == <<toReplace, replacements, unreplaced, toDelete, leaked>>
vars == <<tab, tree, env, pc, depth, request, plan, making, removing, repairing>>

-----------------------------------------------------------------------------
(* judgeReclaimablePane on what the meta of the block says.  The other rules *)
(* (focus, connection, job, runtime status, journal) may refuse any pane.    *)
Reclaimable(b) == b \in snapMade /\ b \notin touched /\ b # sticky

\* No handler runs between these steps of the application and the next.
Urgent == \/ pc = "filling" /\ need = 0
          \/ pc = "reclaiming"
          \/ pc = "replacing" /\ toReplace = {}

Kept == (existing \ reclaim) \cup {sticky}

\* endApply, in the finally.
End == pc' = "idle" /\ depth' = depth - 1

-----------------------------------------------------------------------------
(* applySnapPreset *)

\* A request that is refused changes nothing: the dragged pane and every other
\* pane have to belong to the tab.  The dragged pane was shown when the drag began
\* and may have been closed since.
Begins(k, s) ==
  /\ pc = "idle"
  /\ s \in tab /\ s \in tree \cup closing
  /\ tree \subseteq tab
  /\ slots' = k /\ sticky' = s /\ existing' = tree
  /\ created' = {} /\ removed' = {} /\ marked' = {} /\ target' = NoBlock /\ ok' = FALSE
  /\ toReplace' = {} /\ replacements' = {} /\ unreplaced' = {}
  /\ toDelete' = {} /\ leaked' = {}
  /\ reclaim' = {} /\ judged' = {} /\ good' = {}
  /\ UNCHANGED <<tab, tree, env>>

\* The panes fit: beginApply, and the slots that are left are to be filled.
StartGrow(k, s) ==
  /\ Begins(k, s)
  /\ Cardinality(tree \cup {s}) <= k
  /\ need' = k - Cardinality(tree \cup {s})
  /\ previous' = tree
  /\ depth' = depth + 1
  /\ pc' = "filling"

\* There are too many: planReclaim collects facts about all of them.  (With a
\* dragged pane that is not among them the request is always refused.)
StartShrink(k, s) ==
  /\ Begins(k, s)
  /\ s \in tree
  /\ Cardinality(tree) > k
  /\ need' = 0
  /\ previous' = tree
  /\ depth' = depth
  /\ pc' = "planning"

\* collectPaneFacts reads one pane after the other and waits in between.
ReadFacts(b) ==
  /\ pc \in {"planning", "verifying"}
  /\ b \in existing \ judged
  /\ judged' = judged \cup {b}
  /\ good' \in IF Reclaimable(b) THEN {good, good \cup {b}} ELSE {good}
  /\ UNCHANGED <<tab, tree, env, pc, depth, request, reclaim, making, removing, repairing>>

\* planReclaim and beginApply; then reverifyReclaim starts, unless the panes have
\* changed, and reads the facts again.
PlanDone(r) ==
  /\ pc = "planning"
  /\ judged = existing /\ existing \subseteq tab
  /\ r \subseteq good
  /\ Cardinality(r) = Cardinality(existing) - slots
  /\ tree = existing
  /\ reclaim' = r
  /\ judged' = {} /\ good' = {}
  /\ previous' = tree
  /\ depth' = depth + 1
  /\ pc' = "verifying"
  /\ UNCHANGED <<tab, tree, env, request, need, created, marked, removing, repairing>>

\* The plan is refused: facts cannot be read, or do not allow it.
PlanRefused ==
  /\ pc = "planning"
  /\ pc' = "idle"
  /\ UNCHANGED <<tab, tree, env, depth, request, plan, making, removing, repairing>>

\* reverifyReclaim has found the same panes to remove.
VerifyDone ==
  /\ pc = "verifying"
  /\ judged = existing /\ existing \subseteq tab
  /\ reclaim \subseteq good
  /\ pc' = "filling"
  /\ UNCHANGED <<tab, tree, env, depth, request, plan, making, removing, repairing>>

VerifyRefused ==
  /\ pc = "verifying"
  /\ End
  /\ UNCHANGED <<tab, tree, env, request, plan, making, removing, repairing>>

-----------------------------------------------------------------------------
(* applyToSlots: fill the slots, commit, remove. *)

\* createLocalTerminal
Create(b) ==
  /\ pc = "filling" /\ need > 0
  /\ b \in unborn
  /\ unborn' = unborn \ {b}
  /\ tab' = tab \cup {b}
  /\ snapMade' = snapMade \cup {b}
  /\ created' = created \cup {b}
  /\ need' = need - 1
  /\ UNCHANGED <<tree, typed, touched, inserting, closing, sweep, userOps, pc, depth,
                 request, plan, previous, marked, removing, repairing>>

CreateFails ==
  /\ pc = "filling" /\ need > 0
  /\ toDelete' = created
  /\ pc' = "rollback"
  /\ UNCHANGED <<tab, tree, env, depth, request, plan, making, removing,
                 toReplace, replacements, unreplaced, leaked>>

\* A mutant: the slots of the created terminals stay empty.
CommitWithoutCreated ==
  /\ pc = "filling" /\ need = 0
  /\ tree' = Kept
  /\ marked' = touched
  /\ pc' = "reclaiming"
  /\ UNCHANGED <<tab, env, depth, request, plan, need, created, previous, removing, repairing>>

\* commitTree: the slots get the kept panes, as they were when the application
\* began, and the created ones.
Commit ==
  /\ pc = "filling" /\ need = 0
  /\ tree' = Kept \cup created
  /\ marked' = touched
  /\ pc' = "reclaiming"
  /\ UNCHANGED <<tab, env, depth, request, plan, need, created, previous, removing, repairing>>

\* The model puts the previous layout back and the created blocks go.
CommitThrows ==
  /\ pc = "filling" /\ need = 0
  /\ toDelete' = created
  /\ pc' = "rollback"
  /\ UNCHANGED <<tab, tree, env, depth, request, plan, making, removing,
                 toReplace, replacements, unreplaced, leaked>>

\* A mutant: the facts of the plan are good enough.
ConfirmStartBlind(b) ==
  /\ pc = "reclaiming"
  /\ b \in reclaim \ removed
  /\ b \in tab
  /\ target' = b
  /\ ok' = TRUE
  /\ pc' = "confirming"
  /\ UNCHANGED <<tab, tree, env, depth, request, plan, making, removed, repairing>>

\* confirmReclaimableNow up to the facts, whose meta is read before it waits.
ConfirmStart(b) ==
  /\ pc = "reclaiming"
  /\ b \in reclaim \ removed
  /\ b \in tab /\ b \notin tree
  /\ target' = b
  /\ ok' = Reclaimable(b)
  /\ pc' = "confirming"
  /\ UNCHANGED <<tab, tree, env, depth, request, plan, making, removed, repairing>>

\* The rest of it, and the call that deletes the block.
ConfirmEnd ==
  /\ pc = "confirming"
  /\ target \in tab /\ ok
  /\ pc' = "deleting"
  /\ UNCHANGED <<tab, tree, env, depth, request, plan, making, removing, repairing>>

Deleted ==
  /\ pc = "deleting"
  /\ tab' = tab \ {target}
  /\ removed' = removed \cup {target}
  /\ pc' = "reclaiming"
  /\ UNCHANGED <<tree, env, depth, request, plan, making, target, ok, repairing>>

Finish ==
  /\ pc = "reclaiming"
  /\ reclaim = removed
  /\ End
  /\ UNCHANGED <<tab, tree, env, request, plan, making, removing, repairing>>

-----------------------------------------------------------------------------
(* compensateFailedReclaim and rollback *)

Compensates ==
  /\ toReplace' = removed
  /\ pc' = "replacing"
  /\ UNCHANGED <<tab, tree, env, depth, request, plan, making, removing,
                 replacements, unreplaced, toDelete, leaked>>

\* The pane may not be removed any more (its facts may also say so), or its
\* deletion failed.
ConfirmRefused ==
  /\ \/ /\ pc = "reclaiming"
        /\ \E b \in reclaim \ removed : b \notin tab \/ b \in tree
     \/ pc \in {"confirming", "deleting"}
  /\ Compensates

Replace(b) ==
  /\ pc = "replacing"
  /\ b \in unborn
  /\ \E r \in toReplace : toReplace' = toReplace \ {r}
  /\ unborn' = unborn \ {b}
  /\ tab' = tab \cup {b}
  /\ snapMade' = snapMade \cup {b}
  /\ replacements' = replacements \cup {b}
  /\ UNCHANGED <<tree, typed, touched, inserting, closing, sweep, userOps, pc, depth,
                 request, plan, making, removing, unreplaced, toDelete, leaked>>

ReplaceFails ==
  /\ pc = "replacing"
  /\ \E r \in toReplace : toReplace' = toReplace \ {r} /\ unreplaced' = unreplaced \cup {r}
  /\ UNCHANGED <<tab, tree, env, pc, depth, request, plan, making, removing,
                 replacements, toDelete, leaked>>

\* restorePreviousTree, unless a removed pane has no replacement; it may throw.  The
\* removed panes that are still in the snapshot are substituted, whichever replacements
\* they got.  What the final layout does not show is deleted.
Restored ==
  {(previous \ removed) \cup shown : shown \in
     {R \in SUBSET replacements : Cardinality(R) = Cardinality(removed \cap previous)}}

\* A mutant: everything that was created is deleted again.
RestoreDeletesAll ==
  /\ pc = "replacing" /\ toReplace = {}
  /\ tree' \in IF unreplaced = {} THEN {tree} \cup Restored ELSE {tree}
  /\ toDelete' = created \cup replacements
  /\ pc' = "rollback"
  /\ UNCHANGED <<tab, env, depth, request, plan, making, removing,
                 toReplace, replacements, unreplaced, leaked>>

Restore ==
  /\ pc = "replacing" /\ toReplace = {}
  /\ tree' \in IF unreplaced = {} THEN {tree} \cup Restored ELSE {tree}
  /\ toDelete' = (created \cup replacements) \ tree'
  /\ pc' = "rollback"
  /\ UNCHANGED <<tab, env, depth, request, plan, making, removing,
                 toReplace, replacements, unreplaced, leaked>>

\* A mutant: a block that could not be deleted is dropped silently.
RollbackForgets(b) ==
  /\ pc = "rollback"
  /\ b \in toDelete
  /\ toDelete' = toDelete \ {b}
  /\ UNCHANGED <<tab, tree, env, pc, depth, request, plan, making, removing,
                 toReplace, replacements, unreplaced, leaked>>

RollbackDeletes(b) ==
  /\ pc = "rollback"
  /\ b \in toDelete
  /\ tab' = tab \ {b}
  /\ toDelete' = toDelete \ {b}
  /\ UNCHANGED <<tree, env, pc, depth, request, plan, making, removing,
                 toReplace, replacements, unreplaced, leaked>>

RollbackFails(b) ==
  /\ pc = "rollback"
  /\ b \in toDelete
  /\ toDelete' = toDelete \ {b}
  /\ leaked' = leaked \cup {b}
  /\ UNCHANGED <<tab, tree, env, pc, depth, request, plan, making, removing,
                 toReplace, replacements, unreplaced>>

\* A mutant: the application waits until every block is gone.
RollbackDoneWaits ==
  /\ pc = "rollback"
  /\ toDelete = {} /\ leaked = {}
  /\ End
  /\ UNCHANGED <<tab, tree, env, request, plan, making, removing, repairing>>

RollbackDone ==
  /\ pc = "rollback"
  /\ toDelete = {}
  /\ End
  /\ UNCHANGED <<tab, tree, env, request, plan, making, removing, repairing>>

-----------------------------------------------------------------------------
(* What goes on meanwhile. *)

application == <<pc, depth, request, plan, need, created, marked, removing, repairing>>

UserActs == ~Urgent /\ userOps < MaxUserOps /\ userOps' = userOps + 1

\* The snapshot is taken by reference and the reducers change the tree in place:
\* until the commit it usually follows, unless the change replaces the root.
SnapshotFollows ==
  previous' \in IF pc \in {"verifying", "filling"} THEN {previous, tree'} ELSE {previous}

\* closeNode: the pane goes at once, its block when the backend has deleted it.
UserClose(b) ==
  /\ UserActs
  /\ b \in tree
  /\ tree' = tree \ {b}
  /\ closing' = closing \cup {b}
  /\ SnapshotFollows
  /\ UNCHANGED <<tab, unborn, snapMade, typed, touched, inserting, sweep, application>>

CloseDone(b) ==
  /\ ~Urgent
  /\ b \in closing
  /\ closing' = closing \ {b}
  /\ tab' = tab \ {b}
  /\ UNCHANGED <<tree, unborn, snapMade, typed, touched, inserting, sweep, userOps,
                 application, previous>>

\* createBlock: the block belongs to the tab before the layout shows it.
UserCreate(b) ==
  /\ UserActs
  /\ b \in unborn
  /\ unborn' = unborn \ {b}
  /\ tab' = tab \cup {b}
  /\ inserting' = inserting \cup {b}
  /\ UNCHANGED <<tree, snapMade, typed, touched, closing, sweep, application, previous>>

InsertCreated(b) ==
  /\ ~Urgent
  /\ b \in inserting
  /\ inserting' = inserting \ {b}
  /\ tree' = tree \cup {b}
  /\ SnapshotFollows
  /\ UNCHANGED <<tab, unborn, snapMade, typed, touched, closing, sweep, userOps, application>>

\* The user types into a pane; markSnapTerminalTouched sends the meta key ...
UserTypes(b) ==
  /\ UserActs
  /\ b \in tree \ typed
  /\ typed' = typed \cup {b}
  /\ UNCHANGED <<tab, tree, unborn, snapMade, touched, inserting, closing, sweep,
                 application, previous>>

\* ... and some time later this client has it.
TouchArrives(b) ==
  /\ ~Urgent
  /\ b \in (typed \cap snapMade) \ touched
  /\ touched' = touched \cup {b}
  /\ UNCHANGED <<tab, tree, unborn, snapMade, typed, inserting, closing, sweep, userOps,
                 application, previous>>

\* A mutant: cleanup does not know about applications.
CleanupAlways ==
  /\ ~Urgent
  /\ sweep = {}
  /\ tree # {}
  /\ tab \ tree # {}
  /\ sweep' = tab \ tree
  /\ UNCHANGED <<tab, tree, unborn, snapMade, typed, touched, inserting, closing, userOps,
                 application, previous>>

\* cleanupOrphanedBlocks decides once and deletes one block after the other.
Cleanup ==
  /\ ~Urgent
  /\ depth = 0
  /\ sweep = {}
  /\ tree # {}
  /\ tab \ tree # {}
  /\ sweep' = tab \ tree
  /\ UNCHANGED <<tab, tree, unborn, snapMade, typed, touched, inserting, closing, userOps,
                 application, previous>>

CleanupDeletes(b) ==
  /\ ~Urgent
  /\ b \in sweep
  /\ sweep' = sweep \ {b}
  /\ tab' = tab \ {b}
  /\ UNCHANGED <<tree, unborn, snapMade, typed, touched, inserting, closing, userOps,
                 application, previous>>

-----------------------------------------------------------------------------
Init ==
  /\ tree \in SUBSET Blocks
  /\ tab = tree
  /\ unborn = Blocks \ tree
  /\ snapMade \in SUBSET tree
  /\ typed = {} /\ touched = {} /\ inserting = {} /\ closing = {} /\ sweep = {}
  /\ userOps = 0
  /\ pc = "idle" /\ depth = 0
  /\ slots = 0 /\ sticky = NoBlock /\ existing = {}
  /\ reclaim = {} /\ judged = {} /\ good = {}
  /\ need = 0 /\ created = {} /\ previous = {} /\ marked = {}
  /\ target = NoBlock /\ ok = FALSE /\ removed = {}
  /\ toReplace = {} /\ replacements = {} /\ unreplaced = {} /\ toDelete = {} /\ leaked = {}

Start == \E k \in SlotCounts, s \in Blocks : StartGrow(k, s) \/ StartShrink(k, s)

Apply ==
  \/ \E b \in Blocks : ReadFacts(b)
  \/ \E r \in SUBSET existing : PlanDone(r)
  \/ PlanRefused \/ VerifyDone \/ VerifyRefused
  \/ \E b \in Blocks : Create(b) \/ Replace(b) \/ ConfirmStart(b)
  \/ CreateFails \/ Commit \/ CommitThrows
  \/ ConfirmEnd \/ Deleted \/ ConfirmRefused \/ Finish
  \/ ReplaceFails \/ Restore \/ RollbackDone
  \/ \E b \in Blocks : RollbackDeletes(b) \/ RollbackFails(b)

Meanwhile ==
  \/ \E b \in Blocks : \/ UserClose(b) \/ CloseDone(b) \/ UserCreate(b) \/ InsertCreated(b)
                       \/ UserTypes(b) \/ TouchArrives(b) \/ CleanupDeletes(b)
  \/ Cleanup

Next == Start \/ Apply \/ Meanwhile

Spec == Init /\ [][Next]_vars

\* The backend answers every call of the application, with success or not.
LiveSpec == Spec /\ WF_vars(Apply)

-----------------------------------------------------------------------------
\* Types.  The bracket that keeps orphan cleanup away is open while an
\* application runs and only then.
TypeOK ==
  /\ tab \subseteq Blocks \ unborn /\ tree \subseteq Blocks \ unborn
  /\ pc \in {"idle", "planning", "verifying", "filling", "reclaiming", "confirming",
             "deleting", "replacing", "rollback"}
  /\ depth = IF pc \in {"idle", "planning"} THEN 0 ELSE 1
  /\ need \in Nat
  /\ reclaim \subseteq existing /\ removed \subseteq reclaim

\* While the slots are being filled, and while removed panes are being replaced,
\* nothing deletes the terminals that were created for it: orphan cleanup, which
\* takes every block the layout does not show, stands down (beginSnapApply).
CreatedSurvive ==
  /\ pc = "filling" => created \subseteq tab
  /\ pc = "replacing" => replacements \subseteq tab

\* A pane that was known to be used when the layout was committed is not removed,
\* whatever was known when the removal was planned (confirmReclaimableNow).
ReclaimedWereUntouched == removed \cap marked = {}

\* When an application has ended, every terminal it created is shown, gone,
\* closed by the user or named as leaked (rollback, compensateFailedReclaim).
NoSilentLeak ==
  pc = "idle" => (created \cup replacements) \cap tab \subseteq tree \cup leaked \cup closing

\* The application deletes only terminals that Snap made, that the layout does
\* not show, and never the pane that was dragged.
SnapDeletesSafely ==
  [][(tab' # tab /\ pc \in {"deleting", "rollback"} /\ (pc' # pc \/ toDelete' # toDelete)) =>
       \A b \in tab \ tab' : b \in snapMade /\ b \notin tree /\ b # sticky]_vars

\* A committed layout has one pane for each slot, the dragged one among them.
CommitCovers ==
  [][pc = "filling" /\ pc' = "reclaiming" =>
       Cardinality(tree') = slots /\ sticky \in tree']_vars

\* Every application ends, however many calls fail.
ApplyEnds == pc # "idle" ~> pc = "idle"

\* A pane the user typed in is not removed.
TypedIsKept == removed \cap typed = {}

\* A block that does not belong to the tab does not get into the new layout.
CommittedPanesAreOwned == [][pc = "filling" /\ pc' = "reclaiming" => tree' \subseteq tab]_vars

=============================================================================
