-------------------------- MODULE SnapApplyProofs --------------------------
(***************************************************************************)
(* What holds of a Snap application whatever the user, the backend and      *)
(* orphan cleanup do meanwhile.  The inductive invariant says of every      *)
(* block where it can still be: a block that was never born, or that waits  *)
(* to be inserted, is in no part of the application, and a terminal the     *)
(* application created is in reach of nobody else until it is shown.        *)
(***************************************************************************)
EXTENDS SnapApply, FiniteSetTheorems, TLAPS

Born == Blocks \ unborn

\* A block has been born before anything knows it.
Known ==
  /\ unborn \subseteq Blocks
  /\ snapMade \subseteq Born /\ inserting \subseteq Born /\ closing \subseteq Born
  /\ sweep \subseteq Born /\ existing \subseteq Born /\ previous \subseteq Born
  /\ created \subseteq Born /\ replacements \subseteq Born
  /\ sticky \notin unborn /\ (pc # "idle" => sticky \in Blocks)
  /\ slots \in Nat

\* A block that waits to be inserted is nowhere else: it cannot come back as a
\* pane the application is about to delete.
WaitingAreApart ==
  inserting \cap (tree \cup closing \cup existing \cup previous \cup created
                  \cup replacements \cup {sticky}) = {}

\* What the application made is marked as Snap's and is none of what was there;
\* until it is shown nothing else can reach it.
CreatedAreApart ==
  /\ created \cup replacements \subseteq snapMade
  /\ (existing \cup {sticky}) \cap (created \cup replacements) = {}
  /\ pc \in {"planning", "verifying"} => created = {}
  /\ pc \in {"planning", "verifying", "filling", "reclaiming", "confirming", "deleting"} =>
       replacements = {}
  /\ pc \in {"verifying", "filling"} =>
       created \subseteq tab \ (tree \cup closing \cup sweep \cup inserting)
  /\ pc = "replacing" =>
       replacements \subseteq tab \ (tree \cup closing \cup sweep \cup inserting)

\* The panes to be removed, and the one that is being confirmed.
ReclaimIsSafe ==
  /\ pc = "planning" => reclaim = {} /\ need = 0 /\ sticky \in existing
  /\ pc \in {"planning", "verifying", "filling"} => removed = {}
  /\ good \subseteq existing /\ good \subseteq snapMade \ {sticky}
  /\ reclaim \subseteq snapMade \ {sticky}
  /\ marked \subseteq touched
  /\ pc \in {"confirming", "deleting"} =>
       target \in reclaim \ tree /\ (ok => target \notin marked)
  /\ pc = "deleting" => ok

\* Where the created terminals are while the application cleans up.
Accounted ==
  LET alive == (created \cup replacements) \cap tab
  IN  /\ pc \in {"reclaiming", "confirming", "deleting"} => alive \subseteq tree \cup closing
      /\ pc = "replacing" => created \cap tab \subseteq tree \cup closing
      /\ pc = "rollback" => /\ alive \subseteq tree \cup closing \cup toDelete \cup leaked
                            /\ toDelete \subseteq (created \cup replacements) \ tree

\* The slots that are not filled yet are those that remain.
SlotsAreCounted ==
  pc \in {"verifying", "filling"} =>
    Cardinality(Kept) + Cardinality(created) + need = slots

Inv == /\ TypeOK /\ Known /\ WaitingAreApart /\ CreatedAreApart /\ ReclaimIsSafe /\ Accounted
       /\ SlotsAreCounted /\ ReclaimedWereUntouched /\ NoSilentLeak

\* An application that has not begun satisfies all of it.
LEMMA Initial == Init => Inv
<1> SUFFICES ASSUME Init PROVE Inv
  OBVIOUS
<1>1. NoBlock \notin Blocks
  BY BlocksAssumption
<1>2. TypeOK /\ Known /\ WaitingAreApart /\ CreatedAreApart /\ ReclaimIsSafe /\ Accounted
  BY <1>1 DEF Init, TypeOK, Known, Born, WaitingAreApart, CreatedAreApart, ReclaimIsSafe, Accounted
<1>. QED BY <1>2 DEF Init, Inv, SlotsAreCounted, ReclaimedWereUntouched, NoSilentLeak

-----------------------------------------------------------------------------
(* The steps that count slots. *)

\* Sets of blocks are finite.
LEMMA BlockSetsAreFinite ==
  ASSUME NEW S, S \subseteq Blocks
  PROVE  IsFiniteSet(S) /\ Cardinality(S) \in Nat
  BY BlocksAssumption, FS_Subset, FS_CardinalityType

\* The slots the panes do not fill are to be filled with created terminals.
LEMMA StartGrowKeeps ==
  ASSUME Inv, NEW k \in SlotCounts, NEW s \in Blocks, StartGrow(k, s)
  PROVE  Inv'
<1> USE DEF Inv, TypeOK, Known, Born, StartGrow, Begins, env
<1>1. k \in Nat /\ Cardinality(tree \cup {s}) \in Nat
  BY BoundsAssumption, BlockSetsAreFinite
<1>2. TypeOK' /\ Known' /\ WaitingAreApart'
  BY <1>1 DEF WaitingAreApart
<1>3. CreatedAreApart' /\ ReclaimIsSafe' /\ Accounted' /\ ReclaimedWereUntouched' /\ NoSilentLeak'
  BY DEF CreatedAreApart, ReclaimIsSafe, Accounted, ReclaimedWereUntouched, NoSilentLeak
<1>4. SlotsAreCounted'
  <2>1. Kept' = tree \cup {s} /\ created' = {}
    BY DEF Kept
  <2>2. Cardinality(created') = 0
    BY <2>1, FS_EmptySet
  <2>. QED BY <1>1, <2>1, <2>2 DEF SlotsAreCounted
<1>. QED BY <1>2, <1>3, <1>4

\* A request that does not fit begins to plan.
LEMMA StartShrinkKeeps ==
  ASSUME Inv, NEW k \in SlotCounts, NEW s \in Blocks, StartShrink(k, s)
  PROVE  Inv'
<1> k \in Nat
  BY BoundsAssumption
<1>. QED
  BY DEF Inv, StartShrink, Begins, env, TypeOK, Known, Born, WaitingAreApart, CreatedAreApart,
         ReclaimIsSafe, Accounted, SlotsAreCounted, ReclaimedWereUntouched, NoSilentLeak

\* The plan removes exactly the panes that are too many, and not the dragged one.
LEMMA PlanDoneKeeps ==
  ASSUME Inv, NEW r \in SUBSET existing, PlanDone(r)
  PROVE  Inv'
<1> USE DEF Inv, TypeOK, Known, Born, PlanDone, env, request
<1>1. TypeOK' /\ Known' /\ WaitingAreApart'
  BY DEF WaitingAreApart, making, removing, repairing, ReclaimIsSafe
<1>2. CreatedAreApart' /\ ReclaimIsSafe' /\ Accounted' /\ ReclaimedWereUntouched' /\ NoSilentLeak'
  BY DEF CreatedAreApart, ReclaimIsSafe, Accounted, ReclaimedWereUntouched, NoSilentLeak,
         removing, repairing, WaitingAreApart
<1>3. SlotsAreCounted'
  <2>1. Kept' = existing \ r /\ created' = {}
    BY DEF Kept, ReclaimIsSafe, CreatedAreApart
  <2>2. need' = 0
    BY DEF ReclaimIsSafe, removing, making
  <2>3. Cardinality(existing \ r) = Cardinality(existing) - Cardinality(r)
    <3>1. IsFiniteSet(existing) /\ existing \cap r = r
      BY BlockSetsAreFinite
    <3>. QED BY <3>1, FS_Difference
  <2>4. Cardinality(existing) \in Nat /\ Cardinality(r) \in Nat /\ Cardinality({}) = 0
    BY BlockSetsAreFinite, FS_EmptySet
  <2>. QED BY <2>1, <2>2, <2>3, <2>4 DEF SlotsAreCounted
<1>. QED BY <1>1, <1>2, <1>3

\* A terminal nobody knows yet fills a slot.
LEMMA CreateKeeps ==
  ASSUME Inv, NEW b \in Blocks, Create(b)
  PROVE  Inv'
<1> USE DEF Inv, TypeOK, Known, Born, Create, request, plan
<1>1. TypeOK' /\ Known' /\ WaitingAreApart'
  BY DEF WaitingAreApart, removing, repairing
<1>2. CreatedAreApart' /\ ReclaimIsSafe' /\ Accounted' /\ ReclaimedWereUntouched' /\ NoSilentLeak'
  BY DEF CreatedAreApart, ReclaimIsSafe, Accounted, ReclaimedWereUntouched, NoSilentLeak,
         removing, repairing
<1>3. SlotsAreCounted'
  <2>1. Kept' = Kept /\ b \notin created
    BY DEF Kept
  <2>2. Cardinality(created \cup {b}) = Cardinality(created) + 1
    BY <2>1, BlockSetsAreFinite, FS_AddElement
  <2>3. Cardinality(created) \in Nat /\ Cardinality(Kept) \in Nat
    <3>1. Kept \subseteq Blocks /\ created \subseteq Blocks
      BY DEF Kept
    <3>. QED BY <3>1, BlockSetsAreFinite
  <2>. QED BY <2>1, <2>2, <2>3 DEF SlotsAreCounted
<1>. QED BY <1>1, <1>2, <1>3

-----------------------------------------------------------------------------
(* The other steps. *)

\* Every step of the application.
LEMMA ApplyKeeps == Inv /\ (Start \/ Apply) => Inv'
<1> SUFFICES ASSUME Inv, Start \/ Apply PROVE Inv'
  OBVIOUS
<1>1. CASE Start
  BY <1>1, StartGrowKeeps, StartShrinkKeeps DEF Start
<1>2. ASSUME NEW r \in SUBSET existing, PlanDone(r) PROVE Inv'
  BY <1>2, PlanDoneKeeps
<1>3. ASSUME NEW b \in Blocks, Create(b) PROVE Inv'
  BY <1>3, CreateKeeps
<1> USE DEF Inv, TypeOK, Known, Born, WaitingAreApart, CreatedAreApart, ReclaimIsSafe,
            Accounted, SlotsAreCounted, Kept, ReclaimedWereUntouched, NoSilentLeak,
            env, request, plan, making, removing, repairing
<1>4. ASSUME NEW b \in Blocks, ReadFacts(b) PROVE Inv'
  BY <1>4 DEF ReadFacts, Reclaimable
<1>5. ASSUME PlanRefused PROVE Inv'
  BY <1>5 DEF PlanRefused
<1>6. ASSUME VerifyDone PROVE Inv'
  BY <1>6 DEF VerifyDone
<1>7. ASSUME VerifyRefused PROVE Inv'
  BY <1>7 DEF VerifyRefused, End
<1>8. ASSUME CreateFails PROVE Inv'
  BY <1>8 DEF CreateFails
<1>9. ASSUME Commit PROVE Inv'
  BY <1>9 DEF Commit, Kept
<1>10. ASSUME CommitThrows PROVE Inv'
  BY <1>10 DEF CommitThrows
<1>11. ASSUME NEW b \in Blocks, ConfirmStart(b) PROVE Inv'
  BY <1>11 DEF ConfirmStart, Reclaimable
<1>12. ASSUME ConfirmEnd PROVE Inv'
  BY <1>12 DEF ConfirmEnd
<1>13. ASSUME Deleted PROVE Inv'
  BY <1>13 DEF Deleted
<1>14. ASSUME Finish PROVE Inv'
  BY <1>14 DEF Finish, End
<1>15. ASSUME ConfirmRefused PROVE Inv'
  BY <1>15 DEF ConfirmRefused, Compensates
<1>16. ASSUME NEW b \in Blocks, Replace(b) PROVE Inv'
  BY <1>16 DEF Replace
<1>17. ASSUME ReplaceFails PROVE Inv'
  BY <1>17 DEF ReplaceFails
<1>18. ASSUME Restore PROVE Inv'
  BY <1>18 DEF Restore, Restored
<1>19. ASSUME NEW b \in Blocks, RollbackDeletes(b) PROVE Inv'
  BY <1>19 DEF RollbackDeletes
<1>20. ASSUME NEW b \in Blocks, RollbackFails(b) PROVE Inv'
  BY <1>20 DEF RollbackFails
<1>21. ASSUME RollbackDone PROVE Inv'
  BY <1>21 DEF RollbackDone, End
<1> HIDE DEF Inv
<1>. QED BY <1>1, <1>2, <1>3, <1>4, <1>5, <1>6, <1>7, <1>8, <1>9, <1>10, <1>11, <1>12, <1>13, <1>14, <1>15, <1>16, <1>17, <1>18, <1>19, <1>20, <1>21 DEF Apply

\* What the user, the backend and cleanup do meanwhile.
LEMMA MeanwhileKeeps == Inv /\ Meanwhile => Inv'
<1> SUFFICES ASSUME Inv, Meanwhile PROVE Inv'
  OBVIOUS
<1> USE DEF Inv, TypeOK, Known, Born, WaitingAreApart, CreatedAreApart, ReclaimIsSafe,
            Accounted, SlotsAreCounted, Kept, ReclaimedWereUntouched, NoSilentLeak,
            env, request, plan, making, removing, repairing
<1> USE DEF Urgent, application
<1>1. ASSUME NEW b \in Blocks, UserClose(b) PROVE Inv'
  BY <1>1 DEF UserClose, UserActs, SnapshotFollows
<1>2. ASSUME NEW b \in Blocks, CloseDone(b) PROVE Inv'
  BY <1>2 DEF CloseDone
<1>3. ASSUME NEW b \in Blocks, UserCreate(b) PROVE Inv'
  BY <1>3 DEF UserCreate, UserActs
<1>4. ASSUME NEW b \in Blocks, InsertCreated(b) PROVE Inv'
  BY <1>4 DEF InsertCreated, SnapshotFollows
<1>5. ASSUME NEW b \in Blocks, UserTypes(b) PROVE Inv'
  BY <1>5 DEF UserTypes, UserActs
<1>6. ASSUME NEW b \in Blocks, TouchArrives(b) PROVE Inv'
  BY <1>6 DEF TouchArrives
<1>7. ASSUME Cleanup PROVE Inv'
  BY <1>7 DEF Cleanup
<1>8. ASSUME NEW b \in Blocks, CleanupDeletes(b) PROVE Inv'
  BY <1>8 DEF CleanupDeletes
<1> HIDE DEF Inv
<1>. QED BY <1>1, <1>2, <1>3, <1>4, <1>5, <1>6, <1>7, <1>8 DEF Meanwhile

\* No step breaks the invariant.
LEMMA Step == Inv /\ [Next]_vars => Inv'
<1> SUFFICES ASSUME Inv, [Next]_vars PROVE Inv'
  OBVIOUS
<1>1. CASE Next
  BY <1>1, ApplyKeeps, MeanwhileKeeps DEF Next
<1>2. CASE UNCHANGED vars
  BY <1>2 DEF vars, env, request, plan, making, removing, repairing, Inv, TypeOK, Known, Born,
              WaitingAreApart, CreatedAreApart, ReclaimIsSafe, Accounted, SlotsAreCounted, Kept,
              ReclaimedWereUntouched, NoSilentLeak
<1>. QED BY <1>1, <1>2

\* The invariant holds in every behaviour.
THEOREM Invariance == Spec => []Inv
  BY Initial, Step, PTL DEF Spec

-----------------------------------------------------------------------------
\* No terminal is deleted between its creation and the commit that shows it
\* (createLocalTerminal, beginSnapApply).
THEOREM CreatedTerminalsSurvive == Spec => []CreatedSurvive
<1>1. Inv => CreatedSurvive
  BY DEF Inv, CreatedAreApart, CreatedSurvive
<1>. QED BY <1>1, Invariance, PTL

\* The application removes no pane that was known to be used when it committed
\* (confirmReclaimableNow).
THEOREM TouchedPanesAreKept == Spec => []ReclaimedWereUntouched
<1>1. Inv => ReclaimedWereUntouched
  BY DEF Inv
<1>. QED BY <1>1, Invariance, PTL

\* A terminal an application created is shown, closed, gone or reported when it
\* ends, whatever failed (rollback, compensateFailedReclaim).
THEOREM NothingLeaksSilently == Spec => []NoSilentLeak
<1>1. Inv => NoSilentLeak
  BY DEF Inv
<1>. QED BY <1>1, Invariance, PTL

\* Type correctness, with the bracket around every application (beginSnapApply,
\* endSnapApply).
THEOREM TypeCorrect == Spec => []TypeOK
<1>1. Inv => TypeOK
  BY DEF Inv
<1>. QED BY <1>1, Invariance, PTL

\* A committed layout has a pane for each slot (planSnapAssignment, planReclaim).
THEOREM CommitsCoverThePreset == Spec => CommitCovers
<1>1. Inv /\ [Next]_vars =>
        [pc = "filling" /\ pc' = "reclaiming" =>
           Cardinality(tree') = slots /\ sticky \in tree']_vars
  <2> SUFFICES ASSUME Inv, [Next]_vars, pc = "filling", pc' = "reclaiming"
               PROVE  Cardinality(tree') = slots /\ sticky \in tree'
    OBVIOUS
  <2>1. tree' = Kept \cup created /\ need = 0
    <3>1. Commit \/ pc' = pc \/ pc # "filling" \/ pc' # "reclaiming"
      BY DEF Next, Start, Apply, Meanwhile, vars, StartGrow, StartShrink, Begins, ReadFacts, PlanDone, PlanRefused, VerifyDone, VerifyRefused,
             Create, CreateFails, CommitThrows, ConfirmStart, ConfirmEnd, ConfirmRefused, Compensates,
             Finish, Replace, ReplaceFails, Restore, RollbackFails, RollbackDone, End, Deleted,
             RollbackDeletes, UserClose, CloseDone, UserCreate, InsertCreated, UserTypes, TouchArrives, Cleanup,
             CleanupDeletes, application
    <3>. QED BY <3>1 DEF Commit
  <2>2. Kept \subseteq Blocks /\ created \subseteq Blocks /\ Kept \cap created = {} /\ sticky \in Kept
    BY DEF Inv, Known, Born, Kept, CreatedAreApart
  <2>3. Cardinality(Kept \cup created) = Cardinality(Kept) + Cardinality(created)
    BY <2>2, BlockSetsAreFinite, FS_Union, FS_EmptySet
  <2>. QED BY <2>1, <2>2, <2>3, BlockSetsAreFinite DEF Inv, SlotsAreCounted
<1>. QED BY <1>1, Invariance, PTL DEF Spec, CommitCovers

\* What the application deletes Snap has made, is not shown, and is not the pane
\* that was dragged.
THEOREM OnlyFillersAreDeleted == Spec => SnapDeletesSafely
<1> DEFINE Deletes == tab' # tab /\ pc \in {"deleting", "rollback"} /\ (pc' # pc \/ toDelete' # toDelete)
           Safe == \A b \in tab \ tab' : b \in snapMade /\ b \notin tree /\ b # sticky
<1>1. Inv /\ [Next]_vars => [Deletes => Safe]_vars
  <2> SUFFICES ASSUME Inv, Next, Deletes
               PROVE  Safe
    BY DEF vars
  <2>1. Deleted \/ \E b \in Blocks : RollbackDeletes(b)
    BY DEF Next, Start, Apply, Meanwhile, env, request, plan, making, removing, repairing,
           StartGrow, StartShrink, Begins, ReadFacts, PlanDone, PlanRefused, VerifyDone, VerifyRefused,
           Create, CreateFails, CommitThrows, ConfirmStart, ConfirmEnd, ConfirmRefused, Compensates,
           Finish, Replace, ReplaceFails, Restore, RollbackFails, RollbackDone, End, Commit,
           UserClose, CloseDone, UserCreate, InsertCreated, UserTypes, TouchArrives, Cleanup,
           CleanupDeletes, application
  <2>2. CASE Deleted
    BY <2>2 DEF Deleted, Inv, ReclaimIsSafe
  <2>3. CASE \E b \in Blocks : RollbackDeletes(b)
    BY <2>3 DEF RollbackDeletes, Inv, Accounted, CreatedAreApart
  <2>. QED BY <2>1, <2>2, <2>3
<1>. QED BY <1>1, Invariance, PTL DEF Spec, SnapDeletesSafely

=============================================================================
