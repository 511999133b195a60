---------------------------- MODULE MCSnapApply ----------------------------
(***************************************************************************)
(* Snap on a tab.  Blocks are only compared, so they can be numbered in the *)
(* order in which they come up: the panes of the beginning are the first    *)
(* ones, those that Snap made before the others, and a new block is the     *)
(* first unused one.                                                        *)
(***************************************************************************)
EXTENDS SnapApply

CONSTANT MaxPanes   \* bound: panes at the beginning

MCBlocks(n) == {b \in Blocks : b <= n}

MCInit == /\ Init
          /\ \E panes \in 0..MaxPanes : tree = MCBlocks(panes)
          /\ \E made \in 0..MaxPanes : snapMade = MCBlocks(made)

NewBlocksInOrder == \A new \in unborn \ unborn', left \in unborn' : new < left

\* Bound: one application.
OnlyOne == pc = "idle" /\ pc' # "idle" => slots = 0

MCSpec == MCInit /\ [][Next /\ NewBlocksInOrder /\ OnlyOne]_vars
            /\ WF_vars(Apply /\ NewBlocksInOrder)
=============================================================================
