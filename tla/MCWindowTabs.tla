---------------------------- MODULE MCWindowTabs ----------------------------
(* A window on a workspace of two tabs, another workspace with one tab, and one *)
(* tab still to be made.                                                        *)
EXTENDS WindowTabsProofs
Home == [ws \in Workspaces |-> IF ws = "w1" THEN <<"t1", "t2">> ELSE <<"t3">>]

\* Bound: one thing besides the requests of the user happens, a failure or an update.
OneDisturbance == counts'.updates + counts'.failures <= 1
MCSpec == Init /\ [][Next /\ OneDisturbance]_vars
=============================================================================
