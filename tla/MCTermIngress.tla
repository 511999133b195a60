--------------------------- MODULE MCTermIngress ---------------------------
(* A pane that is opened while its program writes; the later chunks are marks. *)
EXTENDS TermIngress

\* Bound: much output with one clear and one failure, or more of these with little output.
Bounded == counts'.chunks <= 1 \/ (counts'.clears <= 1 /\ counts'.failures <= 1)
MCSpec == Init /\ [][Next /\ Bounded]_vars /\ Fairness
=============================================================================
