--------------------------- MODULE MCStreamManager ---------------------------
(***************************************************************************)
(* StreamManagerOpen with two streams and a ring that overflows.           *)
(***************************************************************************)
EXTENDS StreamManagerOpen
=============================================================================
