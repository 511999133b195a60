---------------------------- MODULE MCJobStream ----------------------------
(***************************************************************************)
(* JobStream on small rings and windows.  JobStreamProofs brings the       *)
(* invariants of the proofs, IInv and OneInv, so that a cfg can name them. *)
(***************************************************************************)
EXTENDS JobStreamProofs
=============================================================================
