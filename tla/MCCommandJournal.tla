-------------------------- MODULE MCCommandJournal --------------------------
(* The command journal on small instances.  CommandJournalAgreement brings   *)
(* the invariants of the proofs, VisibilityInv, OutputInv and AgreementInv,  *)
(* so that a cfg can name them.                                              *)
EXTENDS CommandJournalAgreement, TLC

\* One byte of each class, and a segment that straddles the output limit.
MCSegments == {<<"text">>, <<"ctl">>, <<"text", "text">>}
\* One-byte segments only.
MCShortSegments == {<<"text">>, <<"ctl">>}

\* Command ids are interchangeable: only equality is ever tested.
CommandSymmetry == Permutations(Command)
=============================================================================
