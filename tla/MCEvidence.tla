---------------------------- MODULE MCEvidence ----------------------------
(* Constants for model checking Evidence. *)
EXTENDS Evidence, TLC

CONSTANTS t1, t2, a1, a2, genesis

MCThread == {t1, t2}
OneThread == {t1}
OneOwner == {a1}
TwoOwners == {a1, a2}
OneAccount == {genesis, a1}
TwoAccounts == {genesis, a1, a2}
ThreadSymmetry == Permutations(MCThread)

=============================================================================
