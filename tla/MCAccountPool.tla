--------------------------- MODULE MCAccountPool ---------------------------
(* Constants for model checking AccountPool. *)
EXTENDS AccountPool, TLC

CONSTANTS t1, t2, a1, a2, a3, u1, c1, genesis

MCThread == {t1, t2}
MCAddress == {a1, a2}
MCAccount == MCAddress \cup {genesis}
MCSymmetry == Permutations(MCThread) \cup Permutations(MCAddress)

MCAddress3 == {a1, a2, a3}
MCAccount3 == MCAddress3 \cup {genesis}
MCSymmetry3 == Permutations(MCThread) \cup Permutations(MCAddress3)

=============================================================================
