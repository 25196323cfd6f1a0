----------------------------- MODULE MCUserData -----------------------------
(* Small instance of UserData for TLC. *)
EXTENDS UserData, TLC
CONSTANTS r1, r2, k1

MCRequests == {r1, r2}
MCKeys == {k1, NoKey}
MCSymmetry == Permutations(MCRequests)
=============================================================================
