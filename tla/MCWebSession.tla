---------------------------- MODULE MCWebSession ----------------------------
(* Small instances of WebSession for TLC. *)
EXTENDS WebSession, TLC
CONSTANTS t1, t2, o1, o2, o3

OneTab == {t1}
TwoTabs == {t1, t2}
MCOps == {o1, o2, o3}
MCSymmetry == Permutations(MCOps)
=============================================================================
