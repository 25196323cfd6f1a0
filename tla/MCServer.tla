------------------------------ MODULE MCServer ------------------------------
(* A small instance of Server for TLC. *)
EXTENDS Server
CONSTANTS p1, p2, r1, r2

MCProcesses == {p1, p2}
MCRequests == {r1, r2}
MCAskers == {r1}
MCFileVersions == {0, 1, 2, 3}
=============================================================================
