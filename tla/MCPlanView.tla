----------------------------- MODULE MCPlanView -----------------------------
(* A small instance of PlanView for TLC. *)
EXTENDS PlanView
CONSTANT t1

OneTab == {t1}
MCOps == 1 .. 2
=============================================================================
