------------------------------ MODULE MCQuota ------------------------------
(* Two clients planning and one asking for a session, for a map that holds two. *)
EXTENDS Quota, TLC

CONSTANTS planA, planB, session

MCKeys == {planA, planB, session}
MCMaximum == [s \in Subjects |-> IF s = AMap THEN 2 ELSE 1]
MCWindowMs == [s \in Subjects |-> IF s = session THEN 3 ELSE 2]
PlanClients == Permutations({planA, planB})
=============================================================================
