--------------------------- MODULE MCSceneryGrid ---------------------------
(* Three plans on a map of two promises, the third without routes to analyse, and two  *)
(* with an id of their own or a common one; in the cache of two, the second window or  *)
(* the first has to give way to a third.  A bucket meets two plans with their own ids. *)
EXTENDS SceneryGrid

MCPlans == {"p", "q", "r"}
MCIds == {"i", "j", "k"}
MCChoices == [b \in BOOLEAN |->
    IF b THEN {[p |-> "i", q |-> "j"]}
    ELSE {[p |-> "i", q |-> "j", r |-> "k"], [p |-> "i", q |-> "i"]}]
MCAsks == [c \in Calls |-> CASE c = <<"q", "anchors">>  -> {"B"}
                             [] c = <<"p", "analysis">> -> {"C"}
                             [] c = <<"r", "analysis">> -> {}
                             [] OTHER                   -> {"A"}]

\* With a bucket long enough for the times to live of both layers.
MCMaxTime == [b \in BOOLEAN |-> IF b THEN CacheTtl + BucketTtl ELSE CacheTtl]
=============================================================================
