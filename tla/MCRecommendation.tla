--------------------------- MODULE MCRecommendation -------------------------
(* A plan's search, and the inputs on which the algorithms that choose among what it     *)
(* finds are tried: grids of two by three cells that differ in four of them, and three   *)
(* routes, any of which may overlap, or nearly repeat, any other.                        *)
EXTENDS Recommendation

MCGrids == {g \in [Cells -> {"none", "green", "wetland", "built"}] :
               g[<<0, 0>>] = "green" /\ g[<<0, 1>>] = "built" /\ g[<<0, 2>>] # g[<<1, 0>>]}
MCGeometries == {<<<<3, 1>>>>,
                 <<<<0, 0>>, <<0, 6>>, <<4, 6>>>>,
                 <<<<1, 1>>, <<3, 1>>, <<3, 5>>, <<1, 5>>, <<1, 1>>>>,
                 <<<<2, 2>>, <<2, 8>>>>}
MCPreferences == {[greenery |-> 2, waterfront |-> 1, lowTraffic |-> 0, comfort |-> 0],
                  [greenery |-> 1, waterfront |-> 1, lowTraffic |-> 3, comfort |-> 1]}
MCSearches == {[radius |-> 5, limit |-> 2, separation |-> 16],
               [radius |-> 99, limit |-> 3, separation |-> 4]}

Route(i, distance, green, built) ==
    [id |-> i, distance |-> distance, green |-> green, water |-> 0, built |-> built]
MCRouteSets == {{},
                {Route(1, 10, 50, 20), Route(2, 10, Unknown, Unknown), Route(3, 12, 60, 20)},
                {Route(1, 10, 50, 20), Route(2, 10, 50, 20), Route(3, 8, 0, 100)}}
\* The overlap of two routes depends on their order only if they are sampled equally often:
\* here it may for the second and the third.
Pairs == (1 .. 3) \X (1 .. 3)
MCOverlaps == {[p \in Pairs |-> CASE p[1] = p[2] -> 100
                                  [] 1 \in {p[1], p[2]} -> of[p[1] * p[2]]
                                  [] OTHER -> of[p[1] * 10 + p[2]]] :
                   of \in [{2, 3, 23, 32} -> {0, 90, 99}]}
=============================================================================
