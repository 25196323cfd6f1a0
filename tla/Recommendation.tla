--------------------------- MODULE Recommendation ---------------------------
(***************************************************************************)
(* The pure algorithms a plan's search decides by: what the land cover of a *)
(* route is (analyzeRouteWithWorldCover), where the anchors of candidates   *)
(* lie (rankWorldCoverAnchors), what a route scores (ScenicScoreV1) and     *)
(* which routes are kept (selectDiverseRoutes).  RouteSearch leaves these   *)
(* decisions open; here they are taken on given inputs.                     *)
(*                                                                          *)
(* Coordinates are integers, Unit of them along the edge of a grid cell,    *)
(* and ratios are pairs of integers: rounding is left out.  Routes run      *)
(* along the axes, within one hemisphere of longitudes, and the plane stands *)
(* for the sphere, so that a length is exact.                               *)
(***************************************************************************)
EXTENDS RouteSearch, Sequences

CONSTANTS
    Width, Height,   \* the grid
    Unit,            \* coordinates per cell
    NearWater,       \* neighborhoodPixelRadius, at least 1, in both directions
    NearBuilt,
    Gap,             \* maximumGapMeters of the sampling
    MaxSamples,      \* maximumSamples
    \* The inputs tried by the properties.
    Grids, Geometries,
    Preferences,     \* of a request
    Searches,        \* of anchors: radius, limit and separation
    RouteSets, Overlaps, MaxOverlaps, Target

ASSUME GridAssumption ==
    {Width, Height, Unit, NearWater, NearBuilt, Gap, MaxSamples - 1} \subseteq Nat \ {0}

Cells == (0 .. Width - 1) \X (0 .. Height - 1)

\* Wetland and mangroves are both green and water; "bare" are the classes that are neither
\* of these nor built-up, and "none" is a cell without data.
Classes == {"none", "green", "wetland", "water", "built", "bare"}
GreenClasses == {"green", "wetland"}
WaterClasses == {"water", "wetland"}

OfClass(grid, classes) == {c \in Cells : grid[c] \in classes}

\* Kept as it is written: Math.max and Math.min, and clamp.
AtLeast(a, b) == IF a < b THEN b ELSE a
AtMost(a, b)  == IF a < b THEN a ELSE b
Clamp(v, low, high) == AtLeast(low, AtMost(high, v))

-----------------------------------------------------------------------------
(* Neighbourhoods, by a summed-area table. *)

\* maskIntegral, row by row: the running total of a row up to each cell, and from it and
\* the row above the number of cells to the left of and above each corner.
RowTotal(mask) ==
    LET total[c \in (0 .. Width) \X (0 .. Height - 1)] ==
            IF c[1] = 0 THEN 0
            ELSE total[<<c[1] - 1, c[2]>>] + (IF <<c[1] - 1, c[2]>> \in mask THEN 1 ELSE 0)
    IN  total

MaskIntegral(mask) ==
    LET rowTotal == RowTotal(mask)
        integral[c \in (0 .. Width) \X (0 .. Height)] ==
            IF c[1] = 0 \/ c[2] = 0 THEN 0
            ELSE integral[<<c[1], c[2] - 1>>] + rowTotal[<<c[1], c[2] - 1>>]
    IN  integral

Left(c, radius)   == AtLeast(0, c[1] - radius)
Right(c, radius)  == AtMost(Width - 1, c[1] + radius)
Top(c, radius)    == AtLeast(0, c[2] - radius)
Bottom(c, radius) == AtMost(Height - 1, c[2] + radius)

CountNearUnclipped(integral, c, radius) ==  \* mutant: the row above the window is counted too
      integral[<<Right(c, radius) + 1, Bottom(c, radius) + 1>>]
    - integral[<<Right(c, radius) + 1, AtLeast(0, Top(c, radius) - 1)>>]
    - integral[<<Left(c, radius), Bottom(c, radius) + 1>>]
    + integral[<<Left(c, radius), AtLeast(0, Top(c, radius) - 1)>>]

\* The cells of the mask in the window around c, cut off at the edges of the grid.
CountNear(integral, c, radius) ==
      integral[<<Right(c, radius) + 1, Bottom(c, radius) + 1>>]
    - integral[<<Right(c, radius) + 1, Top(c, radius)>>]
    - integral[<<Left(c, radius), Bottom(c, radius) + 1>>]
    + integral[<<Left(c, radius), Top(c, radius)>>]

WindowSize(c, radius) ==
    (Right(c, radius) - Left(c, radius) + 1) * (Bottom(c, radius) - Top(c, radius) + 1)

HasValueNear(integral, c, radius) == CountNear(integral, c, radius) > 0

-----------------------------------------------------------------------------
(* A choice in the order of a ranking, as anchors and routes are chosen. *)

\* x is chosen too, unless the limit is reached or it clashes with, or is, one chosen
\* before.  A clash is a pair of the earlier and the later.
Extended(so, x, limit, clashes) ==
    IF Len(so) < limit /\ \A k \in DOMAIN so : so[k] # x /\ <<so[k], x>> \notin clashes
    THEN Append(so, x) ELSE so

\* What is chosen of a ranked sequence, after `before', from its first to its last.
Chosen(before, ranked, limit, clashes) ==
    LET after[n \in 0 .. Len(ranked)] ==
            IF n = 0 THEN before ELSE Extended(after[n - 1], ranked[n], limit, clashes)
    IN  after[Len(ranked)]

\* Array.sort by a total order, given as its pairs.
Sorted(S, order) ==
    LET rank == [x \in S |-> Cardinality({y \in S : <<y, x>> \in order})]
    IN  [n \in 1 .. Cardinality(S) |-> CHOOSE x \in S : rank[x] = n - 1]

-----------------------------------------------------------------------------
(* rankWorldCoverAnchors. *)

\* Twice the distance of two cells' centres, or of a centre and the origin in the middle
\* of the grid, squared.
Apart(c, d) == 4 * ((c[1] - d[1]) * (c[1] - d[1]) + (c[2] - d[2]) * (c[2] - d[2]))
FromOrigin(c) ==
    (2 * c[1] + 1 - Width) * (2 * c[1] + 1 - Width) + (2 * c[2] + 1 - Height) * (2 * c[2] + 1 - Height)

\* The built-up cells near c, and all that are near.
Exposure(grid, c) == CountNear(MaskIntegral(OfClass(grid, {"built"})), c, NearBuilt)

Green(grid, c) == IF grid[c] \in GreenClasses THEN 1 ELSE 0
Waterfront(grid, c) ==
    IF HasValueNear(MaskIntegral(OfClass(grid, WaterClasses)), c, NearWater) THEN 1 ELSE 0

\* Land within the radius that is green, at the water, or not much built up.
AnchorCandidates(grid, radius, preferences) ==
    {c \in Cells :
        /\ grid[c] \notin {"none"} \cup WaterClasses
        /\ FromOrigin(c) <= radius
        /\ \/ Green(grid, c) = 1 \/ Waterfront(grid, c) = 1
           \/ /\ preferences.lowTraffic # 0
              /\ 100 * Exposure(grid, c) <= 35 * WindowSize(c, NearBuilt)}

\* The score, as a numerator over the size of the window.
AnchorScore(grid, preferences, c) ==
    LET size == WindowSize(c, NearBuilt) IN
      (Green(grid, c) * preferences.greenery + Waterfront(grid, c) * preferences.waterfront) * size
    + (size - Exposure(grid, c)) * preferences.lowTraffic

\* The best first; then from the south and from the west.
RankedAnchors(grid, radius, preferences) ==
    LET candidates == AnchorCandidates(grid, radius, preferences)
        score == [c \in candidates |-> AnchorScore(grid, preferences, c)]
        before(c, d) ==
            LET left == score[c] * WindowSize(d, NearBuilt)
                right == score[d] * WindowSize(c, NearBuilt)
            IN  \/ left > right
                \/ left = right /\ (c[2] > d[2] \/ (c[2] = d[2] /\ c[1] < d[1]))
    IN  Sorted(candidates, {p \in candidates \X candidates : before(p[1], p[2])})

RankWorldCoverAnchors(grid, radius, limit, separation, preferences) ==
    Chosen(<<>>, RankedAnchors(grid, radius, preferences), limit,
           {p \in Cells \X Cells : Apart(p[1], p[2]) < separation})

-----------------------------------------------------------------------------
(* sampleRouteGeometry and analyzeRouteWithWorldCover. *)

Abs(n) == AtLeast(n, -n)
Length(p, q) == Abs(p[1] - q[1]) + Abs(p[2] - q[2])

\* The length of the route up to its k-th point.
LengthBefore(geometry) ==
    LET before[k \in 1 .. Len(geometry)] ==
            IF k = 1 THEN 0 ELSE before[k - 1] + Length(geometry[k - 1], geometry[k])
    IN  before

SampleCount(total) == AtMost(MaxSamples, AtLeast(2, (total + Gap - 1) \div Gap + 1))

\* Samples at equal distances.  The segment index goes on while the segment ends before
\* the sample's distance; within the segment the point is interpolated, as coordinates
\* over a common denominator.
SampleRouteGeometry(geometry) ==
    LET before == LengthBefore(geometry)
        total == before[Len(geometry)]
        steps == SampleCount(total) - 1
        segmentIndex[i \in 0 .. steps] ==
            LET from == IF i = 0 THEN 1 ELSE segmentIndex[i - 1]
                open == {k \in from .. Len(geometry) - 1 :
                            k = Len(geometry) - 1 \/ before[k + 1] * steps >= total * i}
            IN  CHOOSE k \in open : \A l \in open : k <= l
        sample(i) ==
            LET k == segmentIndex[i]
                start == geometry[k]  end == geometry[k + 1]
                length == before[k + 1] - before[k]
                ratio == Clamp(total * i - before[k] * steps, 0, length * steps)
            IN  IF length = 0 THEN [lon |-> start[1], lat |-> start[2], over |-> 1]
                ELSE [lon |-> start[1] * length * steps + (end[1] - start[1]) * ratio,
                      lat |-> start[2] * length * steps + (end[2] - start[2]) * ratio,
                      over |-> length * steps]
    IN  IF geometry = <<>> THEN <<>>
        ELSE IF total = 0 THEN <<[lon |-> geometry[1][1], lat |-> geometry[1][2], over |-> 1]>>
        ELSE [i \in 1 .. steps + 1 |-> sample(i - 1)]

\* gridIndex: nothing outside the grid; its edges belong to the last cells.
GridIndex(p) ==
    IF p.lon < 0 \/ p.lon > Width * Unit * p.over \/ p.lat < 0 \/ p.lat > Height * Unit * p.over
    THEN {}
    ELSE {<<AtMost(p.lon \div (Unit * p.over), Width - 1),
            AtMost((Height * Unit * p.over - p.lat) \div (Unit * p.over), Height - 1)>>}

Unavailable == [samples |-> 0, covered |-> 0, green |-> 0, waterfront |-> 0, built |-> 0]

\* The counters of which features and their confidence are the quotients.  With fewer than
\* 60 % of the samples covered there are no features.
AnalyzeRoute(grid, geometry) ==
    LET samples == SampleRouteGeometry(geometry)
        water == MaskIntegral(OfClass(grid, WaterClasses))
        where(i) == {c \in GridIndex(samples[i]) : grid[c] # "none"}
        count(classes) == Cardinality({i \in DOMAIN samples :
                                          \E c \in where(i) : grid[c] \in classes})
        near == {i \in DOMAIN samples : \E c \in where(i) : HasValueNear(water, c, NearWater)}
        covered == count(Classes)
    IN  IF 10 * covered < 6 * Len(samples) \/ samples = <<>> THEN Unavailable
        ELSE [samples |-> Len(samples), covered |-> covered, green |-> count(GreenClasses),
              waterfront |-> Cardinality(near), built |-> count({"built"})]

-----------------------------------------------------------------------------
(* ScenicScoreV1 and selectDiverseRoutes. *)

\* Metrics in per cent; that of road comfort never is known, and counts as none.
Unknown == -1
Metric(value, fallback) == IF value = Unknown THEN fallback ELSE value

\* The total, as a numerator: the denominator depends on the request alone.  What is not
\* known counts as no greenery, no water and as built-up throughout.
ScenicScore(route, preferences, target) ==
    LET weights == AtLeast(1, preferences.greenery + preferences.waterfront
                              + preferences.lowTraffic + preferences.comfort)
        distanceFit == Clamp(100 * target - 100 * Abs(route.distance - target), 0, 100 * target)
        built == Metric(route.built, 100)
        preferred == Metric(route.green, 0) * preferences.greenery
                   + Metric(route.water, 0) * preferences.waterfront
                   + (100 - built) * preferences.lowTraffic
    IN  Clamp(7 * distanceFit * weights + 13 * preferred * target - 2 * built * target * weights,
              0, 2000 * target * weights)

\* The highest score first, then by id.
RankedRoutes(routes, preferences, target) ==
    LET score == [r \in routes |-> ScenicScore(r, preferences, target)]
        before(r, s) == score[r] > score[s] \/ (score[r] = score[s] /\ r.id < s.id)
    IN  Sorted(routes, {p \in routes \X routes : before(p[1], p[2])})

\* routeOverlapRatio, in per cent, of the earlier of two routes and the later.
Alike(routes, overlap, most) == {p \in routes \X routes : overlap[<<p[1].id, p[2].id>>] >= most}

SelectOnce(routes, limit, overlap, maxOverlap, preferences, target) ==  \* mutant: no second pass
    Chosen(<<>>, RankedRoutes(routes, preferences, target), limit, Alike(routes, overlap, maxOverlap))

\* First the routes that overlap little, then, as far as the limit allows, all but near
\* duplicates.
SelectDiverseRoutes(routes, limit, overlap, maxOverlap, preferences, target) ==
    LET ranked == RankedRoutes(routes, preferences, target)
        diverse == Chosen(<<>>, ranked, limit, Alike(routes, overlap, maxOverlap))
    IN  Chosen(diverse, ranked, limit, Alike(routes, overlap, 98))

-----------------------------------------------------------------------------
(* Properties. *)

Repeated(s, k) == [i \in 1 .. Len(s) + 1 |-> IF i <= k THEN s[i] ELSE s[i - 1]]
Reversed(s) == [i \in 1 .. Len(s) |-> s[Len(s) + 1 - i]]

\* No stretch of a route longer than the gap goes unsampled, unless the samples are at
\* their maximum, and both ends are sampled.
SamplesSpread(geometry) ==
    LET samples == SampleRouteGeometry(geometry)
        total == LengthBefore(geometry)[Len(geometry)]
        steps == Len(samples) - 1
        at(p, q) == p.lon = q[1] * p.over /\ p.lat = q[2] * p.over
        apart(p, q) == Abs(p.lon * q.over - q.lon * p.over) + Abs(p.lat * q.over - q.lat * p.over)
    IN  /\ at(samples[1], geometry[1]) /\ at(samples[Len(samples)], geometry[Len(geometry)])
        /\ \A i \in 1 .. steps :
              apart(samples[i], samples[i + 1]) * steps <= total * samples[i].over * samples[i + 1].over
        /\ total <= steps * Gap \/ Len(samples) = MaxSamples

\* The features of a route are those of the path it follows, whatever points describe it:
\* the way back has them too, and a point given twice does not count.  A sample counts as
\* waterfront when, and only when, there is water that near, also at the grid's edge.
AnalysisExact ==
    \A geometry \in Geometries :
        /\ SamplesSpread(geometry)
        /\ \A grid \in Grids :
             LET features == AnalyzeRoute(grid, geometry)
                 samples == SampleRouteGeometry(geometry)
                 near(c) == \E d \in OfClass(grid, WaterClasses) :
                                Abs(c[1] - d[1]) <= NearWater /\ Abs(c[2] - d[2]) <= NearWater
             IN  /\ AnalyzeRoute(grid, Reversed(geometry)) = features
                 /\ \A k \in DOMAIN geometry : AnalyzeRoute(grid, Repeated(geometry, k)) = features
                 /\ features # Unavailable => features.waterfront =
                      Cardinality({i \in DOMAIN samples :
                          \E c \in GridIndex(samples[i]) : grid[c] # "none" /\ near(c)})

\* Anchors keep their separation, and one that is left out has a better one too close to
\* it, or as many better ones as the limit allows.
AnchorsBest(grid, search, preferences) ==
    LET candidates == AnchorCandidates(grid, search.radius, preferences)
        list == RankWorldCoverAnchors(grid, search.radius, search.limit, search.separation, preferences)
        chosen == {list[n] : n \in DOMAIN list}
        better(c) == {d \in chosen : AnchorScore(grid, preferences, d) * WindowSize(c, NearBuilt)
                                       >= AnchorScore(grid, preferences, c) * WindowSize(d, NearBuilt)}
    IN  /\ chosen \subseteq candidates /\ Len(list) = Cardinality(chosen) /\ Len(list) <= search.limit
        /\ \A c, d \in chosen : c # d => Apart(c, d) >= search.separation
        /\ \A c \in candidates \ chosen :
              \/ Cardinality(better(c)) = search.limit
              \/ \E d \in better(c) : Apart(c, d) < search.separation

\* r is nowhere known to be worse than s.
AsGood(r, s) ==
    /\ Abs(r.distance - Target) <= Abs(s.distance - Target)
    /\ r.green >= s.green /\ r.water >= s.water
    /\ s.built = Unknown \/ r.built \in 0 .. s.built

\* No two routes kept are near duplicates; fewer than asked for come only when nothing but
\* near duplicates is left; and overlapping routes are kept only when all that are left out
\* overlap them.
SelectionMaximal(routes, limit, overlap, maxOverlap, preferences, target) ==
    LET list == SelectDiverseRoutes(routes, limit, overlap, maxOverlap, preferences, target)
        kept == {list[n] : n \in 1 .. Len(list)}
        clash(r, most) == \E s \in kept : overlap[<<s.id, r.id>>] >= most
    IN  /\ kept \subseteq routes /\ Len(list) <= limit
        /\ \A m, n \in 1 .. Len(list) :
              m < n => list[m] # list[n] /\ overlap[<<list[m].id, list[n].id>>] < 98
        /\ \A r \in routes \ kept : Len(list) < limit => clash(r, 98)
        /\ \/ \A m, n \in 1 .. Len(list) : m < n => overlap[<<list[m].id, list[n].id>>] < maxOverlap
           \/ \A r \in routes \ kept : clash(r, maxOverlap)

\* The first route kept is as good as any that is nowhere worse, metrics that are missing
\* included.
FirstBest(routes, limit, overlap, maxOverlap, preferences) ==
    LET list == SelectDiverseRoutes(routes, limit, overlap, maxOverlap, preferences, Target)
    IN  routes # {} => list # <<>> /\ \A r \in routes : AsGood(r, list[1]) =>
            ScenicScore(r, preferences, Target) = ScenicScore(list[1], preferences, Target)

AnchorChoicesBest ==
    \A grid \in Grids, search \in Searches, preferences \in Preferences :
        AnchorsBest(grid, search, preferences)

RouteChoicesBest ==
    \A routes \in RouteSets, overlap \in Overlaps, maxOverlap \in MaxOverlaps,
       preferences \in Preferences : \A limit \in 1 .. Cardinality(routes) :
        /\ SelectionMaximal(routes, limit, overlap, maxOverlap, preferences, Target)
        /\ FirstBest(routes, limit, overlap, maxOverlap, preferences)

\* The features a plan goes on to rate its routes by are those of the paths they follow, on
\* every grid.
FeaturesExact == [][stage' = "analyze" => AnalysisExact]_vars

\* What a step of the plan chooses, the anchors its candidates are then routed by and the
\* routes it answers with, is the best that the distances and overlaps between them allow.
ChoicesBest ==
    [][/\ stage' = "route" => AnchorChoicesBest
       /\ outcome' \in Successes => RouteChoicesBest]_vars
=============================================================================
