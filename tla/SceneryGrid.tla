---------------------------- MODULE SceneryGrid ----------------------------
(***************************************************************************)
(* The grids behind the scenery of a plan.  WorldCoverSceneryProvider keeps *)
(* the promise of a grid per request id, so that findAnchors and            *)
(* analyzeRoutes of one plan share it; CogWorldCoverRasterSource keeps       *)
(* successful grids per window, least recently used first;                  *)
(* R2CachedWorldCoverRasterSource, where a bucket is bound, puts an object   *)
(* store before it.  A read is named by the call that began it.  A read that *)
(* settles lets every call that awaits it go on in the same turn of the      *)
(* event loop, hence in the same action.                                    *)
(***************************************************************************)
EXTENDS Integers, FiniteSets

CONSTANTS
    Plans,
    Ids,                \* request ids
    Choices,            \* bound, per deployment: the plans that come, with their ids
    Windows,            \* bounds and dimensions of a grid
    Asks,               \* the windows that a call may be about
    Disturbed,          \* bound: the plans that may be aborted or miss a soft wait
    Deployments,        \* whether a bucket is bound: a subset of BOOLEAN
    RequestTtl,         \* REQUEST_GRID_TTL_MS
    MaxRequestGrids,
    CacheTtl,           \* cacheTtlMs of the raster source
    MaxCachedGrids,
    BucketTtl,          \* ttlMs of the bucket's objects
    MaxTime             \* bound, per deployment: the clock

Calls == Plans \X {"anchors", "analysis"}

ASSUME ConstantsAssumption ==
    /\ \A b \in Deployments : \A f \in Choices[b] :
          DOMAIN f \subseteq Plans /\ \A p \in DOMAIN f : f[p] \in Ids
    /\ Asks \in [Calls -> SUBSET Windows]
    /\ Disturbed \subseteq Plans
    /\ Deployments \subseteq BOOLEAN
    /\ {RequestTtl, MaxRequestGrids, MaxCachedGrids, BucketTtl} \subseteq Nat \ {0}
    /\ CacheTtl \in Nat /\ MaxTime \in [BOOLEAN -> Nat]

VARIABLES
    bound,          \* a bucket is bound
    id,             \* the request id of each plan that comes
    stage,          \* what findScenicRoutes is at, as far as scenery is concerned
    aborted,        \* the signal of each plan
    requestGrids,   \* per request id, the promise of a read
    awaits,         \* per call, the read whose promise it was given
    read,
    cache,          \* of the raster source: per window, a grid
    bucket,
    now,
    entry,          \* history: when a plan was entered in requestGrids, how many since then
    since,          \* history: windows used in the cache since the last use of each
    filledAt        \* history: when each window was last remembered

providerVars == <<requestGrids, awaits, read>>
history == <<entry, since, filledAt>>
vars == <<bound, id, stage, aborted, providerVars, cache, bucket, now, history>>

NoCall == <<"none", "none">>
Never == -1
NoEntry == [at |-> 0, newer |-> 0]

\* FAILED stands for TIMEOUT, UNAVAILABLE and INVALID_RESPONSE.
Errors == {"ABORTED", "FAILED"}
NoRead == [pc |-> "none", end |-> "none", expiresAt |-> 0, readAt |-> 0]

\* expiresAt is what the metadata of an object will say, readAt when the tiles of the
\* grid were read: both matter until the object is put.
Made(c) == read[c].pc # "none"
Settled(c) == read[c].pc = "settled"

\* A Map of the program is a function whose entries know their place in the order of
\* insertion, 0 for the oldest.
Empty == [k \in {} |-> 0]
Kept(m, K) ==
    [k \in DOMAIN m \cap K |-> [m[k] EXCEPT !.place =
        Cardinality({x \in DOMAIN m \cap K : m[x].place < m[k].place})]]
Added(m, k, e) == [x \in DOMAIN m \cup {k} |-> IF x = k THEN e ELSE m[x]]
Newest(m, n) == Kept(m, {k \in DOMAIN m : m[k].place >= Cardinality(DOMAIN m) - n})

TypeOK ==
    /\ bound \in Deployments /\ id \in Choices[bound] /\ now \in 0 .. MaxTime[bound]
    /\ stage \in [Plans -> {"idle", "anchors", "routing", "analysis", "done"}]
    /\ aborted \in [Plans -> BOOLEAN]
    /\ awaits \in [Calls -> Calls \cup {NoCall}]
    /\ read \in [Calls -> {NoRead} \cup [pc : {"get", "body", "tiles", "put", "settled"},
                                        window : Windows, end : {"none", "grid"} \cup Errors,
                                        expiresAt : Nat, readAt : 0 .. now]]
    /\ \A c \in Calls : Settled(c) => read[c].end # "none"
    /\ DOMAIN requestGrids \subseteq Ids /\ Cardinality(DOMAIN requestGrids) <= MaxRequestGrids
    /\ \A i \in DOMAIN requestGrids :
        requestGrids[i] \in [createdAt : 0 .. now, read : {c \in Calls : Made(c)},
                             place : 0 .. Cardinality(DOMAIN requestGrids) - 1]
    /\ DOMAIN cache \subseteq Windows /\ Cardinality(DOMAIN cache) <= MaxCachedGrids
    /\ \A w \in DOMAIN cache :
        cache[w] \in [expiresAt : Nat, readAt : 0 .. now, place : 0 .. Cardinality(DOMAIN cache) - 1]
    /\ bucket \in [Windows -> [expiresAt : Nat, readAt : 0 .. now]]
    /\ entry \in [Plans -> [at : 0 .. now, newer : Nat]]
    /\ since \in [Windows -> SUBSET Windows]
    /\ filledAt \in [Windows -> 0 .. now \cup {Never}]

Init ==
    /\ bound \in Deployments
    /\ id \in Choices[bound]
    /\ stage = [p \in Plans |-> "idle"]
    /\ aborted = [p \in Plans |-> FALSE]
    /\ requestGrids = Empty
    /\ awaits = [c \in Calls |-> NoCall]
    /\ read = [c \in Calls |-> NoRead]
    /\ cache = Empty
    /\ bucket = [w \in Windows |-> [expiresAt |-> 0, readAt |-> 0]]
    /\ now = 0
    /\ entry = [p \in Plans |-> NoEntry]
    /\ since = [w \in Windows |-> {}]
    /\ filledAt = [w \in Windows |-> Never]

-----------------------------------------------------------------------------
(* Continuations. *)

\* The code after the awaits of these calls: analyzeRoutes gives up the entry of its
\* request id, whoever made it, and a plan still waiting goes on.
Continue(calls, grids, stages) ==
    /\ requestGrids' =
          Kept(grids, Ids \ {id[p] : p \in {q \in DOMAIN id : <<q, "analysis">> \in calls}})
    /\ stage' = [p \in Plans |->
                    CASE stages[p] = "anchors" /\ <<p, "anchors">> \in calls -> "routing"
                      [] stages[p] = "analysis" /\ <<p, "analysis">> \in calls -> "done"
                      [] OTHER -> stages[p]]

\* Read c is now r.
Becomes(c, r, grids, calls, stages) ==
    /\ read' = [read EXCEPT ![c] = r]
    /\ awaits' = calls
    /\ Continue(IF r.pc = "settled" THEN {x \in Calls : calls[x] = c} ELSE {}, grids, stages)

Settling(r, end) ==
    [pc |-> "settled", window |-> r.window, end |-> end, expiresAt |-> 0, readAt |-> 0]

\* The raster source has a grid; with a bucket it is written there first.
Obtained(r, t) ==
    IF bound THEN [r EXCEPT !.pc = "put", !.end = "grid", !.readAt = t] ELSE Settling(r, "grid")

-----------------------------------------------------------------------------
(* CogWorldCoverRasterSource. *)

Live(m) == Kept(m, {w \in DOMAIN m : m[w].expiresAt > now})
Others(m, w) == Kept(m, DOMAIN m \ {w})

\* Mutant: a hit does not move its entry.
TouchedNot(m, w) == m
Touched(m, w) == Added(Others(m, w), w, [m[w] EXCEPT !.place = Cardinality(DOMAIN m) - 1])

Remembered(m, w) ==
    IF CacheTtl = 0 THEN m
    ELSE Newest(Added(Others(m, w), w, [expiresAt |-> now + CacheTtl, readAt |-> now,
                                        place |-> Cardinality(DOMAIN m \ {w})]),
                MaxCachedGrids)

Used(w) == since' = [v \in Windows |-> IF v = w THEN {} ELSE since[v] \cup {w}]

\* readGrid up to its first await, for read c in state r.
ReadSource(c, r, grids, calls, stages) ==
    \/ /\ aborted[c[1]]
       /\ Becomes(c, Settling(r, "ABORTED"), grids, calls, stages)
       /\ UNCHANGED <<cache, since>>
    \/ /\ ~aborted[c[1]]
       /\ IF r.window \in DOMAIN Live(cache)
          THEN /\ cache' = Touched(Live(cache), r.window)
               /\ Used(r.window)
               /\ Becomes(c, Obtained(r, cache[r.window].readAt), grids, calls, stages)
          ELSE /\ cache' = Live(cache)
               /\ Becomes(c, [r EXCEPT !.pc = "tiles"], grids, calls, stages)
               /\ UNCHANGED since

\* All tiles have come, one failed or was invalid, or the time-out or the caller's
\* abort rejected them; an abort does so at once, but for the turn it takes.
TilesSettle(c) ==
    /\ read[c].pc = "tiles"
    /\ \/ /\ ~aborted[c[1]]
          /\ cache' = Remembered(cache, read[c].window)
          /\ Used(read[c].window)
          /\ filledAt' = [filledAt EXCEPT ![read[c].window] = now]
          /\ Becomes(c, Obtained(read[c], now), requestGrids, awaits, stage)
       \/ /\ Becomes(c, Settling(read[c], IF aborted[c[1]] THEN "ABORTED" ELSE "FAILED"),
                     requestGrids, awaits, stage)
          /\ UNCHANGED <<cache, since, filledAt>>
    /\ UNCHANGED <<bound, id, aborted, bucket, now, entry>>

-----------------------------------------------------------------------------
(* R2CachedWorldCoverRasterSource. *)

Matches(w) == bucket[w].expiresAt > now

\* bucket.get settles: an object that matches is fetched; otherwise, and on a fault,
\* the raster source is read.  Once the caller has aborted, the fault itself or the abort
\* is the end of the read.
GetSettles(c) ==
    /\ read[c].pc = "get"
    /\ \/ /\ aborted[c[1]]
          /\ \E end \in Errors : Becomes(c, Settling(read[c], end), requestGrids, awaits, stage)
          /\ UNCHANGED <<cache, since>>
       \/ /\ ~aborted[c[1]] /\ Matches(read[c].window)
          /\ Becomes(c, [read[c] EXCEPT !.pc = "body"], requestGrids, awaits, stage)
          /\ UNCHANGED <<cache, since>>
       \/ /\ ~aborted[c[1]]
          /\ ReadSource(c, read[c], requestGrids, awaits, stage)
    /\ UNCHANGED <<bound, id, aborted, bucket, now, entry, filledAt>>

\* The body of the object: a valid grid, or a fault.
BodySettles(c) ==
    /\ read[c].pc = "body"
    /\ \/ /\ \E end \in {"grid"} \cup IF aborted[c[1]] THEN {"FAILED"} ELSE {} :
                Becomes(c, Settling(read[c], end), requestGrids, awaits, stage)
          /\ UNCHANGED <<cache, since>>
       \/ /\ ~aborted[c[1]]
          /\ ReadSource(c, read[c], requestGrids, awaits, stage)
    /\ UNCHANGED <<bound, id, aborted, bucket, now, entry, filledAt>>

PutSettlesLate(c) ==  \* mutant: the expiry is computed when the object is written
    /\ read[c].pc = "put"
    /\ \/ bucket' = [bucket EXCEPT ![read[c].window] =
                        [expiresAt |-> now + BucketTtl, readAt |-> read[c].readAt]]
       \/ UNCHANGED bucket
    /\ Becomes(c, Settling(read[c], "grid"), requestGrids, awaits, stage)
    /\ UNCHANGED <<bound, id, aborted, cache, now, history>>

\* bucket.put settles, with the expiry that the call computed when it began, or fails.
PutSettles(c) ==
    /\ read[c].pc = "put"
    /\ \/ bucket' = [bucket EXCEPT ![read[c].window] =
                        [expiresAt |-> read[c].expiresAt, readAt |-> read[c].readAt]]
       \/ UNCHANGED bucket
    /\ Becomes(c, Settling(read[c], "grid"), requestGrids, awaits, stage)
    /\ UNCHANGED <<bound, id, aborted, cache, now, history>>

-----------------------------------------------------------------------------
(* WorldCoverSceneryProvider. *)

Swept == Kept(requestGrids,
              {i \in DOMAIN requestGrids : requestGrids[i].createdAt + RequestTtl > now})

\* Mutant: grids are shared by window.
EntriesForWindow(p, w) == {i \in DOMAIN Swept : read[Swept[i].read].window = w}
EntriesFor(p, w) == DOMAIN Swept \cap {id[p]}

\* Mutant: a full map drops its newest entry.
EvictedNewest(m) == Kept(m, {i \in DOMAIN m : m[i].place < MaxRequestGrids})
\* Mutant: one entry too many.
EvictedLate(m) == Newest(m, MaxRequestGrids + 1)
Evicted(m) == Newest(m, MaxRequestGrids)

\* gridForRequest for call c about window w: the promise of the request id, or a new
\* read, of which the part up to its first await runs at once.
GridForRequest(c, w, stages) ==
    LET p == c[1]
        r == [pc |-> "get", window |-> w, end |-> "none",
              expiresAt |-> IF bound THEN now + BucketTtl ELSE 0, readAt |-> 0]
        grids == Evicted(Added(Swept, id[p], [createdAt |-> now, read |-> c,
                                              place |-> Cardinality(DOMAIN Swept)]))
        calls(x) == [awaits EXCEPT ![c] = x]
    IN  \/ \E i \in EntriesFor(p, w) :
              /\ awaits' = calls(Swept[i].read)
              /\ Continue(IF Settled(Swept[i].read) THEN {c} ELSE {}, Swept, stages)
              /\ UNCHANGED <<read, cache, since, entry>>
        \/ /\ EntriesFor(p, w) = {}
           /\ entry' = [q \in Plans |->
                    CASE q = p /\ c[2] = "anchors" -> [at |-> now, newer |-> 0]
                      [] q # p /\ stage[q] \in {"anchors", "routing"} ->
                            [entry[q] EXCEPT !.newer = @ + 1]
                      [] OTHER -> NoEntry]
           /\ \/ /\ bound
                 /\ Becomes(c, r, grids, calls(c), stages)
                 /\ UNCHANGED <<cache, since>>
              \/ /\ ~bound
                 /\ ReadSource(c, r, grids, calls(c), stages)

FindAnchors(p) ==
    /\ stage[p] = "idle"
    /\ \E w \in Asks[<<p, "anchors">>] :
          GridForRequest(<<p, "anchors">>, w, [stage EXCEPT ![p] = "anchors"])
    /\ UNCHANGED <<bound, id, aborted, bucket, now, filledAt>>

AnalyzeRoutes(p) ==
    /\ stage[p] = "routing" /\ ~aborted[p]
    /\ \E w \in Asks[<<p, "analysis">>] :
          GridForRequest(<<p, "analysis">>, w, [stage EXCEPT ![p] = "analysis"])
    /\ UNCHANGED <<bound, id, aborted, bucket, now, filledAt>>

-----------------------------------------------------------------------------
(* The plan and its surroundings. *)

\* settleWithin: the plan goes on without the scenery, the call does not end.
SoftWaitMissed(p) ==
    /\ p \in Disturbed
    /\ \/ stage[p] = "anchors" /\ stage' = [stage EXCEPT ![p] = "routing"]
       \/ stage[p] = "analysis" /\ stage' = [stage EXCEPT ![p] = "done"]
    /\ UNCHANGED <<bound, id, aborted, providerVars, cache, bucket, now, history>>

\* No route was found, or an abort is noticed.
EndEarly(p) ==
    /\ stage[p] = "routing"
    /\ stage' = [stage EXCEPT ![p] = "done"]
    /\ UNCHANGED <<bound, id, aborted, providerVars, cache, bucket, now, history>>

Abort(p) ==
    /\ p \in Disturbed /\ stage[p] \in {"anchors", "routing", "analysis"} /\ ~aborted[p]
    /\ aborted' = [aborted EXCEPT ![p] = TRUE]
    /\ UNCHANGED <<bound, id, stage, providerVars, cache, bucket, now, history>>

Tick ==
    /\ now < MaxTime[bound]
    /\ now' = now + 1
    /\ UNCHANGED <<bound, id, stage, aborted, providerVars, cache, bucket, history>>

\* Every plan has ended and so has every read; anything else is a deadlock.
Terminated ==
    /\ \A p \in DOMAIN id : stage[p] = "done"
    /\ \A c \in Calls : Made(c) => Settled(c)
    /\ UNCHANGED vars

Next ==
    \/ \E p \in DOMAIN id :
          FindAnchors(p) \/ AnalyzeRoutes(p) \/ SoftWaitMissed(p) \/ EndEarly(p) \/ Abort(p)
    \/ \E c \in Calls : TilesSettle(c) \/ GetSettles(c) \/ BodySettles(c) \/ PutSettles(c)
    \/ Tick
    \/ Terminated

Spec == Init /\ [][Next]_vars

-----------------------------------------------------------------------------
(* Properties. *)

OwnId(p) == \A q \in DOMAIN id \ {p} : id[q] # id[p]
WindowsOf(p) == {read[c].window : c \in {x \in Calls : x[1] = p /\ Made(x)}}

\* Plans do not disturb one another unless their clients chose one request id: a plan is
\* served only grids of windows it asked for itself, and hears of no abort but its own
\* (gridForRequest; the promise of a read is shared, and so is its failure).
PlansIsolated ==
    \A c \in Calls :
        LET p == c[1] IN
        awaits[c] # NoCall /\ OwnId(p) /\ Settled(awaits[c]) =>
            IF read[awaits[c]].end = "ABORTED"
            THEN aborted[p]
            ELSE read[awaits[c]].window \in WindowsOf(p)

\* One grid per plan (docs/ARCHITECTURE.md:896): the analysis reads a second one only
\* when the plan's entry is too old, was displaced by as many newer ones as the map
\* holds, or was given up by another plan of the same id.
OneGridPerPlan ==
    [][\A p \in Plans :
        Made(<<p, "analysis">>)' /\ ~Made(<<p, "analysis">>) /\ OwnId(p) =>
            \/ now >= entry[p].at + RequestTtl
            \/ entry[p].newer >= MaxRequestGrids]_vars

\* A window once read is not read again while it is fresh, unless as many other windows
\* as the cache holds were used since its last use (docs/ARCHITECTURE.md:896-897).
FreshWindowNotReread ==
    [][\A c \in Calls :
        read'[c].pc = "tiles" /\ read[c].pc # "tiles" =>
            LET w == read'[c].window IN
            filledAt[w] # Never /\ now < filledAt[w] + CacheTtl =>
                Cardinality(since[w]) >= MaxCachedGrids]_vars

\* No layer serves a grid older than the times to live of the layers it came through:
\* a hit in the cache does not rejuvenate the object that is then put into the bucket.
AgeBounded ==
    /\ \A w \in DOMAIN Live(cache) : now < cache[w].readAt + CacheTtl
    /\ \A w \in Windows : Matches(w) => now < bucket[w].readAt + CacheTtl + BucketTtl
=============================================================================
