------------------------- MODULE SceneryGridProofs -------------------------
(***************************************************************************)
(* Theorems about SceneryGrid, for any plans, ids, windows and limits, with  *)
(* and without a bucket.  The first part is about Maps that know the order   *)
(* of their entries, the second about the steps of the system; the last two  *)
(* relate these maps to the histories of their entries.                      *)
(***************************************************************************)
EXTENDS SceneryGrid, FiniteSetTheorems, TLAPS

\* Places number the entries of a finite map, without repetition.
Ordered(m) ==
    /\ IsFiniteSet(DOMAIN m)
    /\ \A k \in DOMAIN m : "place" \in DOMAIN m[k]
    /\ \A k \in DOMAIN m : m[k].place \in 0 .. Cardinality(DOMAIN m) - 1
    /\ \A k, l \in DOMAIN m : m[k].place = m[l].place => k = l

\* How many elements of S come before k.
Rank(S, f, k) == Cardinality({x \in S : f[x] < f[k]})

\* Ranks number a finite set whose elements f tells apart.
LEMMA Ranks ==
    ASSUME NEW S, IsFiniteSet(S), NEW f \in [S -> Int],
           \A k, l \in S : f[k] = f[l] => k = l
    PROVE  /\ \A k \in S : Rank(S, f, k) \in 0 .. Cardinality(S) - 1
           /\ \A k, l \in S : Rank(S, f, k) = Rank(S, f, l) => k = l
           /\ \A k, l \in S : f[k] < f[l] => Rank(S, f, k) < Rank(S, f, l)
<1> DEFINE B(k) == {x \in S : f[x] < f[k]}
<1>1. ASSUME NEW k \in S
      PROVE  /\ Cardinality(B(k)) \in Nat
             /\ IsFiniteSet(B(k) \cup {k}) /\ Cardinality(B(k) \cup {k}) = Cardinality(B(k)) + 1
  <2> DEFINE b == B(k)
  <2>1. b \in SUBSET S /\ k \notin b
    OBVIOUS
  <2> HIDE DEF b
  <2>2. IsFiniteSet(b)
    BY <2>1, FS_Subset
  <2>3. Cardinality(b) \in Nat
    BY <2>2, FS_CardinalityType
  <2>4. IsFiniteSet(b \cup {k}) /\ Cardinality(b \cup {k}) = Cardinality(b) + 1
    BY <2>1, <2>2, FS_AddElement
  <2> QED BY <2>3, <2>4 DEF b
<1>2. ASSUME NEW k \in S
      PROVE  Cardinality(B(k)) \in 0 .. Cardinality(S) - 1
  <2> DEFINE c == B(k) \cup {k}
  <2>1. c \in SUBSET S
    OBVIOUS
  <2>2. Cardinality(c) = Cardinality(B(k)) + 1 /\ Cardinality(B(k)) \in Nat
    BY <1>1
  <2> HIDE DEF c, B
  <2>3. Cardinality(c) <= Cardinality(S)
    BY <2>1, FS_Subset
  <2>4. Cardinality(S) \in Nat
    BY FS_CardinalityType
  <2> QED BY <2>2, <2>3, <2>4
<1>3. ASSUME NEW k \in S, NEW l \in S, f[k] < f[l]
      PROVE  Cardinality(B(k)) < Cardinality(B(l))
  <2> DEFINE c == B(k) \cup {k}
             b == B(l)
  <2>1. c \in SUBSET b
    BY <1>3
  <2>2. Cardinality(c) = Cardinality(B(k)) + 1 /\ Cardinality(B(k)) \in Nat
    BY <1>1
  <2>3. Cardinality(b) \in Nat
    BY <1>1
  <2>4. IsFiniteSet(b)
    BY FS_Subset
  <2> HIDE DEF c, b
  <2>5. Cardinality(c) <= Cardinality(b)
    BY <2>1, <2>4, FS_Subset
  <2> HIDE DEF B
  <2>6. Cardinality(B(k)) < Cardinality(b)
    BY <2>2, <2>3, <2>5
  <2> QED BY <2>6 DEF b
<1>4. ASSUME NEW k \in S, NEW l \in S, Cardinality(B(k)) = Cardinality(B(l))
      PROVE  k = l
  <2>1. f[k] \in Int /\ f[l] \in Int
    OBVIOUS
  <2>2. f[k] < f[l] \/ f[l] < f[k] \/ f[k] = f[l]
    BY <2>1
  <2> HIDE DEF B
  <2>3. Cardinality(B(k)) \in Nat /\ Cardinality(B(l)) \in Nat
    BY <1>1
  <2>4. ~(f[k] < f[l]) /\ ~(f[l] < f[k])
    BY <2>3, <1>3, <1>4
  <2> QED BY <2>2, <2>4
<1> QED BY <1>2, <1>3, <1>4 DEF Rank

\* A map of which only the entries K are kept is ordered again.
LEMMA KeptOrdered ==
    ASSUME NEW m, Ordered(m), NEW K
    PROVE  /\ Ordered(Kept(m, K)) /\ DOMAIN Kept(m, K) = DOMAIN m \cap K
           /\ Cardinality(DOMAIN Kept(m, K)) <= Cardinality(DOMAIN m)
<1> DEFINE S == DOMAIN m \cap K
           f == [x \in S |-> m[x].place]
           r == Kept(m, K)
<1>1. DOMAIN r = S /\ IsFiniteSet(S) /\ Cardinality(S) <= Cardinality(DOMAIN m)
  <2>1. S \in SUBSET DOMAIN m
    OBVIOUS
  <2> QED BY <2>1, FS_Subset DEF Ordered, Kept
<1>2. f \in [S -> Int] /\ \A k, l \in S : f[k] = f[l] => k = l
  BY DEF Ordered
<1>3. \A k \in S : Rank(S, f, k) = Cardinality({x \in S : m[x].place < m[k].place})
  <2> SUFFICES ASSUME NEW k \in S
               PROVE  {x \in S : f[x] < f[k]} = {x \in S : m[x].place < m[k].place}
    BY DEF Rank
  <2> QED OBVIOUS
<1>4. \A k \in S : r[k] = [m[k] EXCEPT !.place = Rank(S, f, k)]
  BY <1>3 DEF Kept
<1>5. \A k \in S : "place" \in DOMAIN r[k] /\ r[k].place = Rank(S, f, k)
  BY <1>4 DEF Ordered
<1> HIDE DEF S, f, r
<1>6. /\ \A k \in S : Rank(S, f, k) \in 0 .. Cardinality(S) - 1
      /\ \A k, l \in S : Rank(S, f, k) = Rank(S, f, l) => k = l
  BY <1>1, <1>2, Ranks
<1>7. Ordered(r)
  BY <1>1, <1>5, <1>6 DEF Ordered
<1> QED BY <1>1, <1>7 DEF S, r

\* The entries that are kept stay in their order.
LEMMA KeptOrder ==
    ASSUME NEW m, Ordered(m), NEW K, NEW k \in DOMAIN m \cap K, NEW l \in DOMAIN m \cap K,
           Kept(m, K)[k].place < Kept(m, K)[l].place
    PROVE  m[k].place < m[l].place
<1> DEFINE S == DOMAIN m \cap K
           f == [x \in S |-> m[x].place]
<1>1. IsFiniteSet(S)
  <2>1. S \in SUBSET DOMAIN m
    OBVIOUS
  <2> QED BY <2>1, FS_Subset DEF Ordered
<1>2. f \in [S -> Int] /\ \A x, y \in S : f[x] = f[y] => x = y
  BY DEF Ordered
<1>3. ASSUME NEW x \in S PROVE Kept(m, K)[x].place = Rank(S, f, x)
  <2>1. {y \in S : f[y] < f[x]} = {y \in S : m[y].place < m[x].place}
    OBVIOUS
  <2>2. Kept(m, K)[x] = [m[x] EXCEPT !.place = Rank(S, f, x)]
    BY <2>1 DEF Kept, Rank
  <2> QED BY <2>2 DEF Ordered
<1>4. k \in S /\ l \in S /\ Rank(S, f, k) < Rank(S, f, l)
  BY <1>3
<1>5. f[k] = m[k].place /\ f[l] = m[l].place
  OBVIOUS
<1> HIDE DEF S, f
<1>6. /\ \A x, y \in S : f[x] < f[y] => Rank(S, f, x) < Rank(S, f, y)
      /\ \A x \in S : Rank(S, f, x) \in 0 .. Cardinality(S) - 1
  BY <1>1, <1>2, Ranks
<1>7. f[k] \in Int /\ f[l] \in Int /\ Rank(S, f, k) \in Int /\ Rank(S, f, l) \in Int
  BY <1>2, <1>4, <1>6
<1>8. f[k] # f[l] /\ ~ (f[l] < f[k])
  BY <1>2, <1>4, <1>6, <1>7
<1> QED BY <1>5, <1>7, <1>8

\* Newest keeps at most n entries.
LEMMA NewestBounded ==
    ASSUME NEW m, Ordered(m), NEW n \in Nat
    PROVE  Cardinality(DOMAIN Newest(m, n)) <= n
<1> DEFINE c == Cardinality(DOMAIN m)
           lo == c - n
           hi == c - 1
           S == {k \in DOMAIN m : m[k].place >= lo}
           f == [k \in S |-> m[k].place]
           d == DOMAIN Newest(m, n)
<1>1. c \in Nat
  BY FS_CardinalityType DEF Ordered
<1>2. d = S
  BY KeptOrdered DEF Newest
<1>3. lo \in Int /\ hi \in Int /\ hi - lo + 1 = n
  BY <1>1
<1>4. f \in [S -> lo .. hi] /\ \A k, l \in S : f[k] = f[l] => k = l
  BY <1>1 DEF Ordered
<1> HIDE DEF c, lo, hi, S, f, d
<1>5. f \in Injection(S, lo .. hi)
  BY <1>4 DEF Injection, IsInjective
<1>6. IsFiniteSet(lo .. hi) /\ Cardinality(lo .. hi) = IF lo > hi THEN 0 ELSE hi - lo + 1
  BY <1>3, FS_Interval
<1>7. Cardinality(S) <= Cardinality(lo .. hi) /\ IsFiniteSet(S)
  BY <1>5, <1>6, FS_Injection
<1>8. Cardinality(S) \in Nat
  BY <1>7, FS_CardinalityType
<1>9. Cardinality(S) <= n
  BY <1>3, <1>6, <1>7, <1>8
<1> QED BY <1>2, <1>9 DEF d

PlacedAt(e, n) == "place" \in DOMAIN e /\ e.place = n

\* An entry put at the end of a map that lacks its key.
LEMMA AddedOrdered ==
    ASSUME NEW m, Ordered(m), NEW k, k \notin DOMAIN m, NEW e,
           PlacedAt(e, Cardinality(DOMAIN m)), NEW a, a = Added(m, k, e)
    PROVE  /\ Ordered(a) /\ DOMAIN a = DOMAIN m \cup {k}
           /\ Cardinality(DOMAIN a) = Cardinality(DOMAIN m) + 1
<1>1. DOMAIN a = DOMAIN m \cup {k} /\ a[k] = e /\ \A x \in DOMAIN m : a[x] = m[x]
  BY DEF Added
<1>2. /\ IsFiniteSet(DOMAIN a) /\ Cardinality(DOMAIN a) = Cardinality(DOMAIN m) + 1
      /\ Cardinality(DOMAIN m) \in Nat
  BY <1>1, FS_AddElement, FS_CardinalityType DEF Ordered
<1>3. \A x \in DOMAIN a : "place" \in DOMAIN a[x] /\ a[x].place \in 0 .. Cardinality(DOMAIN a) - 1
  BY <1>1, <1>2 DEF Ordered, PlacedAt
<1>4. \A x, y \in DOMAIN a : a[x].place = a[y].place => x = y
  BY <1>1, <1>2 DEF Ordered, PlacedAt
<1>5. Ordered(a)
  BY <1>2, <1>3, <1>4 DEF Ordered
<1> QED BY <1>1, <1>2, <1>5

-----------------------------------------------------------------------------
(* The inductive invariant. *)

Stages == {"idle", "anchors", "routing", "analysis", "done"}

ReadRecord == [pc : {"get", "body", "tiles", "put", "settled"}, window : Windows,
               end : {"none", "grid"} \cup Errors, expiresAt : Nat, readAt : 0 .. now]

\* What is known of read c: it failed by an abort only of the plan that began it, and an
\* object that is going to be put will not outlive its grid by more than both times to live.
ReadSound(c, r) ==
    /\ r.pc = "settled" => r.end # "none"
    /\ r.end = "ABORTED" => aborted[c[1]]
    /\ r.pc \in {"get", "body", "tiles"} => r.expiresAt <= now + BucketTtl
    /\ r.pc = "put" => r.expiresAt <= r.readAt + CacheTtl + BucketTtl

ReadsSound ==
    /\ read \in [Calls -> {NoRead} \cup ReadRecord]
    /\ \A c \in Calls : ReadSound(c, read[c])

\* Calls are given reads of their own request id only.
SameId(p, q) == p \in DOMAIN id /\ q \in DOMAIN id /\ id[p] = id[q]

AwaitsSound(a) ==
    /\ a \in [Calls -> Calls \cup {NoCall}]
    /\ \A c \in Calls : a[c] # NoCall => SameId(c[1], a[c][1])

\* A map of promises with at most n entries, made by calls in M.
GridsSound(g, M, n) ==
    /\ Ordered(g) /\ DOMAIN g \subseteq Ids /\ Cardinality(DOMAIN g) <= n
    /\ \A i \in DOMAIN g :
          /\ g[i] \in [createdAt : 0 .. now, read : M, place : Nat]
          /\ g[i].read[1] \in DOMAIN id /\ id[g[i].read[1]] = i

CacheSound(m, n) ==
    /\ Ordered(m) /\ DOMAIN m \subseteq Windows /\ Cardinality(DOMAIN m) <= n
    /\ \A w \in DOMAIN m :
          /\ m[w] \in [expiresAt : Nat, readAt : 0 .. now, place : Nat]
          /\ m[w].expiresAt <= m[w].readAt + CacheTtl

BucketSound ==
    /\ bucket \in [Windows -> [expiresAt : Nat, readAt : 0 .. now]]
    /\ \A w \in Windows : bucket[w].expiresAt <= bucket[w].readAt + CacheTtl + BucketTtl

Setting ==
    /\ bound \in Deployments /\ id \in Choices[bound]
    /\ now \in 0 .. MaxTime[bound] /\ aborted \in [Plans -> BOOLEAN]

MadeCalls == {c \in Calls : Made(c)}

Provider ==
    /\ stage \in [Plans -> Stages] /\ AwaitsSound(awaits) /\ ReadsSound
    /\ GridsSound(requestGrids, MadeCalls, MaxRequestGrids)

Histories ==
    /\ entry \in [Plans -> [at : 0 .. now, newer : Nat]]
    /\ since \in [Windows -> SUBSET Windows]
    /\ filledAt \in [Windows -> 0 .. now \cup {Never}]

IInv == Setting /\ Provider /\ CacheSound(cache, MaxCachedGrids) /\ BucketSound /\ Histories

-----------------------------------------------------------------------------
(* The maps of the program. *)

LEMMA Limits ==
    /\ RequestTtl \in Nat \ {0} /\ MaxRequestGrids \in Nat \ {0}
    /\ MaxCachedGrids \in Nat \ {0} /\ BucketTtl \in Nat \ {0}
    /\ CacheTtl \in Nat /\ \A b \in Deployments : MaxTime[b] \in Nat
  BY ConstantsAssumption

LEMMA KeptGrids ==
    ASSUME NEW g, NEW M, NEW n, NEW K, GridsSound(g, M, n), n \in Nat
    PROVE  GridsSound(Kept(g, K), M, n)
<1> DEFINE h == Kept(g, K)
<1>1. /\ Ordered(h) /\ DOMAIN h = DOMAIN g \cap K
      /\ Cardinality(DOMAIN h) <= Cardinality(DOMAIN g)
  BY KeptOrdered DEF GridsSound
<1>2. Cardinality(DOMAIN g) \in Nat /\ Cardinality(DOMAIN h) \in Nat
  BY <1>1, FS_CardinalityType DEF GridsSound, Ordered
<1>3. ASSUME NEW i \in DOMAIN h
      PROVE  /\ h[i] \in [createdAt : 0 .. now, read : M, place : Nat]
             /\ h[i].read = g[i].read
  <2>1. h[i] = [g[i] EXCEPT !.place = Cardinality({x \in DOMAIN g \cap K : g[x].place < g[i].place})]
    BY <1>1 DEF Kept
  <2>2. g[i] \in [createdAt : 0 .. now, read : M, place : Nat]
    BY <1>1 DEF GridsSound
  <2>3. h[i].place \in Nat
    BY <1>1, <1>2 DEF Ordered
  <2> HIDE DEF h
  <2> QED BY <2>1, <2>2, <2>3
<1> HIDE DEF h
<1>4. Cardinality(DOMAIN h) <= n
  BY <1>1, <1>2 DEF GridsSound
<1>5. GridsSound(h, M, n)
  BY <1>1, <1>3, <1>4 DEF GridsSound
<1> QED BY <1>5 DEF h

LEMMA KeptCache ==
    ASSUME NEW m, NEW n, NEW K, CacheSound(m, n), n \in Nat
    PROVE  CacheSound(Kept(m, K), n)
<1> DEFINE h == Kept(m, K)
<1>1. /\ Ordered(h) /\ DOMAIN h = DOMAIN m \cap K
      /\ Cardinality(DOMAIN h) <= Cardinality(DOMAIN m)
  BY KeptOrdered DEF CacheSound
<1>2. Cardinality(DOMAIN m) \in Nat /\ Cardinality(DOMAIN h) \in Nat
  BY <1>1, FS_CardinalityType DEF CacheSound, Ordered
<1>3. ASSUME NEW w \in DOMAIN h
      PROVE  /\ h[w] \in [expiresAt : Nat, readAt : 0 .. now, place : Nat]
             /\ h[w].expiresAt = m[w].expiresAt /\ h[w].readAt = m[w].readAt
  <2>1. h[w] = [m[w] EXCEPT !.place = Cardinality({x \in DOMAIN m \cap K : m[x].place < m[w].place})]
    BY <1>1 DEF Kept
  <2>2. m[w] \in [expiresAt : Nat, readAt : 0 .. now, place : Nat]
    BY <1>1 DEF CacheSound
  <2>3. h[w].place \in Nat
    BY <1>1, <1>2 DEF Ordered
  <2> HIDE DEF h
  <2> QED BY <2>1, <2>2, <2>3
<1> HIDE DEF h
<1>4. Cardinality(DOMAIN h) <= n
  BY <1>1, <1>2 DEF CacheSound
<1>5. \A w \in DOMAIN h : h[w].expiresAt <= h[w].readAt + CacheTtl
  BY <1>1, <1>3 DEF CacheSound
<1>6. CacheSound(h, n)
  BY <1>1, <1>3, <1>4, <1>5 DEF CacheSound
<1> QED BY <1>6 DEF h

\* A map of which the newest entries are kept has room again.
LEMMA NewestGrids ==
    ASSUME NEW g, NEW M, NEW k \in Nat, NEW n \in Nat, GridsSound(g, M, k)
    PROVE  GridsSound(Newest(g, n), M, n)
<1> DEFINE h == Newest(g, n)
<1>1. GridsSound(h, M, k)
  BY KeptGrids DEF Newest
<1>2. Cardinality(DOMAIN h) <= n
  BY NewestBounded DEF GridsSound
<1> HIDE DEF h
<1>3. GridsSound(h, M, n)
  BY <1>1, <1>2 DEF GridsSound
<1> QED BY <1>3 DEF h

LEMMA NewestCache ==
    ASSUME NEW m, NEW k \in Nat, NEW n \in Nat, CacheSound(m, k)
    PROVE  CacheSound(Newest(m, n), n)
<1> DEFINE h == Newest(m, n)
<1>1. CacheSound(h, k)
  BY KeptCache DEF Newest
<1>2. Cardinality(DOMAIN h) <= n
  BY NewestBounded DEF CacheSound
<1> HIDE DEF h
<1>3. CacheSound(h, n)
  BY <1>1, <1>2 DEF CacheSound
<1> QED BY <1>3 DEF h

\* The promise of a new read put into the map.
LEMMA AddedGrids ==
    ASSUME NEW g, NEW M, NEW n \in Nat, GridsSound(g, M, n), NEW c \in Calls,
           c[1] \in DOMAIN id, id[c[1]] \in Ids, id[c[1]] \notin DOMAIN g, now \in Nat
    PROVE  GridsSound(Added(g, id[c[1]], [createdAt |-> now, read |-> c,
                                          place |-> Cardinality(DOMAIN g)]),
                      M \cup {c}, n + 1)
<1> DEFINE i == id[c[1]]
           e == [createdAt |-> now, read |-> c, place |-> Cardinality(DOMAIN g)]
           h == Added(g, i, e)
<1>1. PlacedAt(e, Cardinality(DOMAIN g)) /\ e.read = c
  BY DEF PlacedAt
<1>2. Cardinality(DOMAIN g) \in Nat
  BY FS_CardinalityType DEF GridsSound, Ordered
<1>3. e \in [createdAt : 0 .. now, read : M \cup {c}, place : Nat]
  BY <1>2
<1> HIDE DEF e
<1>4. /\ Ordered(h) /\ DOMAIN h = DOMAIN g \cup {i}
      /\ Cardinality(DOMAIN h) = Cardinality(DOMAIN g) + 1
  <2>1. Ordered(g) /\ i \notin DOMAIN g /\ h = Added(g, i, e)
    BY DEF GridsSound
  <2> HIDE DEF i, h
  <2> QED BY <1>1, <2>1, AddedOrdered, Zenon
<1>entries. h[i] = e /\ \A x \in DOMAIN g : h[x] = g[x]
  BY DEF Added
<1>key. i = id[c[1]] /\ i \in Ids
  OBVIOUS
<1> HIDE DEF h, i
<1>5. ASSUME NEW x \in DOMAIN h
      PROVE  /\ h[x] \in [createdAt : 0 .. now, read : M \cup {c}, place : Nat]
             /\ h[x].read[1] \in DOMAIN id /\ id[h[x].read[1]] = x
  <2>1. CASE x = i
    BY <2>1, <1>1, <1>3, <1>entries, <1>key
  <2>2. CASE x \in DOMAIN g
    <3>1. h[x] = g[x]
      BY <2>2, <1>entries
    <3>2. /\ g[x] \in [createdAt : 0 .. now, read : M, place : Nat]
          /\ g[x].read[1] \in DOMAIN id /\ id[g[x].read[1]] = x
      BY <2>2 DEF GridsSound
    <3> QED BY <3>1, <3>2
  <2> QED BY <2>1, <2>2, <1>4
<1>6. Cardinality(DOMAIN h) <= n + 1 /\ DOMAIN h \subseteq Ids
  BY <1>2, <1>4, <1>key DEF GridsSound
<1>7. GridsSound(h, M \cup {c}, n + 1)
  BY <1>4, <1>5, <1>6 DEF GridsSound
<1> QED BY <1>7 DEF h, e, i

\* A grid put into the cache, or put back, where it had no entry.
LEMMA AddedCache ==
    ASSUME NEW o, NEW n \in Nat, CacheSound(o, n), NEW w \in Windows, w \notin DOMAIN o,
           NEW x \in Nat, NEW t \in 0 .. now, x <= t + CacheTtl
    PROVE  LET h == Added(o, w, [expiresAt |-> x, readAt |-> t,
                                 place |-> Cardinality(DOMAIN o)]) IN
           /\ CacheSound(h, n + 1)
           /\ Cardinality(DOMAIN h) = Cardinality(DOMAIN o) + 1
<1> DEFINE e == [expiresAt |-> x, readAt |-> t, place |-> Cardinality(DOMAIN o)]
           h == Added(o, w, e)
<1>1. PlacedAt(e, Cardinality(DOMAIN o))
  BY DEF PlacedAt
<1>fields. e.expiresAt = x /\ e.readAt = t
  OBVIOUS
<1>2. Cardinality(DOMAIN o) \in Nat
  BY FS_CardinalityType DEF CacheSound, Ordered
<1>3. e \in [expiresAt : Nat, readAt : 0 .. now, place : Nat]
  BY <1>2
<1> HIDE DEF e
<1>4. /\ Ordered(h) /\ DOMAIN h = DOMAIN o \cup {w}
      /\ Cardinality(DOMAIN h) = Cardinality(DOMAIN o) + 1
  <2>1. Ordered(o) /\ h = Added(o, w, e)
    BY DEF CacheSound
  <2> HIDE DEF h
  <2> QED BY <1>1, <2>1, AddedOrdered, Zenon
<1>entries. h[w] = e /\ \A y \in DOMAIN o : h[y] = o[y]
  BY DEF Added
<1> HIDE DEF h
<1>5. ASSUME NEW v \in DOMAIN h
      PROVE  /\ h[v] \in [expiresAt : Nat, readAt : 0 .. now, place : Nat]
             /\ h[v].expiresAt <= h[v].readAt + CacheTtl
  <2>1. CASE v = w
    BY <2>1, <1>fields, <1>3, <1>entries
  <2>2. CASE v \in DOMAIN o
    BY <2>2, <1>entries DEF CacheSound
  <2> QED BY <2>1, <2>2, <1>4
<1>6. Cardinality(DOMAIN h) <= n + 1 /\ DOMAIN h \subseteq Windows
  BY <1>2, <1>4 DEF CacheSound
<1>7. CacheSound(h, n + 1)
  BY <1>4, <1>5, <1>6 DEF CacheSound
<1> QED BY <1>4, <1>7 DEF h, e

LEMMA OthersSound ==
    ASSUME NEW m, NEW n \in Nat, CacheSound(m, n), NEW w
    PROVE  CacheSound(Others(m, w), n) /\ DOMAIN Others(m, w) = DOMAIN m \ {w}
<1>1. CacheSound(Others(m, w), n)
  BY KeptCache DEF Others
<1>2. DOMAIN Others(m, w) = DOMAIN m \cap (DOMAIN m \ {w})
  BY DEF Others, Kept
<1> QED BY <1>1, <1>2

LEMMA LiveSound ==
    ASSUME NEW m, NEW n \in Nat, CacheSound(m, n)
    PROVE  /\ CacheSound(Live(m), n)
           /\ DOMAIN Live(m) = {w \in DOMAIN m : m[w].expiresAt > now}
           /\ \A w \in DOMAIN Live(m) : /\ Live(m)[w].expiresAt = m[w].expiresAt
                                       /\ Live(m)[w].readAt = m[w].readAt
<1> DEFINE K == {w \in DOMAIN m : m[w].expiresAt > now}
<1>1. CacheSound(Live(m), n)
  BY KeptCache DEF Live
<1>2. DOMAIN Live(m) = K
  BY DEF Live, Kept
<1>3. ASSUME NEW w \in K
      PROVE  Live(m)[w].expiresAt = m[w].expiresAt /\ Live(m)[w].readAt = m[w].readAt
  <2>1. m[w] \in [expiresAt : Nat, readAt : 0 .. now, place : Nat]
    BY DEF CacheSound
  <2>2. Live(m)[w] = [m[w] EXCEPT !.place = Cardinality({x \in DOMAIN m \cap K : m[x].place < m[w].place})]
    BY DEF Live, Kept
  <2> QED BY <2>1, <2>2
<1> QED BY <1>1, <1>2, <1>3

LEMMA TouchedSound ==
    ASSUME NEW m, NEW n \in Nat, CacheSound(m, n), NEW w \in DOMAIN m
    PROVE  CacheSound(Touched(m, w), n)
<1> DEFINE o == Others(m, w)
           x == m[w].expiresAt
           t == m[w].readAt
           h == Touched(m, w)
<1>1. CacheSound(o, n) /\ DOMAIN o = DOMAIN m \ {w} /\ w \in Windows
  BY OthersSound DEF CacheSound
<1>2. /\ Cardinality(DOMAIN m) \in Nat
      /\ Cardinality(DOMAIN m \ {w}) = Cardinality(DOMAIN m) - 1
  <2>1. IsFiniteSet(DOMAIN m)
    BY DEF CacheSound, Ordered
  <2> QED BY <2>1, FS_CardinalityType, FS_RemoveElement
<1>3. m[w] \in [expiresAt : Nat, readAt : 0 .. now, place : Nat] /\ x <= t + CacheTtl
  BY DEF CacheSound
<1>4. h = Added(o, w, [expiresAt |-> x, readAt |-> t, place |-> Cardinality(DOMAIN o)])
  <2>1. [m[w] EXCEPT !.place = Cardinality(DOMAIN m) - 1]
            = [expiresAt |-> x, readAt |-> t, place |-> Cardinality(DOMAIN m) - 1]
    BY <1>3
  <2>2. Cardinality(DOMAIN o) = Cardinality(DOMAIN m) - 1
    BY <1>1, <1>2
  <2> QED BY <2>1, <2>2 DEF Touched
<1>5. x \in Nat /\ t \in 0 .. now
  BY <1>3
<1>6. w \notin DOMAIN o
  BY <1>1
<1> HIDE DEF o, x, t, h
<1>7. CacheSound(h, n + 1) /\ Cardinality(DOMAIN h) = Cardinality(DOMAIN o) + 1
  BY <1>1, <1>3, <1>4, <1>5, <1>6, AddedCache
<1>8. Cardinality(DOMAIN h) <= n
  BY <1>1, <1>2, <1>7 DEF CacheSound
<1>9. CacheSound(h, n)
  BY <1>7, <1>8 DEF CacheSound
<1> QED BY <1>9 DEF h

LEMMA RememberedSound ==
    ASSUME NEW m, CacheSound(m, MaxCachedGrids), NEW w \in Windows, now \in Nat
    PROVE  CacheSound(Remembered(m, w), MaxCachedGrids)
<1>1. CASE CacheTtl = 0
  BY <1>1 DEF Remembered
<1>2. CASE CacheTtl # 0
  <2> DEFINE o == Others(m, w)
             a == Added(o, w, [expiresAt |-> now + CacheTtl, readAt |-> now,
                               place |-> Cardinality(DOMAIN o)])
  <2>1. MaxCachedGrids \in Nat /\ now + CacheTtl \in Nat /\ now \in 0 .. now
    BY Limits
  <2>2. CacheSound(o, MaxCachedGrids) /\ DOMAIN o = DOMAIN m \ {w} /\ w \notin DOMAIN o
    BY <2>1, OthersSound
  <2>3. Remembered(m, w) = Newest(a, MaxCachedGrids)
    BY <1>2, <2>2 DEF Remembered
  <2>4. now + CacheTtl <= now + CacheTtl
    BY <2>1
  <2> HIDE DEF o
  <2>5. CacheSound(a, MaxCachedGrids + 1)
    BY <2>1, <2>2, <2>4, AddedCache
  <2> HIDE DEF a
  <2>6. MaxCachedGrids + 1 \in Nat
    BY <2>1
  <2> QED BY <2>1, <2>3, <2>5, <2>6, NewestCache
<1> QED BY <1>1, <1>2

-----------------------------------------------------------------------------
(* The steps. *)

LEMMA ContinueSound ==
    ASSUME NEW calls, NEW g, NEW M, GridsSound(g, M, MaxRequestGrids),
           NEW s \in [Plans -> Stages], Continue(calls, g, s)
    PROVE  GridsSound(requestGrids', M, MaxRequestGrids) /\ stage' \in [Plans -> Stages]
<1>1. GridsSound(requestGrids', M, MaxRequestGrids)
  <2> DEFINE K == Ids \ {id[p] : p \in {q \in DOMAIN id : <<q, "analysis">> \in calls}}
  <2>1. requestGrids' = Kept(g, K) /\ MaxRequestGrids \in Nat
    BY Limits DEF Continue
  <2> HIDE DEF K
  <2> QED BY <2>1, KeptGrids
<1>2. stage' \in [Plans -> Stages]
  BY DEF Continue, Stages
<1> QED BY <1>1, <1>2

\* The map of promises is sound in the next state.
LEMMA GridsNext ==
    ASSUME NEW M, GridsSound(requestGrids', M, MaxRequestGrids), M \subseteq MadeCalls',
           now \in Nat, now' \in Nat, now <= now', id' = id
    PROVE  GridsSound(requestGrids, MadeCalls, MaxRequestGrids)'
<1>1. \A i \in DOMAIN requestGrids' :
        /\ requestGrids'[i] \in [createdAt : 0 .. now', read : MadeCalls', place : Nat]
        /\ requestGrids'[i].read[1] \in DOMAIN id /\ id[requestGrids'[i].read[1]] = i
  BY DEF GridsSound
<1>2. /\ Ordered(requestGrids') /\ DOMAIN requestGrids' \subseteq Ids
      /\ Cardinality(DOMAIN requestGrids') <= MaxRequestGrids
  BY DEF GridsSound
<1> QED BY <1>1, <1>2 DEF GridsSound, Ordered

LEMMA CacheNext ==
    ASSUME CacheSound(cache', MaxCachedGrids), now \in Nat, now' \in Nat, now <= now'
    PROVE  CacheSound(cache, MaxCachedGrids)'
<1>1. \A w \in DOMAIN cache' :
        /\ cache'[w] \in [expiresAt : Nat, readAt : 0 .. now', place : Nat]
        /\ cache'[w].expiresAt <= cache'[w].readAt + CacheTtl
  BY DEF CacheSound
<1> QED BY <1>1 DEF CacheSound, Ordered

LEMMA BecomesSound ==
    ASSUME ReadsSound, now \in Nat, NEW c \in Calls, NEW r \in ReadRecord, ReadSound(c, r),
           NEW g, GridsSound(g, MadeCalls \cup {c}, MaxRequestGrids),
           NEW a, AwaitsSound(a), NEW s \in [Plans -> Stages], Becomes(c, r, g, a, s),
           UNCHANGED <<id, aborted, now>>
    PROVE  Provider'
<1>1. read \in [Calls -> {NoRead} \cup ReadRecord] /\ read' = [read EXCEPT ![c] = r]
  BY DEF ReadsSound, Becomes
<1>2. read' \in [Calls -> {NoRead} \cup ReadRecord']
  BY <1>1 DEF ReadRecord
<1>3. ASSUME NEW x \in Calls
      PROVE  ReadSound(x, read[x])'
  <2>1. read'[x] = IF x = c THEN r ELSE read[x]
    BY <1>1
  <2>2. ReadSound(x, read'[x])
    BY <2>1 DEF ReadsSound
  <2> QED BY <2>2 DEF ReadSound
<1>4. ReadsSound'
  BY <1>2, <1>3 DEF ReadsSound
<1>5. MadeCalls \cup {c} \subseteq MadeCalls'
  <2>1. r.pc # "none"
    BY DEF ReadRecord
  <2>2. \A x \in Calls : read'[x] = IF x = c THEN r ELSE read[x]
    BY <1>1
  <2> QED BY <2>1, <2>2 DEF MadeCalls, Made
<1>6. GridsSound(requestGrids', MadeCalls \cup {c}, MaxRequestGrids) /\ stage' \in [Plans -> Stages]
  BY ContinueSound DEF Becomes
<1>7. GridsSound(requestGrids, MadeCalls, MaxRequestGrids)'
  <2>1. now' \in Nat /\ now <= now' /\ id' = id
    OBVIOUS
  <2> QED BY <1>5, <1>6, <2>1, GridsNext
<1>8. AwaitsSound(awaits)'
  BY DEF AwaitsSound, Becomes, SameId
<1> QED BY <1>4, <1>6, <1>7, <1>8 DEF Provider, Stages

LEMMA SettlingSound ==
    ASSUME NEW c, NEW r \in ReadRecord, NEW end \in {"grid"} \cup Errors, now \in Nat,
           end = "ABORTED" => aborted[c[1]]
    PROVE  Settling(r, end) \in ReadRecord /\ ReadSound(c, Settling(r, end))
<1>1. Settling(r, end) \in ReadRecord
  BY DEF Settling, ReadRecord
<1>2. ReadSound(c, Settling(r, end))
  BY DEF Settling, ReadSound, Errors
<1> QED BY <1>1, <1>2

LEMMA ObtainedSound ==
    ASSUME NEW c, NEW r \in ReadRecord, NEW t \in 0 .. now, now \in Nat,
           r.expiresAt <= t + CacheTtl + BucketTtl
    PROVE  Obtained(r, t) \in ReadRecord /\ ReadSound(c, Obtained(r, t))
<1>1. CASE bound
  <2>1. Obtained(r, t) = [r EXCEPT !.pc = "put", !.end = "grid", !.readAt = t]
    BY <1>1 DEF Obtained
  <2> QED BY <2>1 DEF ReadRecord, ReadSound
<1>2. CASE ~bound
  <2>1. Obtained(r, t) = Settling(r, "grid")
    BY <1>2 DEF Obtained
  <2> QED BY <2>1, SettlingSound
<1> QED BY <1>1, <1>2

LEMMA ReadSourceSound ==
    ASSUME ReadsSound, CacheSound(cache, MaxCachedGrids), now \in Nat,
           since \in [Windows -> SUBSET Windows],
           NEW c \in Calls, NEW r \in ReadRecord, ReadSound(c, r), r.pc \in {"get", "body"},
           NEW g, GridsSound(g, MadeCalls \cup {c}, MaxRequestGrids),
           NEW a, AwaitsSound(a), NEW s \in [Plans -> Stages], ReadSource(c, r, g, a, s),
           UNCHANGED <<id, aborted, now>>
    PROVE  /\ Provider' /\ CacheSound(cache, MaxCachedGrids)'
           /\ since' \in [Windows -> SUBSET Windows]
<1> DEFINE w == r.window
<1>1. CASE aborted[c[1]] /\ Becomes(c, Settling(r, "ABORTED"), g, a, s) /\ UNCHANGED <<cache, since>>
  <2>1. "ABORTED" \in {"grid"} \cup Errors
    BY DEF Errors
  <2>2. Settling(r, "ABORTED") \in ReadRecord /\ ReadSound(c, Settling(r, "ABORTED"))
    BY <1>1, <2>1, SettlingSound
  <2>3. Provider'
    BY <1>1, <2>2, BecomesSound
  <2> QED BY <1>1, <2>3, CacheNext
<1>2. CASE /\ w \in DOMAIN Live(cache) /\ cache' = Touched(Live(cache), w) /\ Used(w)
           /\ Becomes(c, Obtained(r, cache[w].readAt), g, a, s)
  <2>1. /\ CacheSound(Live(cache), MaxCachedGrids) /\ MaxCachedGrids \in Nat
        /\ w \in DOMAIN cache /\ cache[w].expiresAt > now
    BY <1>2, LiveSound, Limits
  <2>2. CacheSound(cache', MaxCachedGrids)
    BY <1>2, <2>1, TouchedSound
  <2>3. cache[w].readAt \in 0 .. now /\ cache[w].expiresAt \in Nat
        /\ cache[w].expiresAt <= cache[w].readAt + CacheTtl
    BY <2>1 DEF CacheSound
  <2>4. r.expiresAt <= now + BucketTtl /\ r.expiresAt \in Nat
    BY DEF ReadSound, ReadRecord
  <2>5. r.expiresAt <= cache[w].readAt + CacheTtl + BucketTtl
    BY <2>1, <2>3, <2>4, Limits
  <2> DEFINE t == cache[w].readAt
  <2> HIDE DEF t
  <2>6. Obtained(r, t) \in ReadRecord /\ ReadSound(c, Obtained(r, t))
    BY <2>3, <2>5, ObtainedSound DEF t
  <2>7. Provider'
    BY <1>2, <2>6, BecomesSound DEF t
  <2>8. since' \in [Windows -> SUBSET Windows]
    BY <1>2 DEF Used, ReadRecord
  <2> QED BY <2>2, <2>7, <2>8, CacheNext
<1>3. CASE cache' = Live(cache) /\ Becomes(c, [r EXCEPT !.pc = "tiles"], g, a, s) /\ UNCHANGED since
  <2>1. CacheSound(cache', MaxCachedGrids)
    BY <1>3, LiveSound, Limits
  <2>2. [r EXCEPT !.pc = "tiles"] \in ReadRecord /\ ReadSound(c, [r EXCEPT !.pc = "tiles"])
    BY DEF ReadRecord, ReadSound
  <2>3. Provider'
    BY <1>3, <2>2, BecomesSound
  <2> QED BY <1>3, <2>1, <2>3, CacheNext
<1> QED BY <1>1, <1>2, <1>3 DEF ReadSource

LEMMA SweptSound ==
    ASSUME GridsSound(requestGrids, MadeCalls, MaxRequestGrids)
    PROVE  GridsSound(Swept, MadeCalls, MaxRequestGrids)
<1> DEFINE K == {i \in DOMAIN requestGrids : requestGrids[i].createdAt + RequestTtl > now}
<1>1. Swept = Kept(requestGrids, K) /\ MaxRequestGrids \in Nat
  BY Limits DEF Swept
<1> HIDE DEF K
<1> QED BY <1>1, KeptGrids

LEMMA GridForRequestSound ==
    ASSUME IInv, NEW p \in DOMAIN id, NEW k \in {"anchors", "analysis"}, NEW w \in Windows,
           NEW s \in [Plans -> Stages], GridForRequest(<<p, k>>, w, s),
           UNCHANGED <<bound, id, aborted, bucket, now, filledAt>>
    PROVE  IInv'
<1> DEFINE c == <<p, k>>
           calls(x) == [awaits EXCEPT ![c] = x]
           r == [pc |-> "get", window |-> w, end |-> "none",
                 expiresAt |-> IF bound THEN now + BucketTtl ELSE 0, readAt |-> 0]
           added == Added(Swept, id[p], [createdAt |-> now, read |-> c,
                                         place |-> Cardinality(DOMAIN Swept)])
<1>1. /\ now \in Nat /\ p \in Plans /\ id[p] \in Ids /\ c \in Calls /\ c[1] = p
      /\ MaxRequestGrids \in Nat /\ BucketTtl \in Nat
  BY ConstantsAssumption, Limits DEF IInv, Setting, Calls
<1>2. GridsSound(Swept, MadeCalls, MaxRequestGrids)
  BY SweptSound DEF IInv, Provider
<1>3. /\ AwaitsSound(awaits) /\ ReadsSound /\ CacheSound(cache, MaxCachedGrids)
      /\ since \in [Windows -> SUBSET Windows]
  BY DEF IInv, Provider, Histories
<1>4. ASSUME NEW x \in Calls, SameId(p, x[1])
      PROVE  AwaitsSound(calls(x))
  BY <1>1, <1>3, <1>4 DEF AwaitsSound
<1>5. Setting' /\ BucketSound' /\ filledAt' \in [Windows -> 0 .. now' \cup {Never}]
  BY DEF IInv, Setting, BucketSound, Histories
<1>6. CASE /\ \E i \in EntriesFor(p, w) :
                /\ awaits' = calls(Swept[i].read)
                /\ Continue(IF Settled(Swept[i].read) THEN {c} ELSE {}, Swept, s)
           /\ UNCHANGED <<read, cache, since, entry>>
  <2>1. PICK i \in EntriesFor(p, w) :
            /\ awaits' = calls(Swept[i].read)
            /\ Continue(IF Settled(Swept[i].read) THEN {c} ELSE {}, Swept, s)
    BY <1>6
  <2>2. i \in DOMAIN Swept /\ i = id[p]
    BY DEF EntriesFor
  <2>3. Swept[i].read \in MadeCalls /\ SameId(p, Swept[i].read[1])
    BY <1>2, <2>2 DEF GridsSound, SameId
  <2> DEFINE x == Swept[i].read
             go == IF Settled(x) THEN {c} ELSE {}
  <2>4. AwaitsSound(awaits')
    BY <1>4, <2>1, <2>3 DEF MadeCalls
  <2>5. awaits' = calls(x) /\ Continue(go, Swept, s)
    BY <2>1
  <2> HIDE DEF x, go
  <2>6. GridsSound(requestGrids', MadeCalls, MaxRequestGrids) /\ stage' \in [Plans -> Stages]
    BY <1>2, <2>5, ContinueSound
  <2>7. MadeCalls \subseteq MadeCalls' /\ now' = now /\ id' = id /\ now <= now' /\ now' \in Nat
    BY <1>1, <1>6 DEF MadeCalls, Made
  <2>8. GridsSound(requestGrids, MadeCalls, MaxRequestGrids)'
    BY <1>1, <2>6, <2>7, GridsNext
  <2>9. AwaitsSound(awaits)'
    BY <2>4, <2>7 DEF AwaitsSound, SameId
  <2>10. ReadsSound'
    BY <1>3, <1>6 DEF ReadsSound, ReadRecord, ReadSound
  <2>11. CacheSound(cache, MaxCachedGrids)'
    BY <1>3, <1>6, <1>1, <2>7, CacheNext
  <2>12. Histories'
    BY <1>5, <1>6 DEF IInv, Histories
  <2> QED BY <1>5, <2>6, <2>8, <2>9, <2>10, <2>11, <2>12 DEF IInv, Provider, Stages
<1>7. CASE /\ EntriesFor(p, w) = {}
           /\ entry' = [q \in Plans |->
                    CASE q = p /\ c[2] = "anchors" -> [at |-> now, newer |-> 0]
                      [] q # p /\ stage[q] \in {"anchors", "routing"} ->
                            [entry[q] EXCEPT !.newer = @ + 1]
                      [] OTHER -> NoEntry]
           /\ \/ /\ bound
                 /\ Becomes(c, r, Evicted(added), calls(c), s)
                 /\ UNCHANGED <<cache, since>>
              \/ /\ ~bound
                 /\ ReadSource(c, r, Evicted(added), calls(c), s)
  <2> DEFINE grids == Evicted(added)
  <2>1. id[p] \notin DOMAIN Swept
    BY <1>7 DEF EntriesFor
  <2>2. GridsSound(added, MadeCalls \cup {c}, MaxRequestGrids + 1)
    BY <1>1, <1>2, <2>1, AddedGrids
  <2> HIDE DEF added
  <2>3. GridsSound(grids, MadeCalls \cup {c}, MaxRequestGrids)
    BY <1>1, <2>2, NewestGrids DEF Evicted
  <2>4. AwaitsSound(calls(c))
    BY <1>1, <1>4 DEF SameId
  <2>5. r \in ReadRecord
    BY <1>1 DEF ReadRecord
  <2>6. ReadSound(c, r) /\ r.pc \in {"get", "body"}
    BY <1>1 DEF ReadSound
  <2>7. entry' \in [Plans -> [at : 0 .. now', newer : Nat]]
    <3>1. entry \in [Plans -> [at : 0 .. now, newer : Nat]] /\ now' = now
      BY DEF IInv, Histories
    <3>2. ASSUME NEW q \in Plans
          PROVE  /\ NoEntry \in [at : 0 .. now, newer : Nat]
                 /\ [at |-> now, newer |-> 0] \in [at : 0 .. now, newer : Nat]
                 /\ [entry[q] EXCEPT !.newer = @ + 1] \in [at : 0 .. now, newer : Nat]
      BY <1>1, <3>1 DEF NoEntry
    <3>3. ASSUME NEW q \in Plans
          PROVE  entry'[q] \in {NoEntry, [at |-> now, newer |-> 0], [entry[q] EXCEPT !.newer = @ + 1]}
      BY <1>7
    <3>4. entry' = [q \in Plans |-> entry'[q]]
      BY <1>7
    <3> QED BY <3>1, <3>2, <3>3, <3>4
  <2> DEFINE a == calls(c)
  <2>8. \/ /\ Becomes(c, r, grids, a, s)
           /\ UNCHANGED <<cache, since>>
        \/ ReadSource(c, r, grids, a, s)
    BY <1>7
  <2> HIDE DEF grids, a, r
  <2>9. Provider' /\ CacheSound(cache, MaxCachedGrids)' /\ since' \in [Windows -> SUBSET Windows]
    <3>1. CASE Becomes(c, r, grids, a, s) /\ UNCHANGED <<cache, since>>
      <4>1. Provider'
        BY <1>1, <1>3, <2>3, <2>4, <2>5, <2>6, <3>1, BecomesSound DEF a
      <4> QED BY <1>1, <1>3, <3>1, <4>1, CacheNext
    <3>2. CASE ReadSource(c, r, grids, a, s)
      BY <1>1, <1>3, <2>3, <2>4, <2>5, <2>6, <3>2, ReadSourceSound DEF a
    <3> QED BY <2>8, <3>1, <3>2
  <2>10. Histories'
    BY <1>5, <2>7, <2>9 DEF Histories
  <2> QED BY <1>5, <2>9, <2>10 DEF IInv
<1> QED BY <1>1, <1>6, <1>7 DEF GridForRequest

\* What a step of a read that was made finds.
LEMMA MadeRead ==
    ASSUME IInv, NEW c \in Calls, Made(c)
    PROVE  /\ read[c] \in ReadRecord /\ ReadSound(c, read[c])
           /\ GridsSound(requestGrids, MadeCalls \cup {c}, MaxRequestGrids)
           /\ AwaitsSound(awaits) /\ ReadsSound /\ stage \in [Plans -> Stages]
           /\ CacheSound(cache, MaxCachedGrids) /\ now \in Nat
           /\ since \in [Windows -> SUBSET Windows]
<1>1. MadeCalls \cup {c} = MadeCalls
  BY DEF MadeCalls
<1>2. read[c] \in ReadRecord /\ ReadSound(c, read[c])
  BY DEF IInv, Provider, ReadsSound, Made, NoRead
<1>3. now \in Nat
  BY Limits DEF IInv, Setting
<1> QED BY <1>1, <1>2, <1>3 DEF IInv, Provider, Histories

LEMMA TilesSettleSound ==
    ASSUME IInv, NEW c \in Calls, TilesSettle(c)
    PROVE  IInv'
<1> DEFINE w == read[c].window
           r == read[c]
<1>1. Made(c)
  BY DEF TilesSettle, Made
<1>2. /\ r \in ReadRecord /\ ReadSound(c, r)
      /\ GridsSound(requestGrids, MadeCalls \cup {c}, MaxRequestGrids)
      /\ AwaitsSound(awaits) /\ ReadsSound /\ stage \in [Plans -> Stages]
      /\ CacheSound(cache, MaxCachedGrids) /\ now \in Nat
      /\ since \in [Windows -> SUBSET Windows]
  BY <1>1, MadeRead
<1>3. w \in Windows /\ r.expiresAt \in Nat /\ r.expiresAt <= now + CacheTtl + BucketTtl
  BY <1>2, Limits DEF TilesSettle, ReadRecord, ReadSound
<1>4. UNCHANGED <<bound, id, aborted, bucket, now, entry>>
  BY DEF TilesSettle
<1> HIDE DEF r, w
<1>5. CASE /\ cache' = Remembered(cache, w) /\ Used(w)
           /\ filledAt' = [filledAt EXCEPT ![w] = now]
           /\ Becomes(c, Obtained(r, now), requestGrids, awaits, stage)
  <2>1. CacheSound(cache', MaxCachedGrids)
    BY <1>2, <1>3, <1>5, RememberedSound
  <2>2. now \in 0 .. now
    BY <1>2
  <2>3. Obtained(r, now) \in ReadRecord /\ ReadSound(c, Obtained(r, now))
    BY <1>2, <1>3, <2>2, ObtainedSound
  <2>4. Provider'
    BY <1>2, <1>4, <1>5, <2>3, BecomesSound
  <2>5. CacheSound(cache, MaxCachedGrids)'
    BY <1>2, <1>4, <2>1, CacheNext
  <2>6. Histories'
    BY <1>2, <1>3, <1>4, <1>5 DEF IInv, Histories, Used
  <2> QED BY <1>4, <2>4, <2>5, <2>6 DEF IInv, Setting, BucketSound
<1>6. CASE /\ Becomes(c, Settling(r, IF aborted[c[1]] THEN "ABORTED" ELSE "FAILED"),
                      requestGrids, awaits, stage)
           /\ UNCHANGED <<cache, since, filledAt>>
  <2> DEFINE end == IF aborted[c[1]] THEN "ABORTED" ELSE "FAILED"
  <2>1. end \in {"grid"} \cup Errors /\ (end = "ABORTED" => aborted[c[1]])
    BY DEF Errors
  <2>2. Becomes(c, Settling(r, end), requestGrids, awaits, stage)
    BY <1>6
  <2> HIDE DEF end
  <2>3. Settling(r, end) \in ReadRecord /\ ReadSound(c, Settling(r, end))
    BY <1>2, <2>1, SettlingSound
  <2>4. Provider'
    BY <1>2, <1>4, <2>2, <2>3, BecomesSound
  <2>5. CacheSound(cache, MaxCachedGrids)'
    BY <1>2, <1>4, <1>6, CacheNext
  <2>6. Histories'
    BY <1>4, <1>6 DEF IInv, Histories
  <2> QED BY <1>4, <2>4, <2>5, <2>6 DEF IInv, Setting, BucketSound
<1> QED BY <1>5, <1>6 DEF TilesSettle, r, w

\* What is left of a step once the provider and the cache are known.
LEMMA RestSound ==
    ASSUME IInv, Provider', CacheSound(cache, MaxCachedGrids)',
           since' \in [Windows -> SUBSET Windows],
           UNCHANGED <<bound, id, aborted, bucket, now, entry, filledAt>>
    PROVE  IInv'
  BY DEF IInv, Setting, BucketSound, Histories

LEMMA GetSettlesSound ==
    ASSUME IInv, NEW c \in Calls, GetSettles(c)
    PROVE  IInv'
<1> DEFINE r == read[c]
           body == [r EXCEPT !.pc = "body"]
<1>1. Made(c) /\ r.pc = "get" /\ UNCHANGED <<bound, id, aborted, bucket, now, entry, filledAt>>
  BY DEF GetSettles, Made
<1>2. /\ r \in ReadRecord /\ ReadSound(c, r)
      /\ GridsSound(requestGrids, MadeCalls \cup {c}, MaxRequestGrids)
      /\ AwaitsSound(awaits) /\ ReadsSound /\ stage \in [Plans -> Stages]
      /\ CacheSound(cache, MaxCachedGrids) /\ now \in Nat
      /\ since \in [Windows -> SUBSET Windows]
  BY <1>1, MadeRead
<1>3. body \in ReadRecord /\ ReadSound(c, body)
  BY <1>1, <1>2 DEF ReadRecord, ReadSound
<1>4. r.pc \in {"get", "body"}
  BY <1>1
<1> HIDE DEF r, body
<1>5. CASE /\ aborted[c[1]] /\ UNCHANGED <<cache, since>>
           /\ \E end \in Errors : Becomes(c, Settling(r, end), requestGrids, awaits, stage)
  <2>1. PICK end \in Errors : Becomes(c, Settling(r, end), requestGrids, awaits, stage)
    BY <1>5
  <2>2. Settling(r, end) \in ReadRecord /\ ReadSound(c, Settling(r, end))
    BY <1>2, <1>5, SettlingSound
  <2>3. Provider'
    BY <1>1, <1>2, <2>1, <2>2, BecomesSound
  <2>4. CacheSound(cache, MaxCachedGrids)'
    BY <1>1, <1>2, <1>5, CacheNext
  <2> QED BY <1>1, <1>2, <1>5, <2>3, <2>4, RestSound
<1>6. CASE Becomes(c, body, requestGrids, awaits, stage) /\ UNCHANGED <<cache, since>>
  <2>1. Provider'
    BY <1>1, <1>2, <1>3, <1>6, BecomesSound
  <2>2. CacheSound(cache, MaxCachedGrids)'
    BY <1>1, <1>2, <1>6, CacheNext
  <2> QED BY <1>1, <1>2, <1>6, <2>1, <2>2, RestSound
<1>7. CASE ReadSource(c, r, requestGrids, awaits, stage)
  <2>1. /\ Provider' /\ CacheSound(cache, MaxCachedGrids)'
        /\ since' \in [Windows -> SUBSET Windows]
    BY <1>1, <1>2, <1>4, <1>7, ReadSourceSound
  <2> QED BY <1>1, <2>1, RestSound
<1> QED BY <1>5, <1>6, <1>7 DEF GetSettles, r, body

LEMMA BodySettlesSound ==
    ASSUME IInv, NEW c \in Calls, BodySettles(c)
    PROVE  IInv'
<1> DEFINE r == read[c]
<1>1. Made(c) /\ r.pc = "body" /\ UNCHANGED <<bound, id, aborted, bucket, now, entry, filledAt>>
  BY DEF BodySettles, Made
<1>2. /\ r \in ReadRecord /\ ReadSound(c, r)
      /\ GridsSound(requestGrids, MadeCalls \cup {c}, MaxRequestGrids)
      /\ AwaitsSound(awaits) /\ ReadsSound /\ stage \in [Plans -> Stages]
      /\ CacheSound(cache, MaxCachedGrids) /\ now \in Nat
      /\ since \in [Windows -> SUBSET Windows]
  BY <1>1, MadeRead
<1>3. r.pc \in {"get", "body"}
  BY <1>1
<1> HIDE DEF r
<1>4. CASE /\ UNCHANGED <<cache, since>>
           /\ \E end \in {"grid"} \cup IF aborted[c[1]] THEN {"FAILED"} ELSE {} :
                 Becomes(c, Settling(r, end), requestGrids, awaits, stage)
  <2>1. PICK end \in {"grid", "FAILED"} : Becomes(c, Settling(r, end), requestGrids, awaits, stage)
    BY <1>4
  <2>4. Settling(r, end) \in ReadRecord /\ ReadSound(c, Settling(r, end))
    BY <1>2, SettlingSound DEF Errors
  <2>2. Provider'
    BY <1>1, <1>2, <2>1, <2>4, BecomesSound
  <2>3. CacheSound(cache, MaxCachedGrids)'
    BY <1>1, <1>2, <1>4, CacheNext
  <2> QED BY <1>1, <1>2, <1>4, <2>2, <2>3, RestSound
<1>5. CASE ReadSource(c, r, requestGrids, awaits, stage)
  <2>1. /\ Provider' /\ CacheSound(cache, MaxCachedGrids)'
        /\ since' \in [Windows -> SUBSET Windows]
    BY <1>1, <1>2, <1>3, <1>5, ReadSourceSound
  <2> QED BY <1>1, <2>1, RestSound
<1> QED BY <1>4, <1>5 DEF BodySettles, r

LEMMA PutSettlesSound ==
    ASSUME IInv, NEW c \in Calls, PutSettles(c)
    PROVE  IInv'
<1> DEFINE r == read[c]
<1>1. Made(c) /\ r.pc = "put" /\ UNCHANGED <<bound, id, aborted, cache, now, history>>
  BY DEF PutSettles, Made
<1>2. /\ r \in ReadRecord /\ ReadSound(c, r)
      /\ GridsSound(requestGrids, MadeCalls \cup {c}, MaxRequestGrids)
      /\ AwaitsSound(awaits) /\ ReadsSound /\ stage \in [Plans -> Stages]
      /\ CacheSound(cache, MaxCachedGrids) /\ now \in Nat
      /\ since \in [Windows -> SUBSET Windows]
  BY <1>1, MadeRead
<1>3. Becomes(c, Settling(r, "grid"), requestGrids, awaits, stage)
  BY DEF PutSettles
<1>4. BucketSound'
  <2> DEFINE o == [expiresAt |-> r.expiresAt, readAt |-> r.readAt]
  <2>1. bucket' = bucket \/ bucket' = [bucket EXCEPT ![r.window] = o]
    BY DEF PutSettles
  <2>2. /\ o \in [expiresAt : Nat, readAt : 0 .. now] /\ r.window \in Windows
        /\ o.expiresAt <= o.readAt + CacheTtl + BucketTtl
    BY <1>1, <1>2 DEF ReadRecord, ReadSound
  <2>3. BucketSound /\ now' = now
    BY <1>1 DEF IInv
  <2> HIDE DEF o, r
  <2> QED BY <2>1, <2>2, <2>3 DEF BucketSound
<1> HIDE DEF r
<1>5. Settling(r, "grid") \in ReadRecord /\ ReadSound(c, Settling(r, "grid"))
  BY <1>2, SettlingSound
<1>6. Provider'
  BY <1>1, <1>2, <1>3, <1>5, BecomesSound
<1>7. CacheSound(cache, MaxCachedGrids)'
  BY <1>1, <1>2, CacheNext
<1>8. Setting' /\ Histories'
  BY <1>1 DEF IInv, Setting, Histories, history
<1> QED BY <1>4, <1>6, <1>7, <1>8 DEF IInv

\* The plan goes on or is aborted, or time passes, while the provider waits.
LEMMA AwaySound ==
    ASSUME IInv, now' \in 0 .. MaxTime[bound], now <= now', aborted' \in [Plans -> BOOLEAN],
           \A p \in Plans : aborted[p] => aborted'[p], stage' \in [Plans -> Stages],
           UNCHANGED <<bound, id, providerVars, cache, bucket, history>>
    PROVE  IInv'
<1>1. now \in Nat /\ now' \in Nat /\ now <= now' /\ id' = id /\ cache' = cache /\ read' = read
  BY Limits DEF IInv, Setting, providerVars
<1>2. Setting' /\ BucketSound' /\ Histories'
  BY <1>1 DEF IInv, Setting, BucketSound, Histories, history
<1>3. CacheSound(cache, MaxCachedGrids)'
  BY <1>1, CacheNext DEF IInv
<1>4. GridsSound(requestGrids, MadeCalls, MaxRequestGrids)'
  <2>1. GridsSound(requestGrids', MadeCalls, MaxRequestGrids) /\ MadeCalls \subseteq MadeCalls'
    BY <1>1 DEF IInv, Provider, MadeCalls, Made, providerVars
  <2> QED BY <1>1, <2>1, GridsNext
<1>5. AwaitsSound(awaits)'
  BY <1>1 DEF IInv, Provider, AwaitsSound, SameId, providerVars
<1>6. ReadsSound'
  <2>1. read \in [Calls -> {NoRead} \cup ReadRecord] /\ \A c \in Calls : ReadSound(c, read[c])
    BY DEF IInv, Provider, ReadsSound
  <2>2. ReadRecord \subseteq ReadRecord'
    BY <1>1 DEF ReadRecord
  <2>3. ASSUME NEW c \in Calls
        PROVE  ReadSound(c, read[c])'
    <3>1. read[c].expiresAt \in Nat /\ c[1] \in Plans
      BY <2>1 DEF ReadRecord, NoRead, Calls
    <3> QED BY <1>1, <2>1, <3>1, Limits DEF ReadSound
  <2> QED BY <1>1, <2>1, <2>2, <2>3 DEF ReadsSound
<1> QED BY <1>2, <1>3, <1>4, <1>5, <1>6 DEF IInv, Provider, Stages

LEMMA Initially ==
    ASSUME Init
    PROVE  IInv
<1>1. IsFiniteSet(DOMAIN Empty) /\ Cardinality(DOMAIN Empty) = 0 /\ DOMAIN Empty = {}
  BY FS_EmptySet DEF Empty
<1>2. Setting /\ BucketSound /\ Histories
  BY Limits DEF Init, Setting, BucketSound, Histories, NoEntry
<1>3. CacheSound(cache, MaxCachedGrids)
  BY <1>1, Limits DEF Init, CacheSound, Ordered
<1>4. GridsSound(requestGrids, MadeCalls, MaxRequestGrids)
  BY <1>1, Limits DEF Init, GridsSound, Ordered
<1>5. stage \in [Plans -> Stages] /\ AwaitsSound(awaits) /\ ReadsSound
  BY Limits DEF Init, Stages, AwaitsSound, ReadsSound, ReadSound, NoRead
<1> QED BY <1>2, <1>3, <1>4, <1>5 DEF IInv, Provider

LEMMA PlanSteps ==
    ASSUME IInv, NEW p \in DOMAIN id,
           FindAnchors(p) \/ AnalyzeRoutes(p) \/ SoftWaitMissed(p) \/ EndEarly(p) \/ Abort(p)
    PROVE  IInv'
<1>1. p \in Plans /\ now \in Nat /\ now <= now /\ Asks \in [Calls -> SUBSET Windows]
  BY ConstantsAssumption DEF IInv, Setting
<1>2. /\ stage \in [Plans -> Stages] /\ aborted \in [Plans -> BOOLEAN]
      /\ now \in 0 .. MaxTime[bound]
  BY DEF IInv, Setting, Provider
<1>3. CASE FindAnchors(p)
  <2> DEFINE s == [stage EXCEPT ![p] = "anchors"]
  <2>1. PICK w \in Asks[<<p, "anchors">>] : GridForRequest(<<p, "anchors">>, w, s)
    BY <1>3 DEF FindAnchors
  <2>2. s \in [Plans -> Stages] /\ w \in Windows
    BY <1>1, <1>2 DEF Stages, Calls
  <2>3. UNCHANGED <<bound, id, aborted, bucket, now, filledAt>>
    BY <1>3 DEF FindAnchors
  <2> HIDE DEF s
  <2> QED BY <2>1, <2>2, <2>3, GridForRequestSound
<1>4. CASE AnalyzeRoutes(p)
  <2> DEFINE s == [stage EXCEPT ![p] = "analysis"]
  <2>1. PICK w \in Asks[<<p, "analysis">>] : GridForRequest(<<p, "analysis">>, w, s)
    BY <1>4 DEF AnalyzeRoutes
  <2>2. s \in [Plans -> Stages] /\ w \in Windows
    BY <1>1, <1>2 DEF Stages, Calls
  <2>3. UNCHANGED <<bound, id, aborted, bucket, now, filledAt>>
    BY <1>4 DEF AnalyzeRoutes
  <2> HIDE DEF s
  <2> QED BY <2>1, <2>2, <2>3, GridForRequestSound
<1>5. CASE SoftWaitMissed(p)
  <2>1. /\ stage' \in [Plans -> Stages]
        /\ UNCHANGED <<bound, id, aborted, providerVars, cache, bucket, now, history>>
    BY <1>2, <1>5 DEF SoftWaitMissed, Stages
  <2> QED BY <1>1, <1>2, <2>1, AwaySound
<1>6. CASE EndEarly(p)
  <2>1. /\ stage' \in [Plans -> Stages]
        /\ UNCHANGED <<bound, id, aborted, providerVars, cache, bucket, now, history>>
    BY <1>2, <1>6 DEF EndEarly, Stages
  <2> QED BY <1>1, <1>2, <2>1, AwaySound
<1>7. CASE Abort(p)
  <2>1. /\ aborted' \in [Plans -> BOOLEAN] /\ \A q \in Plans : aborted[q] => aborted'[q]
        /\ UNCHANGED <<bound, id, stage, providerVars, cache, bucket, now, history>>
    BY <1>2, <1>7 DEF Abort
  <2> QED BY <1>1, <1>2, <2>1, AwaySound
<1> QED BY <1>3, <1>4, <1>5, <1>6, <1>7

\* The inductive invariant holds for any plans, windows and limits.
THEOREM Inductive == Spec => []IInv
<1>1. Init => IInv
  BY Initially
<1>2. IInv /\ [Next]_vars => IInv'
  <2> SUFFICES ASSUME IInv, [Next]_vars
               PROVE  IInv'
    OBVIOUS
  <2>1. now \in 0 .. MaxTime[bound] /\ aborted \in [Plans -> BOOLEAN] /\ stage \in [Plans -> Stages]
        /\ now <= now /\ now \in Nat
    BY Limits DEF IInv, Setting, Provider
  <2>2. ASSUME NEW p \in DOMAIN id,
               FindAnchors(p) \/ AnalyzeRoutes(p) \/ SoftWaitMissed(p) \/ EndEarly(p) \/ Abort(p)
        PROVE  IInv'
    BY <2>2, PlanSteps
  <2>3. ASSUME NEW c \in Calls, TilesSettle(c) \/ GetSettles(c) \/ BodySettles(c) \/ PutSettles(c)
        PROVE  IInv'
    BY <2>3, TilesSettleSound, GetSettlesSound, BodySettlesSound, PutSettlesSound
  <2>4. CASE Tick
    <3> MaxTime[bound] \in Nat
      BY Limits DEF IInv, Setting
    <3>1. /\ now' \in 0 .. MaxTime[bound] /\ now <= now'
          /\ UNCHANGED <<bound, id, stage, aborted, providerVars, cache, bucket, history>>
      BY <2>1, <2>4 DEF Tick
    <3> QED BY <2>1, <3>1, AwaySound
  <2>5. CASE UNCHANGED vars
    BY <2>1, <2>5, AwaySound DEF vars
  <2> QED BY <2>2, <2>3, <2>4, <2>5 DEF Next, Terminated
<1> QED BY <1>1, <1>2, PTL DEF Spec

-----------------------------------------------------------------------------
(* Theorems. *)

\* Types, and that neither map outgrows its limit: gridForRequest and remember evict
\* within the step that adds.
THEOREM TypeCorrect == Spec => []TypeOK
<1>1. IInv => TypeOK
  <2> SUFFICES ASSUME IInv
               PROVE  TypeOK
    OBVIOUS
  <2>1. /\ Setting /\ AwaitsSound(awaits) /\ ReadsSound /\ stage \in [Plans -> Stages]
        /\ GridsSound(requestGrids, MadeCalls, MaxRequestGrids)
        /\ CacheSound(cache, MaxCachedGrids) /\ BucketSound /\ Histories
    BY DEF IInv, Provider
  <2>2. ASSUME NEW i \in DOMAIN requestGrids
        PROVE  requestGrids[i] \in [createdAt : 0 .. now, read : {c \in Calls : Made(c)},
                                   place : 0 .. Cardinality(DOMAIN requestGrids) - 1]
    BY <2>1 DEF GridsSound, Ordered, MadeCalls
  <2>3. ASSUME NEW w \in DOMAIN cache
        PROVE  cache[w] \in [expiresAt : Nat, readAt : 0 .. now,
                            place : 0 .. Cardinality(DOMAIN cache) - 1]
    BY <2>1 DEF CacheSound, Ordered
  <2>4. /\ DOMAIN requestGrids \subseteq Ids /\ Cardinality(DOMAIN requestGrids) <= MaxRequestGrids
        /\ DOMAIN cache \subseteq Windows /\ Cardinality(DOMAIN cache) <= MaxCachedGrids
    BY <2>1 DEF GridsSound, CacheSound
  <2>5. /\ read \in [Calls -> {NoRead} \cup ReadRecord]
        /\ \A c \in Calls : Settled(c) => read[c].end # "none"
    BY <2>1 DEF ReadsSound, ReadSound, Settled
  <2> QED BY <2>1, <2>2, <2>3, <2>4, <2>5
             DEF TypeOK, Setting, AwaitsSound, ReadRecord, BucketSound, Histories, Stages
<1> QED BY <1>1, Inductive, PTL

\* A plan whose request id is its own is given only reads that it began, and so only its
\* own windows and its own aborts.
THEOREM Isolation == Spec => []PlansIsolated
<1>1. IInv => PlansIsolated
  <2> SUFFICES ASSUME IInv, NEW c \in Calls, awaits[c] # NoCall, OwnId(c[1]), Settled(awaits[c])
               PROVE  IF read[awaits[c]].end = "ABORTED"
                      THEN aborted[c[1]]
                      ELSE read[awaits[c]].window \in WindowsOf(c[1])
    BY DEF PlansIsolated
  <2> DEFINE x == awaits[c]
  <2>1. x \in Calls /\ SameId(c[1], x[1])
    BY DEF IInv, Provider, AwaitsSound
  <2>2. x[1] = c[1]
    BY <2>1 DEF SameId, OwnId
  <2>3. ReadSound(x, read[x])
    BY <2>1 DEF IInv, Provider, ReadsSound
  <2>4. Made(x)
    BY DEF Settled, Made
  <2> QED BY <2>1, <2>2, <2>3, <2>4 DEF ReadSound, WindowsOf
<1> QED BY <1>1, Inductive, PTL

\* A grid in the cache is younger than the cache's time to live, one in the bucket
\* younger than both times to live together.
THEOREM Age == Spec => []AgeBounded
<1>1. IInv => AgeBounded
  <2> SUFFICES ASSUME IInv
               PROVE  AgeBounded
    OBVIOUS
  <2>1. CacheSound(cache, MaxCachedGrids) /\ BucketSound /\ now \in Nat /\ MaxCachedGrids \in Nat
    BY Limits DEF IInv, Setting
  <2>2. ASSUME NEW w \in DOMAIN Live(cache)
        PROVE  now < cache[w].readAt + CacheTtl
    <3>1. w \in DOMAIN cache /\ cache[w].expiresAt > now
      BY <2>1, LiveSound
    <3>2. /\ cache[w] \in [expiresAt : Nat, readAt : 0 .. now, place : Nat]
          /\ cache[w].expiresAt <= cache[w].readAt + CacheTtl
      BY <2>1, <3>1 DEF CacheSound
    <3> QED BY <2>1, <3>1, <3>2, Limits
  <2>3. ASSUME NEW w \in Windows, Matches(w)
        PROVE  now < bucket[w].readAt + CacheTtl + BucketTtl
    BY <2>1, <2>3, Limits DEF BucketSound, Matches
  <2> QED BY <2>2, <2>3 DEF AgeBounded
<1> QED BY <1>1, Inductive, PTL

-----------------------------------------------------------------------------
(* The cache is a least-recently-used one. *)

\* What is in a cache m, of uses s and fills f: a window's time to live runs from its last
\* fill, and the windows behind it in the order were used after it.
RowsUsed(m, s, f) ==
    \A w \in DOMAIN m :
        /\ f[w] # Never /\ m[w].expiresAt = f[w] + CacheTtl
        /\ \A v \in DOMAIN m : m[w].place < m[v].place => v \in s[w]

\* What is not: the time to live of its last fill is over, or others took its place.
GoneUsed(m, s, f) ==
    \A w \in Windows \ DOMAIN m :
        f[w] # Never /\ now < f[w] + CacheTtl => Cardinality(s[w]) >= MaxCachedGrids

Counted(s) == \A w \in Windows : IsFiniteSet(s[w])

UseSound ==
    /\ Counted(since)
    /\ CacheTtl = 0 => DOMAIN cache = {}
    /\ RowsUsed(cache, since, filledAt) /\ GoneUsed(cache, since, filledAt)

LEMMA KeptRows ==
    ASSUME NEW m, NEW n \in Nat, CacheSound(m, n), NEW K, NEW s, NEW f, RowsUsed(m, s, f)
    PROVE  RowsUsed(Kept(m, K), s, f)
<1> DEFINE h == Kept(m, K)
<1>1. DOMAIN h = DOMAIN m \cap K /\ Ordered(m)
  BY DEF Kept, CacheSound
<1>2. ASSUME NEW w \in DOMAIN h PROVE h[w].expiresAt = m[w].expiresAt
  <2>1. h[w] = [m[w] EXCEPT !.place = Cardinality({x \in DOMAIN m \cap K : m[x].place < m[w].place})]
    BY <1>1 DEF Kept
  <2>2. m[w] \in [expiresAt : Nat, readAt : 0 .. now, place : Nat]
    BY <1>1 DEF CacheSound
  <2> HIDE DEF h
  <2> QED BY <2>1, <2>2
<1>3. ASSUME NEW w \in DOMAIN h, NEW v \in DOMAIN h, h[w].place < h[v].place
      PROVE  v \in s[w]
  BY <1>1, <1>3, KeptOrder DEF RowsUsed
<1> HIDE DEF h
<1>4. RowsUsed(h, s, f)
  BY <1>1, <1>2, <1>3 DEF RowsUsed
<1> QED BY <1>4 DEF h

\* A window that is used becomes the last of the order.
LEMMA AddedRows ==
    ASSUME NEW o, NEW n \in Nat, CacheSound(o, n), NEW s, NEW f, NEW g, RowsUsed(o, s, f),
           NEW w \in Windows, w \notin DOMAIN o, NEW x, NEW t,
           g[w] # Never, x = g[w] + CacheTtl, \A v \in DOMAIN o : g[v] = f[v]
    PROVE  RowsUsed(Added(o, w, [expiresAt |-> x, readAt |-> t, place |-> Cardinality(DOMAIN o)]),
                    [v \in Windows |-> IF v = w THEN {} ELSE s[v] \cup {w}], g)
<1> DEFINE e == [expiresAt |-> x, readAt |-> t, place |-> Cardinality(DOMAIN o)]
           a == Added(o, w, e)
           u == [v \in Windows |-> IF v = w THEN {} ELSE s[v] \cup {w}]
<1>1. DOMAIN a = DOMAIN o \cup {w} /\ a[w] = e /\ \A v \in DOMAIN o : a[v] = o[v]
  BY DEF Added
<1>2. e.expiresAt = x /\ e.place = Cardinality(DOMAIN o)
  OBVIOUS
<1>3. /\ DOMAIN o \subseteq Windows /\ Cardinality(DOMAIN o) \in Nat
      /\ \A v \in DOMAIN o : o[v].place \in 0 .. Cardinality(DOMAIN o) - 1
  BY FS_CardinalityType DEF CacheSound, Ordered
<1> HIDE DEF e, a
<1>4. ASSUME NEW v \in DOMAIN a PROVE g[v] # Never /\ a[v].expiresAt = g[v] + CacheTtl
  BY <1>1, <1>2 DEF RowsUsed
<1>5. ASSUME NEW v \in DOMAIN a, NEW z \in DOMAIN a, a[v].place < a[z].place
      PROVE  z \in u[v]
  <2>1. v # w
    <3>1. CASE z = w
      BY <1>1, <1>2, <1>3, <1>5, <3>1
    <3>2. CASE z # w
      <4>1. z \in DOMAIN o
        BY <1>1, <3>2
      <4> QED BY <1>1, <1>2, <1>3, <1>5, <4>1
    <3> QED BY <3>1, <3>2
  <2>2. v \in DOMAIN o /\ v \in Windows /\ u[v] = s[v] \cup {w}
    BY <1>1, <1>3, <2>1
  <2> QED BY <1>1, <1>5, <2>2 DEF RowsUsed
<1>6. RowsUsed(a, u, g)
  BY <1>4, <1>5 DEF RowsUsed
<1> QED BY <1>6 DEF a, e

\* Uses are only added to, until the window itself is used.
LEMMA UsedMore ==
    ASSUME Counted(since), NEW w \in Windows, Used(w), since \in [Windows -> SUBSET Windows]
    PROVE  /\ Counted(since') /\ since' = [v \in Windows |-> IF v = w THEN {} ELSE since[v] \cup {w}]
           /\ \A v \in Windows \ {w} : Cardinality(since[v]) >= MaxCachedGrids
                                        => Cardinality(since'[v]) >= MaxCachedGrids
<1>1. since' = [v \in Windows |-> IF v = w THEN {} ELSE since[v] \cup {w}]
  BY DEF Used
<1>2. ASSUME NEW v \in Windows PROVE IsFiniteSet(since'[v])
  <2>1. CASE v = w
    BY <1>1, <2>1, FS_EmptySet
  <2>2. CASE v # w
    <3>1. since'[v] = since[v] \cup {w} /\ IsFiniteSet(since[v])
      BY <1>1, <2>2 DEF Counted
    <3> QED BY <3>1, FS_AddElement
  <2> QED BY <2>1, <2>2
<1>3. ASSUME NEW v \in Windows \ {w}, Cardinality(since[v]) >= MaxCachedGrids
      PROVE  Cardinality(since'[v]) >= MaxCachedGrids
  <2> DEFINE b == since[v]
             c == since'[v]
  <2>1. b \subseteq c /\ IsFiniteSet(c) /\ IsFiniteSet(b)
    BY <1>1, <1>2 DEF Counted
  <2>2. Cardinality(b) \in Nat /\ Cardinality(c) \in Nat /\ Cardinality(b) <= Cardinality(c)
    BY <2>1, FS_Subset, FS_CardinalityType
  <2>3. Cardinality(b) >= MaxCachedGrids
    BY <1>3
  <2>4. Cardinality(c) >= MaxCachedGrids
    BY <2>2, <2>3, Limits
  <2> QED BY <2>4
<1> QED BY <1>1, <1>2, <1>3 DEF Counted

\* The entries that are over may go.
LEMMA LiveUse ==
    ASSUME CacheSound(cache, MaxCachedGrids), now \in Nat, UseSound
    PROVE  /\ RowsUsed(Live(cache), since, filledAt) /\ GoneUsed(Live(cache), since, filledAt)
           /\ DOMAIN Live(cache) \subseteq DOMAIN cache
<1>1. MaxCachedGrids \in Nat
  BY Limits
<1>2. RowsUsed(Live(cache), since, filledAt)
  BY <1>1, KeptRows DEF Live, UseSound
<1>3. DOMAIN Live(cache) = {w \in DOMAIN cache : cache[w].expiresAt > now}
  BY <1>1, LiveSound
<1>4. ASSUME NEW w \in Windows \ DOMAIN Live(cache), filledAt[w] # Never,
             now < filledAt[w] + CacheTtl
      PROVE  Cardinality(since[w]) >= MaxCachedGrids
  <2>1. CASE w \in DOMAIN cache
    BY <1>3, <1>4, <2>1 DEF UseSound, RowsUsed
  <2>2. CASE w \notin DOMAIN cache
    BY <1>4, <2>2 DEF UseSound, GoneUsed
  <2> QED BY <2>1, <2>2
<1> QED BY <1>2, <1>3, <1>4 DEF GoneUsed

LEMMA MissUse ==
    ASSUME CacheSound(cache, MaxCachedGrids), now \in Nat, UseSound, cache' = Live(cache),
           UNCHANGED <<since, filledAt, now>>
    PROVE  UseSound'
BY LiveUse DEF UseSound, RowsUsed, GoneUsed, Counted

LEMMA HitUse ==
    ASSUME CacheSound(cache, MaxCachedGrids), now \in Nat, UseSound,
           since \in [Windows -> SUBSET Windows], NEW w \in DOMAIN Live(cache),
           cache' = Touched(Live(cache), w), Used(w), UNCHANGED <<filledAt, now>>
    PROVE  UseSound'
<1> DEFINE m == Live(cache)
           o == Others(m, w)
           x == m[w].expiresAt
           t == m[w].readAt
<1>1. CacheSound(m, MaxCachedGrids) /\ MaxCachedGrids \in Nat /\ w \in Windows /\ w \in DOMAIN m
  BY Limits, LiveSound DEF CacheSound
<1>2. RowsUsed(m, since, filledAt) /\ GoneUsed(m, since, filledAt) /\ DOMAIN m \subseteq DOMAIN cache
  BY LiveUse
<1>3. /\ CacheSound(o, MaxCachedGrids) /\ DOMAIN o = DOMAIN m \ {w} /\ w \notin DOMAIN o
      /\ RowsUsed(o, since, filledAt)
  BY <1>1, <1>2, OthersSound, KeptRows DEF Others
<1>4. cache' = Added(o, w, [expiresAt |-> x, readAt |-> t, place |-> Cardinality(DOMAIN o)])
  <2>1. m[w] \in [expiresAt : Nat, readAt : 0 .. now, place : Nat]
    BY <1>1 DEF CacheSound
  <2>2. [m[w] EXCEPT !.place = Cardinality(DOMAIN m) - 1]
            = [expiresAt |-> x, readAt |-> t, place |-> Cardinality(DOMAIN m) - 1]
    BY <2>1
  <2>3. Cardinality(DOMAIN o) = Cardinality(DOMAIN m) - 1
    BY <1>1, <1>3, FS_RemoveElement DEF CacheSound, Ordered
  <2> QED BY <2>2, <2>3 DEF Touched
<1>5. filledAt[w] # Never /\ x = filledAt[w] + CacheTtl
  BY <1>2 DEF RowsUsed
<1>6. /\ Counted(since') /\ since' = [v \in Windows |-> IF v = w THEN {} ELSE since[v] \cup {w}]
      /\ \A v \in Windows \ {w} : Cardinality(since[v]) >= MaxCachedGrids
                                   => Cardinality(since'[v]) >= MaxCachedGrids
  BY <1>1, UsedMore DEF UseSound
<1> HIDE DEF o, x, t
<1>7. RowsUsed(cache', since', filledAt)
  BY <1>1, <1>3, <1>4, <1>5, <1>6, AddedRows
<1>8. DOMAIN cache' = DOMAIN m
  BY <1>3, <1>4 DEF Added
<1> HIDE DEF m
<1>9. GoneUsed(cache', since', filledAt)
  <2>1. GoneUsed(m, since, filledAt) /\ w \in DOMAIN m
    BY <1>1, <1>2
  <2> SUFFICES ASSUME NEW v \in Windows \ DOMAIN m, filledAt[v] # Never, now < filledAt[v] + CacheTtl
               PROVE  Cardinality(since'[v]) >= MaxCachedGrids
    BY <1>8 DEF GoneUsed
  <2>2. v \in Windows \ {w} /\ Cardinality(since[v]) >= MaxCachedGrids
    BY <2>1 DEF GoneUsed
  <2> QED BY <1>6, <2>2
<1> QED BY <1>2, <1>6, <1>7, <1>8, <1>9 DEF UseSound, RowsUsed, GoneUsed, Counted, m

\* A grid is put into a full cache: what gives way was used before each of the others.
LEMMA FillUse ==
    ASSUME CacheSound(cache, MaxCachedGrids), now \in Nat, UseSound,
           since \in [Windows -> SUBSET Windows],
           filledAt \in [Windows -> 0 .. now \cup {Never}], NEW w \in Windows,
           cache' = Remembered(cache, w), Used(w), filledAt' = [filledAt EXCEPT ![w] = now],
           now' = now
    PROVE  UseSound'
<1>1. MaxCachedGrids \in Nat \ {0} /\ CacheTtl \in Nat
  BY Limits
<1>2. /\ Counted(since') /\ since' = [v \in Windows |-> IF v = w THEN {} ELSE since[v] \cup {w}]
      /\ \A v \in Windows \ {w} : Cardinality(since[v]) >= MaxCachedGrids
                                   => Cardinality(since'[v]) >= MaxCachedGrids
  BY UsedMore DEF UseSound
<1>3. filledAt'[w] = now /\ now # Never /\ \A v \in Windows \ {w} : filledAt'[v] = filledAt[v]
  BY DEF Never
<1>4. CASE CacheTtl = 0
  <2>1. cache' = cache /\ DOMAIN cache' = {}
    BY <1>4 DEF Remembered, UseSound
  <2>2. RowsUsed(cache', since', filledAt')
    BY <2>1 DEF RowsUsed
  <2>3. GoneUsed(cache', since', filledAt')
    <3>1. \A v \in Windows : filledAt'[v] # Never => ~ (now < filledAt'[v] + CacheTtl)
      BY <1>3, <1>4
    <3> QED BY <3>1 DEF GoneUsed
  <2> QED BY <1>2, <2>1, <2>2, <2>3 DEF UseSound, RowsUsed, GoneUsed, Counted
<1>5. CASE CacheTtl # 0
  <2> DEFINE o == Others(cache, w)
             a == Added(o, w, [expiresAt |-> now + CacheTtl, readAt |-> now,
                               place |-> Cardinality(DOMAIN o)])
             n == Cardinality(DOMAIN a)
             K == {k \in DOMAIN a : a[k].place >= n - MaxCachedGrids}
  <2>1. /\ CacheSound(o, MaxCachedGrids) /\ DOMAIN o = DOMAIN cache \ {w} /\ w \notin DOMAIN o
        /\ RowsUsed(o, since, filledAt)
    <3>1. RowsUsed(cache, since, filledAt) /\ MaxCachedGrids \in Nat
      BY <1>1 DEF UseSound
    <3>2. RowsUsed(o, since, filledAt)
      BY <3>1, KeptRows DEF Others
    <3> QED BY <3>1, <3>2, OthersSound
  <2>2. cache' = Newest(a, MaxCachedGrids)
    BY <1>5, <2>1 DEF Remembered
  <2>3. /\ CacheSound(a, MaxCachedGrids + 1) /\ now + CacheTtl \in Nat
        /\ n = Cardinality(DOMAIN o) + 1
    <3>1. now + CacheTtl \in Nat /\ now \in 0 .. now /\ now + CacheTtl <= now + CacheTtl
      BY <1>1
    <3> HIDE DEF o
    <3> QED BY <1>1, <2>1, <3>1, AddedCache
  <2>4. DOMAIN a = DOMAIN cache \cup {w} /\ DOMAIN a = DOMAIN o \cup {w}
    BY <2>1 DEF Added
  <2>5. RowsUsed(a, since', filledAt')
    <3>1. \A v \in DOMAIN o : filledAt'[v] = filledAt[v]
      BY <1>3, <2>1 DEF CacheSound
    <3> DEFINE x == now + CacheTtl
               g == filledAt'
               e == [expiresAt |-> x, readAt |-> now, place |-> Cardinality(DOMAIN o)]
    <3>2. x = filledAt'[w] + CacheTtl /\ filledAt'[w] # Never /\ MaxCachedGrids \in Nat
      BY <1>1, <1>3
    <3>3. a = Added(o, w, [expiresAt |-> x, readAt |-> now, place |-> Cardinality(DOMAIN o)])
      OBVIOUS
    <3>4. g[w] # Never /\ x = g[w] + CacheTtl /\ \A v \in DOMAIN o : g[v] = filledAt[v]
      BY <3>1, <3>2
    <3> HIDE DEF o, x, a, g
    <3>5. RowsUsed(Added(o, w, e),
                   [v \in Windows |-> IF v = w THEN {} ELSE since[v] \cup {w}], g)
      BY <2>1, <3>2, <3>4, AddedRows
    <3> QED BY <1>2, <3>3, <3>5 DEF g
  <2>6. Ordered(a) /\ n \in Nat /\ n <= MaxCachedGrids + 1 /\ IsFiniteSet(DOMAIN a)
    BY <2>3, FS_CardinalityType DEF CacheSound, Ordered
  <2>7. cache' = Kept(a, K) /\ DOMAIN cache' = K
    BY <2>2 DEF Newest, Kept
  <2>8. w \in K
    <3>1. a[w].place = n - 1 /\ w \in DOMAIN a
      <4>1. a[w].place = Cardinality(DOMAIN o)
        BY DEF Added
      <4> QED BY <2>3, <2>4, <2>6, <4>1, FS_CardinalityType DEF CacheSound, Ordered
    <3> QED BY <1>1, <2>6, <3>1
  <2> HIDE DEF a, n, o
  <2>9. RowsUsed(cache', since', filledAt')
    <3>1. MaxCachedGrids + 1 \in Nat
      BY <1>1
    <3> HIDE DEF K
    <3> QED BY <2>3, <2>5, <2>7, <3>1, KeptRows
  <2>10. ASSUME NEW v \in DOMAIN a, v \notin K
         PROVE  Cardinality(since'[v]) >= MaxCachedGrids
    <3>1. a[v].place \in Nat /\ \A z \in DOMAIN a : a[z].place \in 0 .. n - 1
      BY <2>6 DEF Ordered, n, CacheSound
    <3>2. a[v].place = 0 /\ n = MaxCachedGrids + 1
      <4> DEFINE x == a[v].place
      <4>1. ~ (x >= n - MaxCachedGrids)
        BY <2>10
      <4>2. x \in Nat /\ n \in Nat /\ n <= MaxCachedGrids + 1 /\ MaxCachedGrids \in Nat
        BY <1>1, <2>6, <3>1
      <4> HIDE DEF K, x
      <4>3. x = 0 /\ n = MaxCachedGrids + 1
        BY <4>1, <4>2
      <4> QED BY <4>3 DEF x
    <3> DEFINE D == DOMAIN a \ {v}
               U == since'[v]
    <3>3. ASSUME NEW z \in D PROVE z \in U
      <4>1. a[z].place # a[v].place
        BY <2>6 DEF Ordered
      <4>2. a[v].place < a[z].place
        BY <3>1, <3>2, <4>1
      <4> QED BY <2>5, <4>2 DEF RowsUsed
    <3>4. IsFiniteSet(U)
      BY <1>2, <2>3 DEF Counted, CacheSound
    <3>5. Cardinality(D) = n - 1
      BY <2>6, FS_RemoveElement DEF n
    <3>6. D \in SUBSET U
      BY <3>3
    <3> HIDE DEF D, U
    <3>7. Cardinality(D) <= Cardinality(U) /\ Cardinality(U) \in Nat
      BY <3>4, <3>6, FS_Subset, FS_CardinalityType
    <3>8. Cardinality(U) >= MaxCachedGrids
      BY <1>1, <3>2, <3>5, <3>7
    <3> QED BY <3>8 DEF U
  <2>11. GoneUsed(cache', since', filledAt')
    <3> SUFFICES ASSUME NEW v \in Windows \ DOMAIN cache', filledAt'[v] # Never,
                        now < filledAt'[v] + CacheTtl
                 PROVE  Cardinality(since'[v]) >= MaxCachedGrids
      BY DEF GoneUsed
    <3>1. v # w
      BY <2>7, <2>8
    <3>2. CASE v \in DOMAIN a
      BY <2>7, <2>10, <3>2
    <3>3. CASE v \notin DOMAIN a
      <4>1. v \notin DOMAIN cache /\ filledAt'[v] = filledAt[v] /\ v \in Windows \ {w}
        BY <1>3, <2>4, <3>1, <3>3
      <4>2. Cardinality(since[v]) >= MaxCachedGrids
        BY <4>1 DEF UseSound, GoneUsed
      <4> QED BY <1>2, <4>1, <4>2
    <3> QED BY <3>2, <3>3
  <2> QED BY <1>2, <1>5, <2>9, <2>11 DEF UseSound, RowsUsed, GoneUsed, Counted
<1> QED BY <1>4, <1>5

LEMMA SameUse ==
    ASSUME UseSound, Histories, now \in Nat, now' \in Nat, now <= now',
           UNCHANGED <<cache, since, filledAt>>
    PROVE  UseSound'
<1>1. RowsUsed(cache, since, filledAt)'
  BY DEF UseSound, RowsUsed
<1>2. ASSUME NEW w \in Windows \ DOMAIN cache, filledAt[w] # Never, now' < filledAt[w] + CacheTtl
      PROVE  Cardinality(since[w]) >= MaxCachedGrids
  <2>1. filledAt[w] \in Int
    BY DEF Histories, Never
  <2>2. now < filledAt[w] + CacheTtl
    BY <1>2, <2>1, Limits
  <2> QED BY <1>2, <2>2 DEF UseSound, GoneUsed
<1>3. GoneUsed(cache, since, filledAt)'
  BY <1>2 DEF GoneUsed
<1> QED BY <1>1, <1>3 DEF UseSound, Counted

LEMMA SourceUse ==
    ASSUME IInv, UseSound, NEW c, NEW r, NEW g, NEW a, NEW s, ReadSource(c, r, g, a, s),
           UNCHANGED <<filledAt, now>>
    PROVE  UseSound'
<1>1. /\ CacheSound(cache, MaxCachedGrids) /\ now \in Nat /\ now <= now /\ Histories
      /\ since \in [Windows -> SUBSET Windows]
  BY DEF IInv, Setting, Histories
<1>2. CASE UNCHANGED <<cache, since>>
  BY <1>1, <1>2, SameUse
<1>3. CASE r.window \in DOMAIN Live(cache) /\ cache' = Touched(Live(cache), r.window) /\ Used(r.window)
  BY <1>1, <1>3, HitUse
<1>4. CASE cache' = Live(cache) /\ UNCHANGED since
  BY <1>1, <1>4, MissUse
<1> QED BY <1>2, <1>3, <1>4 DEF ReadSource

LEMMA UseStep ==
    ASSUME IInv, IInv', UseSound, [Next]_vars
    PROVE  UseSound'
<1>1. /\ now \in Nat /\ now' \in Nat /\ now <= now /\ Histories
      /\ CacheSound(cache, MaxCachedGrids) /\ since \in [Windows -> SUBSET Windows]
      /\ filledAt \in [Windows -> 0 .. now \cup {Never}]
  BY DEF IInv, Setting, Histories
<1>2. ASSUME NEW c, NEW w, NEW s, GridForRequest(c, w, s), UNCHANGED <<filledAt, now>>
      PROVE  UseSound'
  <2>1. \/ UNCHANGED <<cache, since>>
        \/ \E r, g, a : ReadSource(c, r, g, a, s)
    BY <1>2, Zenon DEF GridForRequest
  <2> QED BY <1>1, <1>2, <2>1, SameUse, SourceUse
<1>3. ASSUME NEW p \in DOMAIN id,
             FindAnchors(p) \/ AnalyzeRoutes(p) \/ SoftWaitMissed(p) \/ EndEarly(p) \/ Abort(p)
      PROVE  UseSound'
  <2>1. CASE FindAnchors(p)
    BY <1>2, <2>1 DEF FindAnchors
  <2>2. CASE AnalyzeRoutes(p)
    BY <1>2, <2>2 DEF AnalyzeRoutes
  <2>3. CASE SoftWaitMissed(p) \/ EndEarly(p) \/ Abort(p)
    <3>1. UNCHANGED <<now, cache, since, filledAt>>
      BY <2>3 DEF SoftWaitMissed, EndEarly, Abort, history
    <3> QED BY <1>1, <3>1, SameUse
  <2> QED BY <1>3, <2>1, <2>2, <2>3
<1>4. ASSUME NEW c \in Calls, TilesSettle(c)
      PROVE  UseSound'
  <2>1. now' = now
    BY <1>4 DEF TilesSettle
  <2>2. CASE UNCHANGED <<cache, since, filledAt>>
    BY <1>1, <2>1, <2>2, SameUse
  <2>3. CASE /\ cache' = Remembered(cache, read[c].window) /\ Used(read[c].window)
             /\ filledAt' = [filledAt EXCEPT ![read[c].window] = now]
    <3>1. read[c].window \in Windows
      BY <1>4, MadeRead DEF ReadRecord, TilesSettle, Made
    <3> QED BY <1>1, <2>1, <2>3, <3>1, FillUse
  <2> QED BY <1>4, <2>2, <2>3 DEF TilesSettle
<1>5. ASSUME NEW c \in Calls, GetSettles(c) \/ BodySettles(c) \/ PutSettles(c)
      PROVE  UseSound'
  <2>1. now' = now /\ filledAt' = filledAt
    BY <1>5 DEF GetSettles, BodySettles, PutSettles, history
  <2>2. \/ UNCHANGED <<cache, since>>
        \/ ReadSource(c, read[c], requestGrids, awaits, stage)
    BY <1>5 DEF GetSettles, BodySettles, PutSettles, history
  <2> QED BY <1>1, <2>1, <2>2, SameUse, SourceUse
<1>6. CASE Tick
  <2>1. now <= now' /\ UNCHANGED <<cache, since, filledAt>>
    BY <1>1, <1>6 DEF Tick, history
  <2> QED BY <1>1, <2>1, SameUse
<1>7. CASE UNCHANGED vars
  <2>1. UNCHANGED <<now, cache, since, filledAt>>
    BY <1>7 DEF vars, history
  <2> QED BY <1>1, <2>1, SameUse
<1> QED BY <1>3, <1>4, <1>5, <1>6, <1>7 DEF Next, Terminated

\* What FreshWindowNotReread says of a window that is read.
UsedSince(w) ==
    filledAt[w] # Never /\ now < filledAt[w] + CacheTtl => Cardinality(since[w]) >= MaxCachedGrids

\* A read of the source goes to the tiles only where the cache has no live entry.
LEMMA SourceMisses ==
    ASSUME IInv, UseSound, NEW x, NEW r \in ReadRecord, NEW g, NEW a, NEW s,
           ReadSource(x, r, g, a, s),
           NEW c \in Calls, read'[c].pc = "tiles", read[c].pc # "tiles"
    PROVE  UsedSince(read'[c].window)
<1>1. CacheSound(cache, MaxCachedGrids) /\ now \in Nat /\ read \in [Calls -> {NoRead} \cup ReadRecord]
  BY DEF IInv, Setting, Provider, ReadsSound
<1>2. GoneUsed(Live(cache), since, filledAt)
  BY <1>1, LiveUse
<1>3. ASSUME NEW q, Becomes(x, q, g, a, s)
      PROVE  c = x /\ q = read'[c] /\ q.pc = "tiles"
  BY <1>1, <1>3 DEF Becomes
<1>4. ~ Becomes(x, Settling(r, "ABORTED"), g, a, s)
  BY <1>3 DEF Settling
<1>5. ASSUME NEW t PROVE ~ Becomes(x, Obtained(r, t), g, a, s)
  <2>1. Obtained(r, t).pc # "tiles"
    BY DEF Obtained, Settling, ReadRecord
  <2> QED BY <1>3, <2>1
<1>6. r.window \notin DOMAIN Live(cache) /\ Becomes(x, [r EXCEPT !.pc = "tiles"], g, a, s)
  BY <1>4, <1>5 DEF ReadSource
<1>7. read'[c].window = r.window
  <2>1. read'[c] = [r EXCEPT !.pc = "tiles"]
    BY <1>3, <1>6
  <2> QED BY <2>1
<1> QED BY <1>2, <1>6, <1>7 DEF GoneUsed, ReadRecord, UsedSince

\* Whether call c goes to the tiles of its window in this step.
GoesToTiles(c) == read'[c].pc = "tiles" /\ read[c].pc # "tiles"

LEMMA TilesStep ==
    ASSUME IInv, UseSound, [Next]_vars, NEW c \in Calls, GoesToTiles(c)
    PROVE  UsedSince(read'[c].window)
<1>1. read \in [Calls -> {NoRead} \cup ReadRecord] /\ now \in Nat /\ BucketTtl \in Nat
  BY Limits DEF IInv, Setting, Provider, ReadsSound
<1>2. ASSUME NEW x, NEW r \in ReadRecord, NEW g, NEW a, NEW s, ReadSource(x, r, g, a, s)
      PROVE  UsedSince(read'[c].window)
  BY <1>2, SourceMisses DEF GoesToTiles
<1>3. ASSUME NEW x, NEW r, NEW g, NEW a, NEW s, Becomes(x, r, g, a, s)
      PROVE  r.pc = "tiles"
  BY <1>1, <1>3 DEF Becomes, GoesToTiles
<1>4. read' # read
  BY DEF GoesToTiles
<1>5. ASSUME NEW p \in DOMAIN id, NEW k \in {"anchors", "analysis"}, NEW w \in Windows, NEW s,
             GridForRequest(<<p, k>>, w, s)
      PROVE  UsedSince(read'[c].window)
  <2> DEFINE r == [pc |-> "get", window |-> w, end |-> "none",
                   expiresAt |-> IF bound THEN now + BucketTtl ELSE 0, readAt |-> 0]
  <2>1. r \in ReadRecord
    BY <1>1 DEF ReadRecord
  <2>2. r.pc # "tiles"
    OBVIOUS
  <2>3. \E g, a : Becomes(<<p, k>>, r, g, a, s) \/ ReadSource(<<p, k>>, r, g, a, s)
    BY <1>4, <1>5, Zenon DEF GridForRequest
  <2> HIDE DEF r
  <2> QED BY <1>2, <1>3, <2>1, <2>2, <2>3
<1>6. ASSUME NEW p \in DOMAIN id,
             FindAnchors(p) \/ AnalyzeRoutes(p) \/ SoftWaitMissed(p) \/ EndEarly(p) \/ Abort(p)
      PROVE  UsedSince(read'[c].window)
  <2>1. Asks \in [Calls -> SUBSET Windows] /\ p \in Plans
    BY ConstantsAssumption DEF IInv, Setting
  <2>2. CASE FindAnchors(p)
    BY <1>5, <2>1, <2>2 DEF FindAnchors, Calls
  <2>3. CASE AnalyzeRoutes(p)
    BY <1>5, <2>1, <2>3 DEF AnalyzeRoutes, Calls
  <2>4. ~ (SoftWaitMissed(p) \/ EndEarly(p) \/ Abort(p))
    BY <1>4 DEF SoftWaitMissed, EndEarly, Abort, providerVars
  <2> QED BY <1>6, <2>2, <2>3, <2>4
<1>7. ASSUME NEW x \in Calls, TilesSettle(x) \/ GetSettles(x) \/ BodySettles(x) \/ PutSettles(x)
      PROVE  UsedSince(read'[c].window)
  <2>1. read[x] \in ReadRecord
    BY <1>7, MadeRead DEF TilesSettle, GetSettles, BodySettles, PutSettles, Made
  <2>2. ASSUME NEW end, NEW g, NEW a, NEW s PROVE ~ Becomes(x, Settling(read[x], end), g, a, s)
    BY <1>3 DEF Settling
  <2>3. ASSUME NEW t, NEW g, NEW a, NEW s PROVE ~ Becomes(x, Obtained(read[x], t), g, a, s)
    <3>1. Obtained(read[x], t).pc # "tiles"
      BY <2>1 DEF Obtained, Settling, ReadRecord
    <3> QED BY <1>3, <3>1
  <2>4. ASSUME NEW g, NEW a, NEW s PROVE ~ Becomes(x, [read[x] EXCEPT !.pc = "body"], g, a, s)
    <3>1. [read[x] EXCEPT !.pc = "body"].pc # "tiles"
      BY <2>1 DEF ReadRecord
    <3> QED BY <1>3, <3>1
  <2>5. ReadSource(x, read[x], requestGrids, awaits, stage)
    BY <1>7, <2>2, <2>3, <2>4 DEF TilesSettle, GetSettles, BodySettles, PutSettles
  <2> QED BY <1>2, <2>1, <2>5
<1>8. ~ Tick /\ ~ UNCHANGED vars
  BY <1>4 DEF Tick, vars, providerVars
<1> QED BY <1>6, <1>7, <1>8 DEF Next, Terminated

\* A window whose grid is fresh is read again only when as many others as the cache
\* holds were used since its last use, whatever times to live and limits are configured
\* (CogWorldCoverRasterSource.readGrid, remember).
THEOREM FreshWindowsAreKept == Spec => FreshWindowNotReread
<1>1. Init => UseSound
  <2> SUFFICES ASSUME Init PROVE UseSound
    OBVIOUS
  <2>1. DOMAIN cache = {} /\ \A w \in Windows : filledAt[w] = Never /\ since[w] = {}
    BY DEF Init, Empty
  <2> QED BY <2>1, FS_EmptySet DEF UseSound, Counted, RowsUsed, GoneUsed
<1>2. IInv /\ IInv' /\ UseSound /\ [Next]_vars => UseSound'
  BY UseStep
<1>3. IInv /\ UseSound /\ [Next]_vars =>
          [\A c \in Calls :
              read'[c].pc = "tiles" /\ read[c].pc # "tiles" =>
                  LET w == read'[c].window IN
                  filledAt[w] # Never /\ now < filledAt[w] + CacheTtl =>
                      Cardinality(since[w]) >= MaxCachedGrids]_vars
  BY TilesStep DEF GoesToTiles, UsedSince
<1> QED BY <1>1, <1>2, <1>3, Inductive, PTL DEF Spec, FreshWindowNotReread

-----------------------------------------------------------------------------
(* A plan keeps its entry in the map of promises. *)

\* The entries that came after that of i.
NewerThan(g, i) == {j \in DOMAIN g : g[i].place < g[j].place}

\* The entry of request id i, made as e says, is in map g at time t with no more newer
\* ones than e counts, or there is a reason why it need not be.
EntryKept(g, i, e, t) ==
    \/ i \in DOMAIN g /\ g[i].createdAt = e.at /\ Cardinality(NewerThan(g, i)) <= e.newer
    \/ e.newer >= MaxRequestGrids
    \/ t >= e.at + RequestTtl

Waits(p) == stage[p] \in {"anchors", "routing"}

\* A plan that did not begin has made no read, one that did not come to its analysis
\* awaits none for it; in between the entry of an own request id is kept.
EntrySound(p) ==
    /\ stage[p] = "idle" => \A k \in {"anchors", "analysis"} : ~Made(<<p, k>>)
    /\ stage[p] \in {"idle", "anchors", "routing"} => awaits[<<p, "analysis">>] = NoCall
    /\ OwnId(p) /\ Waits(p) => EntryKept(requestGrids, id[p], entry[p], now)

EntriesSound == \A p \in DOMAIN id : EntrySound(p)

Counts == [at : Nat, newer : Nat]

LEMMA KeptEntry ==
    ASSUME NEW g, NEW M, NEW n, GridsSound(g, M, n), NEW K, NEW i, NEW e \in Counts, NEW t,
           i \in DOMAIN g => i \in K, EntryKept(g, i, e, t)
    PROVE  EntryKept(Kept(g, K), i, e, t)
<1> DEFINE h == Kept(g, K)
<1>1. DOMAIN h = DOMAIN g \cap K /\ Ordered(g) /\ IsFiniteSet(DOMAIN g)
  BY DEF Kept, GridsSound, Ordered
<1>2. ASSUME i \in DOMAIN g, g[i].createdAt = e.at, Cardinality(NewerThan(g, i)) <= e.newer
      PROVE  i \in DOMAIN h /\ h[i].createdAt = e.at /\ Cardinality(NewerThan(h, i)) <= e.newer
  <2>1. h[i] = [g[i] EXCEPT !.place = Cardinality({x \in DOMAIN g \cap K : g[x].place < g[i].place})]
    BY <1>2 DEF Kept
  <2>2. g[i] \in [createdAt : 0 .. now, read : M, place : Nat]
    BY <1>2 DEF GridsSound
  <2>3. h[i].createdAt = g[i].createdAt
    <3> HIDE DEF h
    <3> QED BY <2>1, <2>2
  <2> DEFINE a == NewerThan(h, i)
             b == NewerThan(g, i)
  <2>4. a \in SUBSET b
    BY <1>1, <1>2, KeptOrder DEF NewerThan
  <2>5. b \in SUBSET DOMAIN g
    BY DEF NewerThan
  <2>6. i \in DOMAIN h /\ Cardinality(b) <= e.newer /\ e.newer \in Nat
    BY <1>1, <1>2 DEF Counts
  <2> HIDE DEF a, b, h
  <2>7. IsFiniteSet(b)
    BY <1>1, <2>5, FS_Subset
  <2>8. Cardinality(a) <= Cardinality(b) /\ Cardinality(a) \in Nat /\ Cardinality(b) \in Nat
    BY <2>4, <2>7, FS_Subset, FS_CardinalityType
  <2>9. Cardinality(a) <= e.newer
    BY <2>6, <2>8
  <2> QED BY <1>2, <2>3, <2>6, <2>9 DEF a
<1> QED BY <1>2 DEF EntryKept

\* What is swept is too old.
LEMMA SweptEntry ==
    ASSUME GridsSound(requestGrids, MadeCalls, MaxRequestGrids), NEW i, NEW e \in Counts,
           now \in Nat, EntryKept(requestGrids, i, e, now)
    PROVE  EntryKept(Swept, i, e, now)
<1> DEFINE K == {j \in DOMAIN requestGrids : requestGrids[j].createdAt + RequestTtl > now}
<1>1. Swept = Kept(requestGrids, K)
  BY DEF Swept
<1>2. CASE i \in DOMAIN requestGrids => i \in K
  <2> HIDE DEF K
  <2> QED BY <1>1, <1>2, KeptEntry
<1>3. CASE i \in DOMAIN requestGrids /\ i \notin K
  <2>1. requestGrids[i].createdAt \in Nat /\ e.at \in Nat
    BY <1>3 DEF GridsSound, Counts
  <2>2. requestGrids[i].createdAt = e.at => now >= e.at + RequestTtl
    BY <1>3, <2>1, Limits
  <2> QED BY <2>2 DEF EntryKept
<1> QED BY <1>2, <1>3

\* A new entry comes after the others.
LEMMA AddedEntry ==
    ASSUME NEW g, NEW M, NEW n, GridsSound(g, M, n), NEW j, j \notin DOMAIN g, NEW x,
           PlacedAt(x, Cardinality(DOMAIN g)), NEW i, i # j, NEW e \in Counts, NEW t,
           EntryKept(g, i, e, t)
    PROVE  EntryKept(Added(g, j, x), i, [e EXCEPT !.newer = @ + 1], t)
<1> DEFINE h == Added(g, j, x)
           f == [e EXCEPT !.newer = @ + 1]
<1>1. DOMAIN h = DOMAIN g \cup {j} /\ h[j] = x /\ \A k \in DOMAIN g : h[k] = g[k]
  BY DEF Added
<1>2. f.at = e.at /\ f.newer = e.newer + 1 /\ e.newer \in Nat /\ e.at \in Nat
  BY DEF Counts
<1>3. ASSUME i \in DOMAIN g, Cardinality(NewerThan(g, i)) <= e.newer
      PROVE  Cardinality(NewerThan(h, i)) <= f.newer
  <2> DEFINE a == NewerThan(h, i)
             b == NewerThan(g, i)
  <2>1. a \in SUBSET (b \cup {j}) /\ b \in SUBSET DOMAIN g /\ j \notin b
    BY <1>1, <1>3 DEF NewerThan
  <2>2. Cardinality(b) <= e.newer /\ IsFiniteSet(DOMAIN g)
    BY <1>3 DEF GridsSound, Ordered
  <2> HIDE DEF a, b
  <2>3. IsFiniteSet(b)
    BY <2>1, <2>2, FS_Subset
  <2>4. IsFiniteSet(b \cup {j}) /\ Cardinality(b \cup {j}) = Cardinality(b) + 1 /\ Cardinality(b) \in Nat
    BY <2>1, <2>3, FS_AddElement, FS_CardinalityType
  <2>5. Cardinality(a) <= Cardinality(b \cup {j}) /\ Cardinality(a) \in Nat
    BY <2>1, <2>4, FS_Subset, FS_CardinalityType
  <2> HIDE DEF f, h
  <2>6. Cardinality(a) <= f.newer
    BY <1>2, <2>2, <2>4, <2>5
  <2> QED BY <2>6 DEF a
<1> HIDE DEF h, f
<1>4. EntryKept(h, i, f, t)
  BY <1>1, <1>2, <1>3, Limits DEF EntryKept
<1> QED BY <1>4 DEF h, f

LEMMA NewEntry ==
    ASSUME NEW g, NEW M, NEW n, GridsSound(g, M, n), NEW j, j \notin DOMAIN g, NEW x,
           PlacedAt(x, Cardinality(DOMAIN g)), NEW t, x.createdAt = t
    PROVE  EntryKept(Added(g, j, x), j, [at |-> t, newer |-> 0], t)
<1> DEFINE h == Added(g, j, x)
<1>1. DOMAIN h = DOMAIN g \cup {j} /\ h[j] = x /\ \A k \in DOMAIN g : h[k] = g[k]
  BY DEF Added
<1>2. Cardinality(DOMAIN g) \in Nat /\ \A k \in DOMAIN g : g[k].place \in 0 .. Cardinality(DOMAIN g) - 1
  BY FS_CardinalityType DEF GridsSound, Ordered
<1>3. x.place = Cardinality(DOMAIN g)
  BY DEF PlacedAt
<1> HIDE DEF h
<1>4. NewerThan(h, j) = {}
  BY <1>1, <1>2, <1>3 DEF NewerThan
<1>5. Cardinality(NewerThan(h, j)) = 0
  BY <1>4, FS_EmptySet
<1>6. EntryKept(h, j, [at |-> t, newer |-> 0], t)
  BY <1>1, <1>5 DEF EntryKept
<1> QED BY <1>6 DEF h

\* What gives way in a full map has all the others after it.
LEMMA EvictedEntry ==
    ASSUME NEW g, NEW M, GridsSound(g, M, MaxRequestGrids + 1), NEW i, NEW e \in Counts, NEW t,
           EntryKept(g, i, e, t)
    PROVE  EntryKept(Evicted(g), i, e, t)
<1> DEFINE n == Cardinality(DOMAIN g)
           K == {k \in DOMAIN g : g[k].place >= n - MaxRequestGrids}
<1>1. Evicted(g) = Kept(g, K)
  BY DEF Evicted, Newest
<1>2. CASE i \in DOMAIN g => i \in K
  <2> HIDE DEF K
  <2> QED BY <1>1, <1>2, KeptEntry
<1>3. CASE i \in DOMAIN g /\ i \notin K
  <2>1. /\ IsFiniteSet(DOMAIN g) /\ n \in Nat /\ n <= MaxRequestGrids + 1
        /\ MaxRequestGrids \in Nat \ {0}
        /\ \A k \in DOMAIN g : g[k].place \in 0 .. n - 1
        /\ \A k, l \in DOMAIN g : g[k].place = g[l].place => k = l
    BY Limits, FS_CardinalityType DEF GridsSound, Ordered
  <2>2. ~ (g[i].place >= n - MaxRequestGrids)
    BY <1>3
  <2> HIDE DEF n, K
  <2>3. g[i].place = 0 /\ n = MaxRequestGrids + 1
    BY <1>3, <2>1, <2>2
  <2>4. ASSUME NEW k \in DOMAIN g \ {i} PROVE g[i].place < g[k].place
    <3>1. g[k].place # g[i].place /\ g[k].place \in 0 .. n - 1
      BY <1>3, <2>1
    <3> QED BY <2>1, <2>3, <3>1
  <2>5. NewerThan(g, i) = DOMAIN g \ {i}
    <3>1. ~ (g[i].place < g[i].place)
      BY <2>3
    <3> QED BY <2>4, <3>1 DEF NewerThan
  <2>6. Cardinality(DOMAIN g \ {i}) = n - 1
    BY <1>3, <2>1, FS_RemoveElement DEF n
  <2>7. Cardinality(NewerThan(g, i)) = MaxRequestGrids
    BY <2>1, <2>3, <2>5, <2>6
  <2> QED BY <2>7 DEF EntryKept
<1> QED BY <1>2, <1>3

\* The code after an await: what it does to the stages, and that it gives up no entry of
\* a plan whose analysis is not among the calls.
LEMMA ContinueStages ==
    ASSUME NEW calls, NEW g, NEW s, Continue(calls, g, s), NEW p \in Plans
    PROVE  /\ stage'[p] = "idle" <=> s[p] = "idle"
           /\ stage'[p] \in {"anchors", "routing"} => s[p] \in {"anchors", "routing"}
BY DEF Continue

LEMMA ContinueEntry ==
    ASSUME NEW calls, NEW g, NEW M, NEW n, GridsSound(g, M, n), NEW s, Continue(calls, g, s),
           NEW p \in DOMAIN id, OwnId(p), <<p, "analysis">> \notin calls,
           NEW e \in Counts, NEW t, EntryKept(g, id[p], e, t)
    PROVE  EntryKept(requestGrids', id[p], e, t)
<1> DEFINE K == Ids \ {id[q] : q \in {x \in DOMAIN id : <<x, "analysis">> \in calls}}
<1>1. requestGrids' = Kept(g, K)
  BY DEF Continue
<1>2. id[p] \in DOMAIN g => id[p] \in K
  BY DEF GridsSound, OwnId
<1> HIDE DEF K
<1> QED BY <1>1, <1>2, KeptEntry

LEMMA NoCallIsNone == NoCall \notin Calls
  BY DEF NoCall, Calls

LEMMA PlanFacts ==
    ASSUME IInv, NEW p \in DOMAIN id
    PROVE  /\ p \in Plans /\ <<p, "analysis">> \in Calls /\ <<p, "anchors">> \in Calls
           /\ now \in Nat /\ entry[p] \in Counts /\ id[p] \in Ids
           /\ GridsSound(requestGrids, MadeCalls, MaxRequestGrids)
           /\ awaits \in [Calls -> Calls \cup {NoCall}]
           /\ read \in [Calls -> {NoRead} \cup ReadRecord] /\ stage \in [Plans -> Stages]
<1>1. p \in Plans /\ id[p] \in Ids /\ now \in Nat
  BY ConstantsAssumption DEF IInv, Setting
<1>2. entry[p] \in Counts
  BY <1>1 DEF IInv, Histories, Counts
<1> QED BY <1>1, <1>2 DEF IInv, Provider, AwaitsSound, ReadsSound, Calls

\* A read that was made goes on: its waiting calls are none of a plan in between.
LEMMA ReadEntries ==
    ASSUME IInv, EntriesSound, NEW c \in Calls, Made(c), NEW r,
           Becomes(c, r, requestGrids, awaits, stage), UNCHANGED <<id, now, entry>>
    PROVE  EntriesSound'
<1> SUFFICES ASSUME NEW p \in DOMAIN id
             PROVE  EntrySound(p)'
  BY DEF EntriesSound
<1>1. /\ p \in Plans /\ <<p, "analysis">> \in Calls /\ <<p, "anchors">> \in Calls
      /\ now \in Nat /\ entry[p] \in Counts
      /\ GridsSound(requestGrids, MadeCalls, MaxRequestGrids)
      /\ read \in [Calls -> {NoRead} \cup ReadRecord]
  BY PlanFacts
<1>2. EntrySound(p)
  BY DEF EntriesSound
<1> DEFINE calls == IF r.pc = "settled" THEN {x \in Calls : awaits[x] = c} ELSE {}
<1>3. Continue(calls, requestGrids, stage) /\ read' = [read EXCEPT ![c] = r] /\ awaits' = awaits
  BY DEF Becomes
<1>4. awaits[<<p, "analysis">>] = NoCall => <<p, "analysis">> \notin calls
  BY NoCallIsNone
<1> HIDE DEF calls
<1>5. /\ stage'[p] = "idle" <=> stage[p] = "idle"
      /\ stage'[p] \in {"anchors", "routing"} => stage[p] \in {"anchors", "routing"}
  BY <1>1, <1>3, ContinueStages
<1>6. stage'[p] = "idle" => \A k \in {"anchors", "analysis"} : ~Made(<<p, k>>)'
  <2> SUFFICES ASSUME stage'[p] = "idle", NEW k \in {"anchors", "analysis"}
               PROVE  ~Made(<<p, k>>)'
    OBVIOUS
  <2>1. ~Made(<<p, k>>) /\ <<p, k>> # c
    BY <1>2, <1>5 DEF EntrySound
  <2>2. read'[<<p, k>>] = read[<<p, k>>]
    BY <1>1, <1>3, <2>1
  <2> QED BY <2>1, <2>2 DEF Made
<1>7. stage'[p] \in {"idle", "anchors", "routing"} => awaits'[<<p, "analysis">>] = NoCall
  BY <1>2, <1>3, <1>5 DEF EntrySound
<1>8. ASSUME OwnId(p), stage'[p] \in {"anchors", "routing"}
      PROVE  EntryKept(requestGrids', id[p], entry[p], now)
  <2>1. EntryKept(requestGrids, id[p], entry[p], now) /\ awaits[<<p, "analysis">>] = NoCall
    BY <1>2, <1>5, <1>8 DEF EntrySound, Waits
  <2> QED BY <1>1, <1>3, <1>4, <1>8, <2>1, ContinueEntry
<1>9. OwnId(p)' => OwnId(p)
  BY DEF OwnId
<1>10. OwnId(p)' /\ Waits(p)' => EntryKept(requestGrids', id'[p], entry'[p], now')
  BY <1>8, <1>9 DEF Waits
<1>11. OwnId(p)' /\ Waits(p)' => EntryKept(requestGrids, id[p], entry[p], now)'
  BY <1>10 DEF EntryKept, NewerThan
<1> QED BY <1>6, <1>7, <1>11 DEF EntrySound

\* Plans go on without the provider, or time passes.
LEMMA AwayEntries ==
    ASSUME IInv, EntriesSound, now' \in Nat, now <= now', UNCHANGED <<id, entry, providerVars>>,
           \A p \in DOMAIN id :
               /\ stage'[p] = "idle" => stage[p] = "idle"
               /\ stage'[p] \in {"anchors", "routing"} => stage[p] \in {"anchors", "routing"}
    PROVE  EntriesSound'
<1> SUFFICES ASSUME NEW p \in DOMAIN id
             PROVE  EntrySound(p)'
  BY DEF EntriesSound
<1>1. now \in Nat /\ entry[p] \in Counts /\ EntrySound(p)
  BY PlanFacts DEF EntriesSound
<1>2. requestGrids' = requestGrids /\ awaits' = awaits /\ read' = read
  BY DEF providerVars
<1>3. stage'[p] = "idle" => \A k \in {"anchors", "analysis"} : ~Made(<<p, k>>)'
  BY <1>1, <1>2 DEF EntrySound, Made
<1>4. stage'[p] \in {"idle", "anchors", "routing"} => awaits'[<<p, "analysis">>] = NoCall
  BY <1>1, <1>2 DEF EntrySound
<1>5. EntryKept(requestGrids, id[p], entry[p], now) => EntryKept(requestGrids, id[p], entry[p], now')
  <2>1. now >= entry[p].at + RequestTtl => now' >= entry[p].at + RequestTtl
    BY <1>1, Limits DEF Counts
  <2> QED BY <2>1 DEF EntryKept
<1>6. OwnId(p)' /\ Waits(p)' => EntryKept(requestGrids, id[p], entry[p], now')
  BY <1>1, <1>5 DEF EntrySound, OwnId, Waits
<1>7. OwnId(p)' /\ Waits(p)' => EntryKept(requestGrids, id[p], entry[p], now)'
  BY <1>2, <1>6 DEF EntryKept, NewerThan
<1> QED BY <1>3, <1>4, <1>7 DEF EntrySound

\* A plan that begins with a request id of its own finds no entry.
LEMMA OwnIdIsNew ==
    ASSUME IInv, EntriesSound, NEW p \in DOMAIN id, OwnId(p), stage[p] = "idle"
    PROVE  id[p] \notin DOMAIN Swept
<1>1. DOMAIN Swept \subseteq DOMAIN requestGrids
  BY DEF Swept, Kept
<1> SUFFICES ASSUME id[p] \in DOMAIN requestGrids
             PROVE  FALSE
  BY <1>1
<1> DEFINE c == requestGrids[id[p]].read
<1>2. c \in MadeCalls /\ c[1] \in DOMAIN id /\ id[c[1]] = id[p]
  BY PlanFacts DEF GridsSound
<1>3. c[1] = p
  BY <1>2 DEF OwnId
<1>4. c = <<p, "anchors">> \/ c = <<p, "analysis">>
  BY <1>2, <1>3 DEF MadeCalls, Calls
<1> HIDE DEF c
<1> QED BY <1>2, <1>4 DEF EntriesSound, EntrySound, MadeCalls

\* Plan p makes its call of kind k, and is at s then.
Begins(p, k, s) ==
    \/ k = "anchors" /\ stage[p] = "idle" /\ s = [stage EXCEPT ![p] = "anchors"]
    \/ k = "analysis" /\ stage[p] = "routing" /\ s = [stage EXCEPT ![p] = "analysis"]

LEMMA BeginStages ==
    ASSUME IInv, NEW p \in DOMAIN id, NEW k, NEW s, Begins(p, k, s),
           NEW calls, NEW g, Continue(calls, g, s), NEW q \in DOMAIN id
    PROVE  /\ stage'[q] = "idle" => stage[q] = "idle" /\ q # p
           /\ stage'[q] \in {"anchors", "routing"} =>
                IF q = p THEN k = "anchors" /\ stage[p] = "idle"
                ELSE stage[q] \in {"anchors", "routing"}
<1>1. p \in Plans /\ q \in Plans /\ stage \in [Plans -> Stages]
  BY PlanFacts
<1>2. /\ stage'[q] = "idle" <=> s[q] = "idle"
      /\ stage'[q] \in {"anchors", "routing"} => s[q] \in {"anchors", "routing"}
  BY <1>1, ContinueStages
<1>3. q # p => s[q] = stage[q]
  BY <1>1 DEF Begins
<1>4. (s[p] = "anchors" /\ k = "anchors" /\ stage[p] = "idle") \/ s[p] = "analysis"
  BY <1>1 DEF Begins
<1> QED BY <1>2, <1>3, <1>4

\* The call is given the promise of an entry.
LEMMA SharedEntries ==
    ASSUME IInv, EntriesSound, NEW p \in DOMAIN id, NEW k \in {"anchors", "analysis"}, NEW s,
           Begins(p, k, s), id[p] \in DOMAIN Swept, NEW x,
           awaits' = [awaits EXCEPT ![<<p, k>>] = x],
           NEW go, go \subseteq {<<p, k>>}, Continue(go, Swept, s), UNCHANGED <<id, now, read, entry>>
    PROVE  EntriesSound'
<1> SUFFICES ASSUME NEW q \in DOMAIN id
             PROVE  EntrySound(q)'
  BY DEF EntriesSound
<1>1. /\ q \in Plans /\ <<q, "analysis">> \in Calls /\ now \in Nat /\ entry[q] \in Counts
      /\ GridsSound(requestGrids, MadeCalls, MaxRequestGrids) /\ awaits \in [Calls -> Calls \cup {NoCall}]
  BY PlanFacts
<1>2. EntrySound(q) /\ GridsSound(Swept, MadeCalls, MaxRequestGrids)
  BY <1>1, SweptSound DEF EntriesSound
<1>3. /\ stage'[q] = "idle" => stage[q] = "idle" /\ q # p
      /\ stage'[q] \in {"anchors", "routing"} =>
            IF q = p THEN k = "anchors" /\ stage[p] = "idle"
            ELSE stage[q] \in {"anchors", "routing"}
  BY BeginStages
<1>4. stage'[q] = "idle" => \A l \in {"anchors", "analysis"} : ~Made(<<q, l>>)'
  BY <1>2, <1>3 DEF EntrySound, Made
<1>5. stage'[q] \in {"idle", "anchors", "routing"} =>
          awaits[<<q, "analysis">>] = NoCall /\ <<q, "analysis">> # <<p, k>>
  BY <1>2, <1>3 DEF EntrySound
<1>6. stage'[q] \in {"idle", "anchors", "routing"} => awaits'[<<q, "analysis">>] = NoCall
  BY <1>1, <1>5
<1>7. ASSUME OwnId(q), stage'[q] \in {"anchors", "routing"}
      PROVE  EntryKept(requestGrids', id[q], entry[q], now)
  <2>1. q # p
    BY <1>3, <1>7, OwnIdIsNew
  <2>2. EntryKept(requestGrids, id[q], entry[q], now)
    BY <1>2, <1>3, <1>7, <2>1 DEF EntrySound, Waits
  <2>3. EntryKept(Swept, id[q], entry[q], now) /\ <<q, "analysis">> \notin go
    BY <1>1, <2>1, <2>2, SweptEntry
  <2> QED BY <1>1, <1>2, <1>7, <2>3, ContinueEntry
<1>8. OwnId(q)' /\ Waits(q)' => EntryKept(requestGrids', id'[q], entry'[q], now')
  BY <1>7 DEF Waits, OwnId
<1>9. OwnId(q)' /\ Waits(q)' => EntryKept(requestGrids, id[q], entry[q], now)'
  BY <1>8 DEF EntryKept, NewerThan
<1> QED BY <1>4, <1>6, <1>9 DEF EntrySound

\* The call begins a read, of which r is left.
LEMMA FreshEntries ==
    ASSUME IInv, EntriesSound, NEW p \in DOMAIN id, NEW k \in {"anchors", "analysis"}, NEW s,
           Begins(p, k, s), id[p] \notin DOMAIN Swept, NEW r,
           Becomes(<<p, k>>, r,
                   Evicted(Added(Swept, id[p], [createdAt |-> now, read |-> <<p, k>>,
                                                place |-> Cardinality(DOMAIN Swept)])),
                   [awaits EXCEPT ![<<p, k>>] = <<p, k>>], s),
           entry' = [q \in Plans |->
                    CASE q = p /\ k = "anchors" -> [at |-> now, newer |-> 0]
                      [] q # p /\ stage[q] \in {"anchors", "routing"} ->
                            [entry[q] EXCEPT !.newer = @ + 1]
                      [] OTHER -> NoEntry],
           UNCHANGED <<id, now>>
    PROVE  EntriesSound'
<1> DEFINE c == <<p, k>>
           e == [createdAt |-> now, read |-> c, place |-> Cardinality(DOMAIN Swept)]
           added == Added(Swept, id[p], e)
           a == [awaits EXCEPT ![c] = c]
           calls == IF r.pc = "settled" THEN {x \in Calls : a[x] = c} ELSE {}
<1> SUFFICES ASSUME NEW q \in DOMAIN id
             PROVE  EntrySound(q)'
  BY DEF EntriesSound
<1>1. /\ q \in Plans /\ <<q, "analysis">> \in Calls /\ <<q, "anchors">> \in Calls
      /\ now \in Nat /\ entry[q] \in Counts
      /\ GridsSound(requestGrids, MadeCalls, MaxRequestGrids) /\ awaits \in [Calls -> Calls \cup {NoCall}]
      /\ read \in [Calls -> {NoRead} \cup ReadRecord]
  BY PlanFacts
<1>2. EntrySound(q) /\ GridsSound(Swept, MadeCalls, MaxRequestGrids)
  BY <1>1, SweptSound DEF EntriesSound
<1>3. Continue(calls, Evicted(added), s) /\ read' = [read EXCEPT ![c] = r] /\ awaits' = a
  BY DEF Becomes
<1>4. /\ stage'[q] = "idle" => stage[q] = "idle" /\ q # p
      /\ stage'[q] \in {"anchors", "routing"} =>
            IF q = p THEN k = "anchors" /\ stage[p] = "idle"
            ELSE stage[q] \in {"anchors", "routing"}
  BY <1>3, BeginStages
<1>5. stage'[q] = "idle" => \A l \in {"anchors", "analysis"} : ~Made(<<q, l>>)'
  <2> SUFFICES ASSUME stage'[q] = "idle", NEW l \in {"anchors", "analysis"}
               PROVE  ~Made(<<q, l>>)'
    OBVIOUS
  <2>1. ~Made(<<q, l>>) /\ <<q, l>> # c
    BY <1>2, <1>4 DEF EntrySound
  <2>2. read'[<<q, l>>] = read[<<q, l>>]
    BY <1>1, <1>3, <2>1
  <2> QED BY <2>1, <2>2 DEF Made
<1>6. stage'[q] \in {"idle", "anchors", "routing"} => a[<<q, "analysis">>] = NoCall
  <2>1. stage'[q] \in {"idle", "anchors", "routing"} =>
            awaits[<<q, "analysis">>] = NoCall /\ <<q, "analysis">> # c
    BY <1>2, <1>4 DEF EntrySound
  <2> QED BY <1>1, <2>1
<1>7. a[<<q, "analysis">>] = NoCall => <<q, "analysis">> \notin calls
  <2>1. c \in Calls /\ c # NoCall
    BY PlanFacts, NoCallIsNone
  <2> QED BY <2>1
<1>8. /\ PlacedAt(e, Cardinality(DOMAIN Swept)) /\ e.createdAt = now
      /\ GridsSound(added, MadeCalls \cup {c}, MaxRequestGrids + 1)
      /\ MaxRequestGrids + 1 \in Nat
  <2>1. PlacedAt(e, Cardinality(DOMAIN Swept)) /\ e.createdAt = now
    BY DEF PlacedAt
  <2>2. c \in Calls /\ c[1] = p /\ id[p] \in Ids /\ MaxRequestGrids \in Nat
    BY PlanFacts, Limits
  <2>3. GridsSound(added, MadeCalls \cup {c}, MaxRequestGrids + 1)
    BY <1>1, <1>2, <2>2, AddedGrids
  <2> QED BY <2>1, <2>2, <2>3
<1> HIDE DEF c, e, a, calls
<1>9. GridsSound(Evicted(added), MadeCalls \cup {c}, MaxRequestGrids)
  <2> HIDE DEF added
  <2> QED BY <1>8, Limits, NewestGrids DEF Evicted
<1>10. ASSUME OwnId(q), stage'[q] \in {"anchors", "routing"}
       PROVE  EntryKept(requestGrids', id[q], entry'[q], now)
  <2>1. entry'[q] \in Counts /\ EntryKept(added, id[q], entry'[q], now)
    <3>1. CASE q = p
      <4>1. entry'[q] = [at |-> now, newer |-> 0]
        BY <1>1, <1>4, <1>10, <3>1
      <4>2. EntryKept(added, id[q], [at |-> now, newer |-> 0], now)
        BY <1>2, <1>8, <3>1, NewEntry
      <4> QED BY <1>1, <4>1, <4>2 DEF Counts
    <3>2. CASE q # p
      <4>1. entry'[q] = [entry[q] EXCEPT !.newer = @ + 1] /\ stage[q] \in {"anchors", "routing"}
        BY <1>1, <1>4, <1>10, <3>2
      <4>2. EntryKept(requestGrids, id[q], entry[q], now) /\ id[q] # id[p]
        BY <1>2, <1>10, <3>2, <4>1 DEF EntrySound, Waits, OwnId
      <4>3. EntryKept(Swept, id[q], entry[q], now)
        BY <1>1, <4>2, SweptEntry
      <4>4. EntryKept(added, id[q], [entry[q] EXCEPT !.newer = @ + 1], now)
        BY <1>1, <1>2, <1>8, <4>2, <4>3, AddedEntry
      <4>5. [entry[q] EXCEPT !.newer = @ + 1] \in Counts
        BY <1>1 DEF Counts
      <4> QED BY <4>1, <4>4, <4>5
    <3> QED BY <3>1, <3>2
  <2> HIDE DEF added
  <2>2. EntryKept(Evicted(added), id[q], entry'[q], now)
    BY <1>8, <2>1, EvictedEntry
  <2>3. <<q, "analysis">> \notin calls
    BY <1>6, <1>7, <1>10
  <2> QED BY <1>3, <1>9, <1>10, <2>1, <2>2, <2>3, ContinueEntry
<1>11. OwnId(q)' /\ Waits(q)' => EntryKept(requestGrids', id'[q], entry'[q], now')
  BY <1>10 DEF Waits, OwnId
<1>12. OwnId(q)' /\ Waits(q)' => EntryKept(requestGrids, id[q], entry[q], now)'
  BY <1>11 DEF EntryKept, NewerThan
<1>13. stage'[q] \in {"idle", "anchors", "routing"} => awaits'[<<q, "analysis">>] = NoCall
  BY <1>3, <1>6
<1> QED BY <1>5, <1>12, <1>13 DEF EntrySound

LEMMA SourceBecomes ==
    ASSUME NEW c, NEW r, NEW g, NEW a, NEW s, ReadSource(c, r, g, a, s)
    PROVE  \E q : Becomes(c, q, g, a, s)
BY Zenon DEF ReadSource

\* What a call of the provider does, for the entries.
LEMMA CallEntries ==
    ASSUME IInv, EntriesSound, NEW p \in DOMAIN id, NEW k \in {"anchors", "analysis"}, NEW w,
           NEW s, Begins(p, k, s), GridForRequest(<<p, k>>, w, s), UNCHANGED <<id, now>>
    PROVE  EntriesSound'
<1> DEFINE c == <<p, k>>
           r == [pc |-> "get", window |-> w, end |-> "none",
                 expiresAt |-> IF bound THEN now + BucketTtl ELSE 0, readAt |-> 0]
           grids == Evicted(Added(Swept, id[p], [createdAt |-> now, read |-> c,
                                                 place |-> Cardinality(DOMAIN Swept)]))
           a == [awaits EXCEPT ![c] = c]
<1>1. CASE \E i \in EntriesFor(p, w) :
              /\ awaits' = [awaits EXCEPT ![c] = Swept[i].read]
              /\ Continue(IF Settled(Swept[i].read) THEN {c} ELSE {}, Swept, s)
              /\ UNCHANGED <<read, cache, since, entry>>
  <2>1. PICK i \in EntriesFor(p, w) :
              /\ awaits' = [awaits EXCEPT ![c] = Swept[i].read]
              /\ Continue(IF Settled(Swept[i].read) THEN {c} ELSE {}, Swept, s)
              /\ UNCHANGED <<read, cache, since, entry>>
    BY <1>1
  <2> DEFINE x == Swept[i].read
             go == IF Settled(x) THEN {c} ELSE {}
  <2>2. id[p] \in DOMAIN Swept /\ go \subseteq {c}
    BY DEF EntriesFor
  <2>3. awaits' = [awaits EXCEPT ![c] = x] /\ Continue(go, Swept, s) /\ UNCHANGED <<read, entry>>
    BY <2>1
  <2> HIDE DEF x, go
  <2> QED BY <2>2, <2>3, SharedEntries
<1>2. CASE /\ EntriesFor(p, w) = {}
           /\ entry' = [q \in Plans |->
                    CASE q = p /\ k = "anchors" -> [at |-> now, newer |-> 0]
                      [] q # p /\ stage[q] \in {"anchors", "routing"} ->
                            [entry[q] EXCEPT !.newer = @ + 1]
                      [] OTHER -> NoEntry]
           /\ Becomes(c, r, grids, a, s) \/ ReadSource(c, r, grids, a, s)
  <2>1. id[p] \notin DOMAIN Swept
    BY <1>2 DEF EntriesFor
  <2>2. \E q : Becomes(c, q, grids, a, s)
    <3> HIDE DEF r, grids, a, c
    <3> QED BY <1>2, SourceBecomes
  <2> QED BY <1>2, <2>1, <2>2, FreshEntries
<1>3. c[1] = p /\ c[2] = k
  OBVIOUS
<1> HIDE DEF r, grids, a
<1> QED BY <1>1, <1>2, <1>3 DEF GridForRequest, r, grids, a

LEMMA PlanEntries ==
    ASSUME IInv, EntriesSound, NEW p \in DOMAIN id,
           FindAnchors(p) \/ AnalyzeRoutes(p) \/ SoftWaitMissed(p) \/ EndEarly(p) \/ Abort(p)
    PROVE  EntriesSound'
<1>1. p \in Plans /\ now \in Nat /\ now <= now /\ stage \in [Plans -> Stages] /\ DOMAIN id \subseteq Plans
  <2>1. id \in Choices[bound] /\ bound \in Deployments
    BY DEF IInv, Setting
  <2>2. DOMAIN id \subseteq Plans
    BY <2>1, ConstantsAssumption
  <2>3. p \in Plans /\ now \in Nat /\ stage \in [Plans -> Stages]
    BY PlanFacts
  <2>4. now <= now
    BY <2>3
  <2> QED BY <2>2, <2>3, <2>4
<1>2. CASE FindAnchors(p)
  <2> DEFINE s == [stage EXCEPT ![p] = "anchors"]
  <2>1. PICK w \in Asks[<<p, "anchors">>] : GridForRequest(<<p, "anchors">>, w, s)
    BY <1>2 DEF FindAnchors
  <2>2. Begins(p, "anchors", s) /\ UNCHANGED <<id, now>>
    BY <1>2 DEF FindAnchors, Begins
  <2> HIDE DEF s
  <2> QED BY <2>1, <2>2, CallEntries
<1>3. CASE AnalyzeRoutes(p)
  <2> DEFINE s == [stage EXCEPT ![p] = "analysis"]
  <2>1. PICK w \in Asks[<<p, "analysis">>] : GridForRequest(<<p, "analysis">>, w, s)
    BY <1>3 DEF AnalyzeRoutes
  <2>2. Begins(p, "analysis", s) /\ UNCHANGED <<id, now>>
    BY <1>3 DEF AnalyzeRoutes, Begins
  <2> HIDE DEF s
  <2> QED BY <2>1, <2>2, CallEntries
<1>4. CASE SoftWaitMissed(p) \/ EndEarly(p) \/ Abort(p)
  <2>1. now' = now /\ UNCHANGED <<id, entry, providerVars>>
    BY <1>4 DEF SoftWaitMissed, EndEarly, Abort, history
  <2>2. ASSUME NEW q \in DOMAIN id
        PROVE  /\ stage'[q] = "idle" => stage[q] = "idle"
               /\ stage'[q] \in {"anchors", "routing"} => stage[q] \in {"anchors", "routing"}
    BY <1>1, <1>4 DEF SoftWaitMissed, EndEarly, Abort
  <2> QED BY <1>1, <2>1, <2>2, AwayEntries
<1> QED BY <1>2, <1>3, <1>4

LEMMA SettleEntries ==
    ASSUME IInv, EntriesSound, NEW c \in Calls,
           TilesSettle(c) \/ GetSettles(c) \/ BodySettles(c) \/ PutSettles(c)
    PROVE  EntriesSound'
<1>1. Made(c) /\ UNCHANGED <<id, now, entry>>
  BY DEF TilesSettle, GetSettles, BodySettles, PutSettles, Made, history
<1>2. \E r : Becomes(c, r, requestGrids, awaits, stage)
  <2>1. CASE TilesSettle(c)
    BY <2>1, Zenon DEF TilesSettle
  <2>2. CASE GetSettles(c)
    BY <2>2, SourceBecomes, Zenon DEF GetSettles
  <2>3. CASE BodySettles(c)
    BY <2>3, SourceBecomes, Zenon DEF BodySettles
  <2>4. CASE PutSettles(c)
    BY <2>4, Zenon DEF PutSettles
  <2> QED BY <2>1, <2>2, <2>3, <2>4
<1> QED BY <1>1, <1>2, ReadEntries

LEMMA EntriesStep ==
    ASSUME IInv, IInv', EntriesSound, [Next]_vars
    PROVE  EntriesSound'
<1>1. now \in Nat /\ now' \in Nat
  BY DEF IInv, Setting
<1>2. CASE Tick \/ UNCHANGED vars
  <2>1. now <= now' /\ UNCHANGED <<id, entry, providerVars, stage>>
    BY <1>1, <1>2 DEF Tick, vars, history
  <2> QED BY <1>1, <2>1, AwayEntries
<1> QED BY <1>2, PlanEntries, SettleEntries DEF Next, Terminated

\* A second read of a plan is its analysis, and finds no entry.
LEMMA SecondRead ==
    ASSUME IInv, EntriesSound, [Next]_vars, NEW p \in Plans,
           Made(<<p, "analysis">>)', ~Made(<<p, "analysis">>), OwnId(p)
    PROVE  now >= entry[p].at + RequestTtl \/ entry[p].newer >= MaxRequestGrids
<1> DEFINE c == <<p, "analysis">>
<1>1. read'[c] # read[c] /\ c \in Calls
  BY DEF Made, Calls
<1>2. read \in [Calls -> {NoRead} \cup ReadRecord]
  BY DEF IInv, Provider, ReadsSound
<1>3. ASSUME NEW x, NEW r, NEW g, NEW a, NEW s, Becomes(x, r, g, a, s)
      PROVE  x = c
  BY <1>1, <1>2, <1>3 DEF Becomes
<1>4. ~ (Tick \/ UNCHANGED vars)
  BY <1>1 DEF Tick, vars, providerVars
<1>5. ASSUME NEW x \in Calls, TilesSettle(x) \/ GetSettles(x) \/ BodySettles(x) \/ PutSettles(x)
      PROVE  FALSE
  <2>1. Made(x)
    BY <1>5 DEF TilesSettle, GetSettles, BodySettles, PutSettles, Made
  <2>2. CASE TilesSettle(x)
    <3>1. \E r : Becomes(x, r, requestGrids, awaits, stage)
      BY <2>2, Zenon DEF TilesSettle
    <3> QED BY <1>3, <2>1, <3>1
  <2>3. CASE GetSettles(x)
    <3>1. \E r : Becomes(x, r, requestGrids, awaits, stage)
      BY <2>3, SourceBecomes, Zenon DEF GetSettles
    <3> QED BY <1>3, <2>1, <3>1
  <2>4. CASE BodySettles(x)
    <3>1. \E r : Becomes(x, r, requestGrids, awaits, stage)
      BY <2>4, SourceBecomes, Zenon DEF BodySettles
    <3> QED BY <1>3, <2>1, <3>1
  <2>5. CASE PutSettles(x)
    BY <1>3, <2>1, <2>5 DEF PutSettles
  <2> QED BY <1>5, <2>2, <2>3, <2>4, <2>5
<1>6. ASSUME NEW q, NEW k, NEW w, NEW s, GridForRequest(<<q, k>>, w, s)
      PROVE  q = p /\ k = "analysis" /\ id[q] \notin DOMAIN Swept
  <2>1. EntriesFor(q, w) = {} /\ \E r, g, a : Becomes(<<q, k>>, r, g, a, s)
    <3>1. \/ read' = read
          \/ /\ EntriesFor(q, w) = {}
             /\ \E r, g, a : Becomes(<<q, k>>, r, g, a, s) \/ ReadSource(<<q, k>>, r, g, a, s)
      BY <1>6, Zenon DEF GridForRequest
    <3> QED BY <1>1, <3>1, SourceBecomes
  <2>2. <<q, k>> = c
    BY <1>3, <2>1
  <2> QED BY <2>1, <2>2 DEF EntriesFor
<1>7. ASSUME NEW q \in DOMAIN id,
             FindAnchors(q) \/ AnalyzeRoutes(q) \/ SoftWaitMissed(q) \/ EndEarly(q) \/ Abort(q)
      PROVE  p \in DOMAIN id /\ stage[p] = "routing" /\ id[p] \notin DOMAIN Swept
  <2>1. ~ (SoftWaitMissed(q) \/ EndEarly(q) \/ Abort(q))
    BY <1>1 DEF SoftWaitMissed, EndEarly, Abort, providerVars
  <2>2. ~ FindAnchors(q)
    BY <1>6 DEF FindAnchors
  <2>3. AnalyzeRoutes(q)
    BY <1>7, <2>1, <2>2
  <2> QED BY <1>6, <2>3 DEF AnalyzeRoutes
<1>8. p \in DOMAIN id /\ stage[p] = "routing" /\ id[p] \notin DOMAIN Swept
  BY <1>4, <1>5, <1>7 DEF Next, Terminated
<1>9. EntryKept(requestGrids, id[p], entry[p], now)
  BY <1>8 DEF EntriesSound, EntrySound, Waits
<1>10. EntryKept(Swept, id[p], entry[p], now)
  BY <1>8, <1>9, PlanFacts, SweptEntry
<1> QED BY <1>8, <1>10 DEF EntryKept

\* The analysis of a plan whose request id is its own shares the grid of its anchors,
\* unless the entry is too old or was displaced by as many as the map holds, however many
\* other plans come, abort or end meanwhile (gridForRequest, analyzeRoutes' finally).
THEOREM OneGridEach == Spec => OneGridPerPlan
<1>1. Init => EntriesSound
  <2> SUFFICES ASSUME Init, NEW p \in DOMAIN id PROVE EntrySound(p)
    BY DEF EntriesSound
  <2>1. p \in Plans
    BY Initially, PlanFacts
  <2>2. \A k \in {"anchors", "analysis"} : ~Made(<<p, k>>) /\ awaits[<<p, k>>] = NoCall
    BY <2>1 DEF Init, Made, NoRead, Calls
  <2>3. stage[p] = "idle"
    BY <2>1 DEF Init
  <2> QED BY <2>2, <2>3 DEF EntrySound, Waits
<1>2. IInv /\ IInv' /\ EntriesSound /\ [Next]_vars => EntriesSound'
  BY EntriesStep
<1>3. IInv /\ EntriesSound /\ [Next]_vars =>
          [\A p \in Plans :
              Made(<<p, "analysis">>)' /\ ~Made(<<p, "analysis">>) /\ OwnId(p) =>
                  \/ now >= entry[p].at + RequestTtl
                  \/ entry[p].newer >= MaxRequestGrids]_vars
  BY SecondRead
<1> QED BY <1>1, <1>2, <1>3, Inductive, PTL DEF Spec, OneGridPerPlan
=============================================================================
