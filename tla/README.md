# Verification of the route finder

TLA+ models of zhaolu-route-finder, the TLC configurations that check them and
TLAPS proofs about them.  Every definition is translated from the source; the
table of contents is `PROJECT.json`, whose `map` names the lines each definition
stands for.

    tlc -config UserData.cfg MCUserData       # and so on, one cfg per run
    tlapm UserDataProofs.tla                  # and the other modules ...Proofs

## The system

A browser application asks an HTTP service for scenic running and cycling
routes and keeps anonymous saved routes there.  The service runs as one Node
process on SQLite, or as a Cloudflare Worker on D1.  It calls AMap's web service
for places and routes, and reads WorldCover rasters for scenery.  A second
process makes verified backups of the SQLite file.

| component | state | operations | what is hard | what must hold |
|---|---|---|---|---|
| user data service and stores (`user-data/`, `cloudflare/d1UserDataStore.ts`) | three tables; signed tokens; values a handler carries over an await | issue and erase a session; save, list and delete routes; add a report; purge | look-up and insert are apart; a token outlives its account; D1 awaits between statements; purges and crashes come between | rows refer to existing rows; one row per key; erased data stays erased; live data stays with its account; expired data goes |
| route search (`findScenicRoutes.ts`, `providerBudget.ts`) | call budget, shared worker index, results, warnings | resolve places, find anchors, route candidates, refine, analyse, select | concurrent workers share a budget; soft waits leave calls running; an abort is noticed late | what it reports is what happened; the budget suffices; every plan ends |
| AMap adapters (`adapters/amap/`) | the client's fixed per-minute window | place look-up, legs of a route, attempt, retry | retries consume budgets; abort during fetch or delay | no call after an abort; window bound |
| plan endpoint (`server-api/handler.ts`) | one controller per request | time-out, caller's abort | the answer is sent while the plan goes on | an abandoned plan stops |
| browser session (`web/src/userDataApi.ts`, `App.tsx`) | session in localStorage shared by tabs; a creation in flight; the list shown | save, list, remove, delete all | 401 recovery against other operations; lost answers; tabs | a save is stored once; what was reported saved stays within reach |
| browser planning view (`App.tsx`, `AmapBasemap.tsx`) | the search and its controller, routes on the screen and on the map, marks of saved routes | submit, select, save, remove, reload | answers in any order; the map loads late or fails; a save has no lasting key | what the view shows is true; a route is recorded once |
| backup (`runtime/databaseBackup.ts`, `backupScheduler.ts`) | backup directory, `last-success.json` | copy, verify, rename, drill, expire, write metadata | crashes between steps; two processes; failing writes | published backups are verified and kept; publication resumes |
| rate limiter (`runtime/rateLimit.ts`) | a map of fixed windows | check, prune | full map, window borders | bound per window |
| WorldCover scenery (`adapters/worldcover/`, `r2WorldCoverCache.ts`) | grids per request id, LRU with time to live, R2 objects | read a grid | shared promises, failures kept, writes after the answer | plans do not disturb one another; a plan reads one grid; grids do not outlive their times to live |
| WorldCover analysis (`analysis.ts`) | none | pure | windows cut off at the grid's edges; repeated points | features are those of the path |
| scoring and selection (`scoring.ts`, `diversity.ts`) | none | pure | ties, missing metrics, a second pass | the best admissible routes |
| process runtime (`main.ts`, `sqliteStore.ts`) | phase of the process, the store, the file's schema and version | start, upgrade, listen, shut down, exit | processes that start at once; a crash within an upgrade; shutdown with handlers and plans running | schema and version agree; no one is answered from a closed store; shutdown ends |
| HTTP adapter and API handler (`nodeServer.ts`, `handler.ts`, `openapi.ts`) | one request and its connection | dispatch, read the body, authenticate, call the store, plan, answer | a failure or a disconnect at any await | documented operations answer with documented statuses |

Components interact by calls with awaits (adapter, handler, service, store; search,
adapters), by shared state without locks (worker index and call budget; the
session in localStorage; the database file; the backup directory and its metadata) and
by signals (abort of a plan, disconnect of a client, SIGTERM).

## Modules

| module | models | extends |
|---|---|---|
| `UserData` | handler endpoints, `UserDataService`, both stores | |
| `MCUserData` | constants for TLC | `UserData` |
| `UserDataProofs` | theorems about `UserData` | `UserData`, `TLAPS` |
| `RouteSearch` | one plan: `executePlan`, `findScenicRoutes`, AMap adapters | |
| `RouteSearchProofs` | theorems about the algorithms and about `RouteSearch` | `Recommendation`, `TLAPS` |
| `Recommendation` | the pure algorithms of a search: land-cover analysis, anchors, scores, selection | `RouteSearch` |
| `MCRecommendation` | grids, geometries and sets of routes for TLC | `Recommendation` |
| `WebSession` | session coordinator and the operations of `App` | |
| `MCWebSession` | tabs, operations and symmetry for TLC | `WebSession` |
| `PlanView` | the planning view of one page, composed with the session | `WebSession` |
| `MCPlanView` | one tab and its operations for TLC | `PlanView` |
| `PlanViewProofs` | theorems about `WebSession` and `PlanView` | `PlanView`, `TLAPS` |
| `Backup` | backup runs of the scheduler and the command | |
| `BackupProofs` | theorems about `Backup` | `Backup`, `TLAPS` |
| `FixedWindow` | abstract: what a fixed-window limit promises | |
| `FixedWindowProofs` | the bound that follows | `FixedWindow`, `TLAPS` |
| `Quota` | `FixedWindowRateLimiter` and the AMap client's window | instance of `FixedWindow` |
| `MCQuota` | clients, limits and symmetry for TLC | `Quota` |
| `QuotaProofs` | theorems about `Quota` | `Quota`, `TLAPS`, instance of `FixedWindowProofs` |
| `SceneryGrid` | `WorldCoverSceneryProvider`, the COG source's cache, the R2 cache | |
| `MCSceneryGrid` | plans, request ids and windows for TLC | `SceneryGrid` |
| `SceneryGridProofs` | theorems about `SceneryGrid` | `SceneryGrid`, `TLAPS` |
| `Migration` | the schema upgrade that opens the SQLite store | |
| `Server` | processes, connections, the HTTP adapter and the API's handler | `Migration` |
| `MCServer` | two processes and two connections for TLC | `Server` |
| `ServerProofs` | theorems about `Server` and `Migration` | `Server`, `TLAPS` |

A definition that is a plausible bug ("mutant" in its comment) stands before the
definition it is a variant of.  No specification uses it: replacing the correct
definition by it must break the property that `PROJECT.json` names, which shows
that the property depends on the code.

### UserData

A request is a process.  Its `pc` says what it awaits: `auth` (verification of
the token and the session row), `serve` (the first statement of the operation),
`expire` (D1's second statement for an expired key) and `insert`.  An action is one
store statement with the code up to the next await.  `request[r].at` and `.route`
are the values carried over it.  SQLite's methods are synchronous, so a look-up
and the deletion of the expired row are one step; in D1 they are two, and a
statement carries a clock value read at any time since the last step
(`StatementTimes`).  `Delete` computes the tables after a DELETE with its
cascades; `RouteAccepted` is the foreign key and the unique index.  The purge is
one transaction in D1; in SQLite it is three statements that a crash or an error
can cut (`Crash`, `PurgeFails`).  `now` moves by `Tick`.
In D1 the awaits are network round trips.  On Node they are microtasks, so that
two requests interleave only when their bodies arrive in one tick of the event loop:
for SQLite the interleavings modelled contain those that occur.

Assumed: clocks do not go back, identifiers do not repeat, and D1's
`meta.changes` of a DELETE counts the rows the statement names, not the cascades
(the code compares it with 1).  The listing reads only and is left out.

### RouteSearch

`stage` is the await of `findScenicRoutes`.  `task` holds the provider calls in
progress (look-ups of stops, workers, the refinement); each is a number of GETs
left, the attempt, and whether it is about to send.  `Send` is the code before the
fetch: abort check, then budget.  `Respond` covers every settlement of a fetch.
Geometry is abstracted to a quality per route: within 15 percent of the target,
within 25, further off, or missing a stop.  Scenery calls answer, fail, or miss
their soft wait.  Selection may return any non-empty set the contract allows.  Two histories serve the
properties: `retried`, and `answered`, the scenery calls whose answer came within their soft
wait, which the warnings have to account for when a result is called complete.
Errors thrown by injected strategies are left out, as the strategies composed in
production do not throw.  The global window of the AMap client is not part of
it (see `Quota`): a refusal by the window is one more `QUOTA_EXCEEDED` answer.

### Recommendation

The decisions that `RouteSearch` leaves open are functions here.  `MaskIntegral` is the
summed-area table and `CountNear` the count taken from four of its entries;
`RankWorldCoverAnchors` and `SelectDiverseRoutes` rank (`Sorted`) and then choose in that order
(`Chosen`), once for anchors and twice for routes; `SampleRouteGeometry` and `AnalyzeRoute`
walk along a route.  Coordinates are integers, ratios are pairs of integers compared by
cross-multiplication, and lengths are those of a plane with routes along its axes: nothing is
rounded, where the code uses floating point on a sphere.  One radius serves both directions of
a neighbourhood, and the overlap of two routes is an input.  Reasons and warnings of a score
are left out.

The properties are stated of the steps of the plan that go on with the results
(`FeaturesExact` of those to the analysis, `ChoicesBest` of those that route candidates or
answer), for all inputs of the collections in `MCRecommendation`.

### WebSession

Each operation of the user runs through `run()` of its tab's coordinator: acquire
a token (stored, shared creation, or new creation), send, and on the first 401
clear the stored session and repeat with a new one.  Delete-all bypasses the
coordinator.  The server is reduced to accounts and rows.  It may end a session
(by expiry, which the browser sees in `expiresAt`, or without the browser
knowing); requests and answers may be lost.

### PlanView

`PlanView` adds to `WebSession`, in one page, what the user looks at: the search that is
`active`, the `screen`, the route `selected`, the AMap base map with the overlays `drawn` on
it, and the marks of saved routes, each with the operation that saved it.  An operation of `WebSession` begins only as the view lets
it (`SaveSelectedRoute` needs a route that is neither marked nor being saved), and `Follow` is
the continuation in `App` of every operation that ends in the step.  The effect that draws
the overlays follows each change (`Draw`); without routes it leaves the old overlays, and a
click on one selects a route that is no longer on the screen.  `SelectedRoute` is the look-up
among the routes shown that makes this harmless.  `Reload` is the page opened anew.

### Backup

A run is a sequence of file operations: copy, verify, rename, drill, list, remove
expired entries one by one, truncate the metadata, write it.  Crashes, failing
operations and the other process come between any two.  `Readable` is
`readBackupMetadata`.  Assumed: a run takes less than the shortest retention (a
day), and two concurrent runs do not draw the same millisecond.

### FixedWindow and Quota

`FixedWindow` says what a limit promises without counters: an admission opens a
window, or joins the window of the last one while that lasts and is not full.
`Quota` has the code's two forms of it: the rate limiter's map of counters
(`windows`), which prunes itself only when it is full and then refuses
clients it has no entry for, and the AMap client's single counter
(`attemptWindow`).  Both are synchronous, so a call is one action.  `log` and
`retryAt` are histories: who was admitted when, and what the last refusal's
Retry-After promised.  The refinement maps `log` and `now` to themselves: the
abstract windows have to be found in the history although the code has forgotten
them.  `Second` is the unit to which Retry-After is rounded up.  Assumed: the
clock does not go back (`Date.now` may, when the system's clock is set), and the
clients are finitely many.

### SceneryGrid

`findAnchors` and `analyzeRoutes` of a plan are calls.  `requestGrids` is the provider's
map of promises per request id, `awaits` the read whose promise a call was given,
and a read is named by the call that began it.  `read[c].pc` is what it awaits: the
bucket's object (`get`), its body, the tiles, or the bucket's `put`; without a bucket
it begins with the tiles.  When a read settles, every call that awaits it goes on
in the same action (`Continue`), because those continuations are microtasks: no
other event comes between.  An abort reaches a read through the signal of the plan that
began it, and only its next step notices it.  `settleWithin` lets the plan
go on while its call still waits, so that the `finally` of `analyzeRoutes`, which
gives up the entry of its request id, may run late and hit an entry of another plan
of the same id.

A JavaScript `Map` remembers the order of insertion: `requestGrids` and `cache` are
functions whose entries carry their `place` in it, and `Newest` is the loop that
removes the first key until the map fits.  `cache` is the LRU of
`CogWorldCoverRasterSource`, `bucket` what R2 holds.  A grid's contents are left out;
`readAt` says when its tiles were read, which the code does not record and
`AgeBounded` needs.  The expiry of an object is fixed when the read begins
(`expiresAt` of the read), before the raster source is asked.  `FAILED` stands for the error
codes other than `ABORTED`; the limit on the number of tiles, a request for no
anchors and routes without geometry begin no read and are left out.  `put` is awaited because no
deployment configures `defer`.

Request ids are chosen by clients.  Two plans of one id share the grid, its failure and
the abort of the plan that began it, whatever their windows; `PlansIsolated`
therefore speaks of plans whose id is their own, and the run contains
both, the shared id without a bucket.

### Migration and Server

`Migration` is the constructor of `SqliteUserDataStore` between two statements: the version is
read outside of any transaction, then each pending migration has one
(`BeginImmediate`, `RunMigration`, `Commit`).  `schema` is what the file holds, `version` what
it says it holds.  `raced` is a history: two processes found the file empty at one time.

`Server` composes it with the processes that open the file and the connections they serve.
A process is `starting`, `listening`, `closing` (server.close was called), `closed` (the
callback has closed the store) and `off`.  A request is a record; `pc` is what its handler
awaits, and the code between two awaits is an operator from a request to the set of
those it can become (`Dispatched`, `Handled`, `Authenticated`, `Called`).  `Cut` is a
connection that is gone: a body that was awaited never comes, everything else goes on.
The store, the plan, the limiter and the proxied service answer with any status they can:
`UserData`, `RouteSearch` and `Quota` say which and when.  `late` marks an answer that
comes from a closed store.

Assumed: request targets are well-formed URLs and `HOST` is an address; `Inputs` has every
documented operation with every kind of body, and a GET or a POST elsewhere.  The status 200 of
the proxied service stands for every status it has.  A plan's own time-out is one of
`PlanStatuses`.

## What the runs check

| run | configuration | shows |
|---|---|---|
| `user_data` | two concurrent requests, both stores, one key and none, three UUIDs, two ticks, one fault; 1.8 million states | `ReferentialIntegrity`, `OneRoutePerKey`, `ErasedStaysErased`, `LiveDataKeptWithAccount`, `RetryReturnsOriginal` |
| `user_data_expiry` | one request | `ExpiredDataErased` under fairness |
| `user_data_resubmission` | two requests | violated: see finding 1 |
| `route_search` | no stop or two, three candidates, two workers, two attempts, twelve GETs, an abort anywhere; 0.7 million states; grids of two by three, four geometries, up to three routes with 81 patterns of overlap | `PoolSound`, `CompleteIsComplete`, `FailureJustified`, the budget, silence after an abort, termination; `FeaturesExact` and `ChoicesBest` of the algorithms |
| `web_session` | two tabs, three operations, one ended session, one lost message; 0.6 million states | `SavedOnce`, `HeldUnlessOverlapped`, `SharedCreation` |
| `web_session_ends` | one page, two searches of up to two routes, two operations, one ended session, one lost message; 0.4 million states | `MarksSound` of `PlanView`; `OperationsEnd` under fairness |
| `web_session_erase` | one tab, three operations, nothing lost | violated: see finding 2 |
| `backup` | scheduler and command, four names, two faults; 0.1 million states | verified and kept publications, resumption under fairness |
| `backup_order` | the same | violated: see finding 3 |
| `quota` | two planning clients and a session client on a map of two, the AMap window; clock to 4; 1.1 million states | implementation of `FixedWindow`, `RateBounded`, justified refusals, honest Retry-After |
| `server` | two processes on one file of any version, three starts, two connections of which one stays silent; 0.3 million states | `UpgradeSafe`, `ClosedStoreUnseen`, `AnswersDocumented`; `ShutdownEnds` under fairness |
| `scenery` | two plans with a bucket and ids of their own; without it also two with one id, and three on a map of two; three windows on a cache of two; one plan may be aborted; clock to 3 with a bucket, to 2 without; 2.1 million states | `PlansIsolated`, `OneGridPerPlan`, `FreshWindowNotReread`, `AgeBounded` |

Where a run lists no type invariant, one of its invariants includes it: `PoolSound`,
`PublishedVerified` and `MarksSound` do, the last also for `web_session`'s variables.

**Bounds.**  Each conflict in `UserData` is between two requests, or one request
and a purge, over one account, key or route; two requests, three identifiers and
one fault contain all of these, and the proofs remove the bound.  In
`RouteSearch` two workers and three candidates make a worker claim a second
candidate while the other is still in its first; twelve GETs are enough for
three candidates of three legs and not for a retry of each, so that the budget
runs out in some executions; two stops give five legs, so that the budget also
limits the number of candidates.  In `WebSession` three operations are one
holder of an old token, one that renews and one that erases.  In `Backup` the
bounds were also raised to five names and three faults with the same result.  In
`Quota` three clients on a map of two make the map full both of running windows
and of windows that are over; windows of two and three ticks, with a second of two,
make Retry-After round, and the clock passes each window's end.  In `SceneryGrid` the
third plan displaces the oldest entry of a map of two, and the third window the
least recently used of a cache of two; the clock reaches the end of an entry of the map (one
tick) and of the cache (two).  With a bucket it reaches the sum of the times to live of cache and
bucket (two and one), the first time at which a grid in the bucket could be older than
`AgeBounded` allows: it takes two plans, one that fills the cache and one that copies from it
late, and the mutant that computes the expiry when it writes is found there.  In `Server`
two processes are enough to meet in one file and on one port, and the third start is the one
after a failure; the silent connection is what holds a shutdown up, the other meets
every await; the proofs remove these bounds.  In `PlanView` two searches are an old and a new
one; two operations are a save and what follows or overtakes it: another save, a removal, an
erasure or a reload.  Three operations were checked too, with one route per search.
In `Recommendation` a neighbourhood of radius one is cut off at every edge of a grid of two
columns; four cells vary over the classes without data, green, green and water, and built-up;
three routes are the fewest of which one clashes with a second that clashes with a
third.  Limits of a selection run up to the number of routes.  The overlap of two routes
depends on their order only if both have equally many samples; one pair varies in both
directions.  `ChoicesAreBest` removes these bounds.

**Fairness.**  `UserData`: the purge runs again and again with the current clock,
because the timer of `main.ts` repeats hourly, the restart purges before it serves and
the cron trigger recurs; failures are bounded in number.  `RouteSearch`: progress
of one process, whose waits are all bounded by timers (attempt time-out, retry
delay, soft waits).  `WebSession`: requests are answered or fail, and the event
loop runs continuations; the user is not fair.  `PlanView`: the same; searches may stay
unanswered.  `Server`: the event loop runs continuations, expired timers and closed
sockets; clients, the proxied service and operators owe nothing.  That an abandoned plan
notices (`PlanNotices`) rests on `PlanEnds` of `RouteSearch`.  `Backup`: the process runs, the
scheduler's loop waits a bounded time, time passes, and an operator restores a
damaged database; manual commands are finitely many.

## What is proved

`UserDataProofs` proves, for every number of requests, keys, times, identifiers
and faults and for both stores:

* `TypeCorrect`, `Integrity`, `KeyUniqueness`: the invariants `TypeOK`,
  `ReferentialIntegrity` and `OneRoutePerKey`;
* `Erasure`, `LiveDataIsKept` and `RetriesReturnOriginal`: the action properties
  `ErasedStaysErased`, `LiveDataKeptWithAccount` and `RetryReturnsOriginal`.

Assumed are only `ConstantsAssumption` and the model.  The invariants are not
inductive alone.  An insert of a report after an await uses a route identifier and
an expiry read before it: `RequestsSound` says that such values still describe the
row of that identifier if there is one, which needs identifiers to be unique and
below the last one drawn (`IdsUnique`), so that a deleted row's identifier never
returns with another owner or expiry.  `IInv` is their conjunction with the three
invariants; theorem `Invariant` proves it.  To keep the proof short every step is
first classified by what it does to the tables (`TableStep`: nothing, a new
session, a new route, a new report, a deletion with its cascade), and each conjunct
is preserved per class.  The action properties follow from `IInv` and the same
classification, with `RemovalReach` (what a cascade can reach) and
`ExpiryRemoval` (a deletion by expiry reaches no live row of an account that stays, because a
report expires with its route).  `LiveDataKeptWithAccount` allows more than its name may
suggest: a route does not expire with its session, so it may go unexpired with its account.  What
has to be shown is that the account had to go, by its owner's request or because no session of
it was live; `RemovalIsDue` concludes that from the first conjunct, by which no live
session goes unasked.

`RetriesReturnOriginal` needs more, as a save carries the row that its key named when it
arrived (`original`) through up to three awaits, in which that row may expire, be purged or
be deleted.  `RetriesSound` says that the row, while it exists, is still that of the save's
user and key, and that it has expired once the save goes on to delete or to insert: so
a save that is answered with the original had it before it, and one that inserts has none.

`FixedWindowProofs` proves `Bounded`: whatever implements `FixedWindow` admits at
most twice its limit in an interval of a window's length.  The invariant says
that a window holds at most its limit (among any `Limit + 1` successive
admissions two are of different windows) and that windows do not overlap.

`QuotaProofs` proves `TypeCorrect`, `Implementation` (`Quota` implements
`FixedWindow`), and from the two `Rate`; then `Justified` and `Honoured`.  The
link between the code's counters and the history is `LogSound`: a window in the
map is the window of its client's last admission and its count is how many
admissions that window has in the log; when a client has no entry the window of its
last admission is over, because pruning removes nothing else.
`Stamped` (no admission is later than the clock) and `RefusalSound` (while a
client's window runs, its last refusal named no time before the window's end) serve
the last two.

`SceneryGridProofs` proves `TypeCorrect`, `Isolation`, `Age`, `FreshWindowsAreKept` and
`OneGridEach`, the first three from the invariant of theorem `Inductive`, with and without a bucket and for any plans, ids,
windows, limits and times to live.  Its first part is about maps that know their order:
keeping some entries numbers them again without gaps or repetition (`Ranks`,
`KeptOrdered`), so that `Newest` keeps at most as many as it says (`NewestBounded`,
by an injection of the entries into an interval of places).  The invariant adds to the types
that a call awaits only reads begun under its own request id (`SameId`), that a read ended by
an abort belongs to a plan that was aborted, that a cached grid expires no later
than its age allows, and that an object about to be put, or put, expires at most
both times to live after its tiles were read.

`FreshWindowsAreKept` and `OneGridEach` relate these maps to the histories, and
need one more invariant each.  `UseSound`: the windows behind one in the order were used after
it, and a window that the cache lacks, though its grid is fresh, has seen as many others used
as the cache holds.  A window that gives way to another has the lowest place of a full cache
(`FillUse`), so all the others are in its history, and they are as many as the limit.
`EntriesSound`: the entry of a plan between its two calls is in the map with no more newer ones
than its history counts, or they are as many as the map holds, or it is too old.  It
rests on the order of the map (`KeptOrder`: removing entries never reorders the others), on
`EvictedEntry` (what gives way has all the others after it), and on the fact that a plan whose
id is its own finds no entry when it begins (`OwnIdIsNew`) and is the only one to give its entry
up, which it does after its analysis (`ContinueEntry`).

`BackupProofs` proves `PublishedIsVerified`, `BackupIsKept` and `PublishedIsKept`, for any
processes, directory sizes and faults.  `BackupInv` says that running backups have names of
their own which the metadata do not name, what a run has established by each of its awaits
(`Known`), and, unless overlap or a failure excuses it, that a run is alone, that what it is
about to remove are older backups, and that another backup remains should it fail before it could
publish (`AloneInv`).  A name not yet taken exists by the least-number principle
(`LeastName`).

`PlanViewProofs` proves `SavedAtMostOnce`, `ReportedIsHeld` and `CreationIsShared` of
`WebSession`, for any finite sets of tabs and operations and any bounds, and of `PlanView`
that its steps are steps of `WebSession` (`ViewImplementsSession`: initial states and steps;
that its fairness implies the other needs `ENABLED`) and `MarksAreSound`, for any number of
searches and routes.

* `SessionInv`: a row belongs to the account whose token its save was sent with, and that save
  has been answered or lost, so that it is not sent again; a refusal says truly that an account
  is gone; the user that a creation was issued is known to nobody else before it is stored; and
  without overlap the operation in flight has the token that is stored.  `HeldUnlessOverlapped`
  follows from the last, `SavedOnce` from the first.
* `CountInv` bounds the sessions created: `lastUser` alone is not inductive, as tabs that may
  each create one at once (`Due`) and tabs about to store one that has ended already
  (`Late`) have to be counted before they do.  A repeated or forgetful operation, an
  end and a loss each let every tab create once more.
* `ViewInv` adds the view: the routes shown are those of the last search, saves in flight are of
  different routes, and, as long as no message was lost, each row under the stored session
  whose route is on the screen is marked or its save is still in flight (`RecordsInv`); while no
  operations overlap a listing in flight finds nothing marked (`ListInv`).

`ServerProofs` proves `ServerTypes`, `UpgradesAreSafe`, `ClosedStoreIsUnseen` and
`AnswersAreDocumented`, for any number of processes, starts and connections.  The invariant is
a conjunction of four.  `MigrationInv` says who is in a transaction, that
what is about to be committed fits the file, and that without a race at most one
process has version 1 pending, on an empty file; `UpgradeSafe` alone is not inductive, as it
does not say which migrations a waiting process will run.  `RequestsInv` says of
each request what its own path makes possible (`Sound`: a status is a documented one, `late`
needs a connection that is gone, a pc belongs to its operations).  `ProcessesInv` has the
types, and `ServesInv` is the link between connections and stores: a connected
client's process is listening or closing, and such a process has its store open.  Steps of one
request are proved once for the operators they are built from, then for all of them.

`RouteSearchProofs` proves `PoolIsSound`, `CompleteResultIsComplete`, `FailureIsJustified`,
`AbandonedPlanIsSilent`, `AbortIsReported` and `LegsAreAffordable`, for any numbers of
candidates, workers, attempts and GETs.  `PoolSound` alone is not inductive: that no candidate is lost needs an account of
each (`PoolInv`: routed, or the one job of one worker, or not yet claimed, and then no worker has
written its result and some worker is left to claim it).  `TasksInv` says what a call may have
ended with, and that only an aborted plan's ends as aborted; `StageInv` says what each stage has
running and has found, among it that a plan whose warnings do not tell of a failed candidate
has none, and that one whose warnings do not tell of missing anchors has had them; on both
`CompleteIsComplete` rests.  A step of a provider call is proved once
(`CallStep`, `CallKeeps`); so is a plan that settles early (`SettledEarly`).  For
`LegsAreAffordable` a second invariant, `BudgetInv`, bounds what the plan still owes by what is
left of the budget as long as no leg was retried.  Workers send in any order, so the
debt is a sum over all of them; as the set `Owed` of pairs of a candidate and a leg it needs none:
the pool begins with a product (`CandidatesAffordable`), a GET takes one pair and one unit away
(`BudgetStep`, `CallKeepsBudget`), a worker that claims a candidate takes its pairs over
(`WorkerKeepsBudget`), and a leg refused would be a pair left when nothing may be.

Its second part is about the algorithms, for every input.  `CountNearIsExact` and
`HasValueNearIsExact`: the table's recursion has the counts of cells above and to the left as
a solution (`RowCounts`, `CornerCounts`) and no other, by the least cell at which two solutions
could differ (`UpTo`, from well-foundedness of the naturals); the count of a window is then
inclusion and exclusion of four corners.  `SelectionIsMaximal`: sorting by a strict order
enumerates its set (`SortedEnumerates`: ranks differ, and an injection into as many places is onto
them); a pass over the ranking keeps the invariant `SoFar`, which accounts for every route seen
so far (`ExtendedSoFar`, `ChosenSoFar`); and what the first pass kept is clean for the
second, as near duplicates overlap.  It assumes that routes have ids of their own, integers for
metrics, and `maxOverlap` at most 98 per cent.  `AnchorsAreBest` uses `SoFar` again, which says
of each anchor left out what is in its way.  It needs that anchors are compared by an order:
their scores are fractions with the size of a neighbourhood, cut off at the edges, as denominator,
so that transitivity is a lemma about products (`FractionsOrdered`, `AnchorsRanked`).
`FirstRouteIsBest`: what is first in the ranking stays first through both passes
(`FirstIsChosen`, `FirstStays`), and a route that is nowhere known to be worse scores no less
(`ScoreIsMonotone`), which is about missing shares, which count as the worst, the clamping of the
fit to the distance, and the built-up share, which counts against low traffic and again by
itself.  Both assume weights that are natural
numbers, and shares in per cent or unknown.  `ChoicesAreBest` puts the three
together: the property `ChoicesBest` of the run, for all such inputs and any distance asked for.

Model-checked only: liveness (`ExpiredDataErased`, `PlanEnds`, `OperationsEnd`,
`PublishesAgain`, `ShutdownEnds`) and that fairness of `PlanView` is fairness of
`WebSession`, which are out of the prover's reach; the sampling of a route, the part of
`FeaturesExact` that is not about windows; and the three violations below.

## Findings

1. **A resubmitted key can be answered 500** (`service.ts:641-667`).  Two saves with one
   key that overlap both find nothing; the second insert violates the unique index.
   `docs/SERVER_API.md:113-114` says the original is returned.  No second row
   appears, which `OneRoutePerKey` confirms.  The run exhibits it on D1.
2. **A late 401 can orphan a saved route** (`userDataApi.ts:61`).  Two operations sent
   with one ended token: the first renews the session and reports its route as
   saved; the 401 of the second clears that newer session.  Delete-all then finds
   no session, sends nothing and reports success, while the route stays on the
   server until it expires.  `App.tsx:590` promises that everything is deleted.
3. **Expired backups go before the metadata is written** (`databaseBackup.ts:228-234`),
   although `docs/OPERATIONS.md:15-16` lists the steps the other way round.  When the
   write fails, the catch removes the new backup too: if the others had expired
   none is left.  `BackupKept` excuses this case.  It excuses overlapping runs as
   well: each can find an entry of its listing removed by the other, fail, and
   remove its own backup.

## Observed beside the runs

Behaviour that the models contain and no property speaks against, or that lies just outside
of them:

* A saved route's expiry is not capped by its session's (`service.ts:664`); a session lasts
  thirty days and is never renewed.  The purge of an expired session therefore removes, by
  the foreign keys' cascade, routes and reports that have not expired.  The run
  contains it (a session of two ticks, a route of three); `LiveDataKeptWithAccount` allows it, as
  nobody could read the routes any more.
* Two processes that both find a new file empty can leave it at version 1 with the column of
  version 2: no later start succeeds (`sqliteStore.ts:82-93`).  `UpgradeSafe` excuses
  it; the deployment starts one process.
* A saved route's or report's body that is too large, of another type or not JSON is answered
  500, not the 413 and 415 the OpenAPI document has for it, which also has 500
  (`handler.ts:660-684`).
* Each click on save has an idempotency key of its own (`App.tsx:813`), so that a save whose
  answer was lost and that the user repeats makes two records; `OneRecordPerRoute` excuses it.
* The list requested when the page opens may replace one that a save has made newer;
  `MarkedIsListed` excuses operations that overlap.
* A misconfigured worker answers 503 also where the document names only 200.

## Not modelled

* The mapping of AMap's payloads, coordinate conversion, bounds and dimensions of grids and the
  reading of GeoTIFFs: stateless floating-point code, whose outcomes are inputs.
* Checks of one field after another in requests and stored routes: outcomes `sound`
  and `invalid`.  The listing of saved routes: it reads only.
* Differences between the clocks of browser and server (`App.tsx:62` compares the session's expiry
  with the browser's), and preference weights below one, with which `ScenicScore` would
  need fractions.
* Directional candidates' geometry, `routeOverlapRatio`, reasons and warnings.
* The form apart from its consent box, place suggestions, geolocation, the delivery panel, export formats, legal pages,
  styles and layout.
* Logging and the text of metrics; the worker's routing and assets; operator scripts, which
  run one command after another.

## What could come next

1. `UserLedger`: an abstract specification of the user data (a set of routes per
   account, operations atomic), which `UserData` implements under a mapping that hides
   expired rows.
2. Proofs: the sampling of a route in `FeaturesExact`; the refinement of `UserLedger`.
3. The form's start point against a late geolocation.
