------------------------------ MODULE UserData ------------------------------
(***************************************************************************)
(* Anonymous user data: the handler's /session, /saved-routes and feedback *)
(* endpoints, UserDataService and its two stores, SQLite (Node) and D1     *)
(* (Workers).  A request is a process; one action is one store statement   *)
(* together with the code that runs up to the next await.  SQLite runs a   *)
(* store method synchronously; D1 awaits every statement, so a D1 statement*)
(* may carry a clock value read any time since the request's last step.    *)
(***************************************************************************)
EXTENDS Integers, FiniteSets

CONSTANTS
    Requests,    \* requests the server works on at the same time
    Keys,        \* Idempotency-Key headers of the saves
    NoKey,       \* a save without that header
    SessionTtl,  \* life of a session
    PolicyTtls,  \* expiresAfterSeconds of the delivery policies; 0 is "denied"
    MaxTime,     \* bound: the clock stops here
    MaxIds,      \* bound: UUIDs ever drawn, for users and routes together
    MaxFaults    \* bound: crashes and failing statements

ASSUME ConstantsAssumption ==
    /\ SessionTtl \in Nat \ {0}
    /\ PolicyTtls \subseteq Nat
    /\ {MaxTime, MaxIds, MaxFaults} \subseteq Nat

VARIABLES
    store,          \* which UserDataStore the process was composed with
    now,            \* Date.now()
    tokens,         \* signed tokens handed out: user and expiry
    user_sessions,  \* table: user -> expires_at
    saved_routes,   \* table: id, user_id, idempotency_key, expires_at
    field_reports,  \* table: saved_route_id, user_id, expires_at
    lastUser,       \* randomUUID() for users: never repeats
    lastRoute,      \* randomUUID() for routes: never repeats
    request,        \* the requests being handled
    reply,          \* the answer this step sent, NoReply when it sent none
    serving,        \* the process is past its start-up purge
    faults          \* crashes and failures so far

tables  == <<user_sessions, saved_routes, field_reports>>
minted  == <<tokens, lastUser, lastRoute>>
process == <<serving, faults>>
vars    == <<store, now, tables, minted, request, reply, process>>

Ops  == {"none", "issue", "delete", "erase", "save", "report"}

NoRequest == [pc |-> "done", op |-> "none", user |-> 0, key |-> NoKey, ttl |-> 0,
              route |-> 0, since |-> 0, at |-> 0, original |-> 0]

NoReply == [status |-> 0, route |-> 0]

Session == [user : Nat, expiresAt : Nat]
Route   == [id : Nat, user : Nat, key : Keys \cup {NoKey}, expiresAt : Nat]
Report  == [route : Nat, user : Nat, expiresAt : Nat]
Request == [pc : {"done", "auth", "serve", "expire", "insert"}, op : Ops,
            user : Nat, key : Keys \cup {NoKey}, ttl : Nat, route : Nat,
            since : Nat, at : Nat, original : Nat]
Reply   == [status : {0, 200, 201, 400, 401, 403, 404, 500}, route : Nat]

(***************************************************************************)
(* The type invariant: every row and every request record is well formed.  *)
(***************************************************************************)
TypeOK ==
    /\ store \in {"sqlite", "d1"}
    /\ {now, lastUser, lastRoute, faults} \subseteq Nat
    /\ tokens \subseteq Session
    /\ user_sessions \subseteq Session
    /\ saved_routes \subseteq Route
    /\ field_reports \subseteq Report
    /\ request \in [Requests -> Request]
    /\ reply \in Reply
    /\ serving \in BOOLEAN

Init ==
    /\ store \in {"sqlite", "d1"}
    /\ now = 0
    /\ tokens = {} /\ user_sessions = {} /\ saved_routes = {} /\ field_reports = {}
    /\ lastUser = 0 /\ lastRoute = 0
    /\ request = [r \in Requests |-> NoRequest]
    /\ reply = NoReply
    /\ serving = (store = "d1")
    /\ faults = 0

-----------------------------------------------------------------------------
(* Statements. *)

\* Clock values a statement of request r can carry when it executes.
StatementTimes(r) == IF store = "sqlite" THEN {now} ELSE request[r].since .. now

\* The last moment before which such a clock value cannot have been read.
Since == IF store = "sqlite" THEN 0 ELSE now

Live(rows, t) == {x \in rows : x.expiresAt > t}
OwnedBy(rows, sessions) == {x \in rows : \E s \in sessions : s.user = x.user}
FiledOn(reports, routes) == {f \in reports : \E x \in routes : x.id = f.route}

\* The tables after a DELETE, the foreign keys' ON DELETE CASCADE included.
Delete(sessions, routes, reports) ==
    LET kept == OwnedBy(routes, sessions)
    IN  /\ user_sessions' = sessions
        /\ saved_routes' = kept
        /\ field_reports' = FiledOn(OwnedBy(reports, sessions), kept)

DeleteRoutes(rows) == Delete(user_sessions, saved_routes \ rows, field_reports)

RouteOfAnyUser(id, user) ==  \* mutant: WHERE user_id = ? is missing
    {x \in saved_routes : x.id = id}

RouteOf(id, user) == {x \in saved_routes : x.id = id /\ x.user = user}
RouteWithKey(user, key) ==
    IF key = NoKey THEN {} ELSE {x \in saved_routes : x.user = user /\ x.key = key}

HasSession(user, t) == \E s \in Live(user_sessions, t) : s.user = user
VerifyToken(user, t) == \E k \in Live(tokens, t) : k.user = user

Answer(r, status, id) ==
    /\ request' = [request EXCEPT ![r] = NoRequest]
    /\ reply' = [status |-> status, route |-> id]

\* The request awaits its next statement, carrying a value over the await.
Await(r, pc, id, value) ==
    /\ request' = [request EXCEPT ![r] =
          [@ EXCEPT !.pc = pc, !.route = id, !.since = Since, !.at = value]]
    /\ reply' = NoReply

-----------------------------------------------------------------------------
(* Requests arrive.  The bound on identifiers counts the requests that may     *)
(* still draw one. *)

IdsLeft ==
    lastUser + lastRoute
        + Cardinality({r \in Requests : request[r].op \in {"issue", "save"}}) < MaxIds

\* A request as it reaches the handler.
Incoming(pc, op, user, id) ==
    [pc |-> pc, op |-> op, user |-> user, key |-> NoKey, ttl |-> 0, route |-> id,
     since |-> Since, at |-> 0, original |-> 0]

\* A save; "original" is history: the row its key already names, 0 for none.
IncomingSave(user, key, ttl) ==
    LET rows == RouteWithKey(user, key)
    IN  [pc |-> "auth", op |-> "save", user |-> user, key |-> key, ttl |-> ttl,
         route |-> 0, since |-> Since, at |-> 0,
         original |-> IF rows = {} THEN 0 ELSE (CHOOSE x \in rows : TRUE).id]

Arrive(r, q) ==
    /\ serving
    /\ request[r].pc = "done"
    /\ request' = [request EXCEPT ![r] = q]
    /\ reply' = NoReply
    /\ UNCHANGED <<store, now, tables, minted, process>>

ReceiveIssue(r) ==
    /\ IdsLeft
    /\ Arrive(r, Incoming("serve", "issue", 0, 0))

ReceiveSave(r) ==
    /\ IdsLeft
    /\ \E u \in 1 .. lastUser, key \in Keys, ttl \in PolicyTtls :
         Arrive(r, IncomingSave(u, key, ttl))

\* Any client may name any route, another user's too.
ReceiveOnRoute(r) ==
    \E u \in 1 .. lastUser, op \in {"delete", "report"}, id \in 1 .. lastRoute :
        Arrive(r, Incoming("auth", op, u, id))

ReceiveErase(r) ==
    \E u \in 1 .. lastUser : Arrive(r, Incoming("auth", "erase", u, 0))

Receive(r) ==
    ReceiveIssue(r) \/ ReceiveSave(r) \/ ReceiveOnRoute(r) \/ ReceiveErase(r)

Serving(r, pc, op) == request[r].pc = pc /\ request[r].op = op

-----------------------------------------------------------------------------
(* UserDataService and the store methods it awaits. *)

ExpiresBefore(t, ttl) == t - ttl  \* mutant: the sign of the ttl is lost

ExpiresAt(t, ttl) == t + ttl

IssueSession(r) ==
    /\ Serving(r, "serve", "issue")
    /\ \E t \in StatementTimes(r) :
         LET session == [user |-> lastUser + 1, expiresAt |-> ExpiresAt(t, SessionTtl)]
         IN  /\ tokens' = tokens \cup {session}
             /\ user_sessions' = user_sessions \cup {session}
    /\ lastUser' = lastUser + 1
    /\ Answer(r, 201, 0)
    /\ UNCHANGED <<store, now, saved_routes, field_reports, lastRoute, process>>

Authenticate(r) ==
    LET q == request[r] IN
    /\ q.pc = "auth"
    /\ \E t \in StatementTimes(r) :
         IF VerifyToken(q.user, t) /\ HasSession(q.user, t)
         THEN Await(r, "serve", q.route, 0)
         ELSE Answer(r, 401, 0)
    /\ UNCHANGED <<store, now, tables, minted, process>>

\* A body that fails validation (400) or a provider that may not be persisted.
RejectSave(r) ==
    /\ Serving(r, "serve", "save")
    /\ Answer(r, IF request[r].ttl = 0 THEN 403 ELSE 400, 0)
    /\ UNCHANGED <<store, now, tables, minted, process>>

FindWithoutReplay(r) ==  \* mutant: the row found is not returned
    LET q == request[r] IN
    /\ Serving(r, "serve", "save")
    /\ q.ttl > 0 /\ q.key # NoKey
    /\ \E t \in StatementTimes(r) : Await(r, "insert", 0, t)
    /\ UNCHANGED <<store, now, tables, minted, process>>

\* The row found is live: answer it.  Expired: delete it, at once in SQLite, by a
\* second statement in D1.  None: insert.
FindSavedRouteByIdempotencyKey(r) ==
    LET q == request[r]
        rows == RouteWithKey(q.user, q.key) IN
    /\ Serving(r, "serve", "save")
    /\ q.ttl > 0 /\ q.key # NoKey
    /\ \E t \in StatementTimes(r) :
         \/ \E x \in Live(rows, t) : Answer(r, 201, x.id) /\ UNCHANGED tables
         \/ /\ rows = {}
            /\ Await(r, "insert", 0, t) /\ UNCHANGED tables
         \/ \E x \in rows \ Live(rows, t) :
              IF store = "sqlite"
              THEN Await(r, "insert", 0, t) /\ DeleteRoutes({x})
              ELSE Await(r, "expire", x.id, t) /\ UNCHANGED tables
    /\ UNCHANGED <<store, now, minted, process>>

DeleteExpiredRow(r) ==
    LET q == request[r] IN
    /\ Serving(r, "expire", "save")
    /\ DeleteRoutes(RouteOf(q.route, q.user))
    /\ Await(r, "insert", 0, q.at)
    /\ UNCHANGED <<store, now, minted, process>>

\* The foreign key and the unique index of saved_routes.
AcceptedWithoutUniqueIndex(q) ==  \* mutant: schema version 1
    \E s \in user_sessions : s.user = q.user

AcceptedWithoutForeignKey(q) ==  \* mutant: enableForeignKeyConstraints is off
    RouteWithKey(q.user, q.key) = {}

RouteAccepted(q) ==
    /\ \E s \in user_sessions : s.user = q.user
    /\ RouteWithKey(q.user, q.key) = {}

\* INSERT INTO saved_routes; a constraint error reaches the handler, which answers 500.
InsertRoute(r, t) ==
    LET q == request[r]
        row == [id |-> lastRoute + 1, user |-> q.user, key |-> q.key,
                expiresAt |-> ExpiresAt(t, q.ttl)]
    IN  /\ lastRoute' = lastRoute + 1
        /\ IF RouteAccepted(q)
           THEN saved_routes' = saved_routes \cup {row} /\ Answer(r, 201, row.id)
           ELSE saved_routes' = saved_routes /\ Answer(r, 500, 0)
        /\ UNCHANGED <<store, now, user_sessions, field_reports, tokens, lastUser, process>>

SaveRoute(r) ==
    \/ Serving(r, "insert", "save") /\ InsertRoute(r, request[r].at)
    \/ /\ Serving(r, "serve", "save") /\ request[r].ttl > 0 /\ request[r].key = NoKey
       /\ \E t \in StatementTimes(r) : InsertRoute(r, t)

DeleteSavedRoute(r) ==
    LET rows == RouteOf(request[r].route, request[r].user) IN
    /\ Serving(r, "serve", "delete")
    /\ DeleteRoutes(rows)
    /\ Answer(r, IF rows = {} THEN 404 ELSE 200, 0)
    /\ UNCHANGED <<store, now, minted, process>>

DeleteAllUserData(r) ==
    LET mine == {s \in user_sessions : s.user = request[r].user} IN
    /\ Serving(r, "serve", "erase")
    /\ Delete(user_sessions \ mine, saved_routes, field_reports)
    /\ Answer(r, IF mine = {} THEN 401 ELSE 200, 0)
    /\ UNCHANGED <<store, now, minted, process>>

\* getSavedRoute, then the validation of rating and note.
GetSavedRoute(r) ==
    LET q == request[r] IN
    /\ Serving(r, "serve", "report")
    /\ \E t \in StatementTimes(r) :
         LET rows == Live(RouteOf(q.route, q.user), t)
         IN  IF rows = {} THEN Answer(r, 404, 0)
             ELSE \/ Answer(r, 400, 0)
                  \/ \E x \in rows : Await(r, "insert", x.id, x.expiresAt)
    /\ UNCHANGED <<store, now, tables, minted, process>>

AddFieldReport(r) ==
    LET q == request[r]
        row == [route |-> q.route, user |-> q.user, expiresAt |-> q.at]
        accepted == /\ \E s \in user_sessions : s.user = q.user
                    /\ \E x \in saved_routes : x.id = q.route
    IN  /\ Serving(r, "insert", "report")
        /\ IF accepted
           THEN field_reports' = field_reports \cup {row} /\ Answer(r, 201, q.route)
           ELSE field_reports' = field_reports /\ Answer(r, 500, 0)
        /\ UNCHANGED <<store, now, user_sessions, saved_routes, minted, process>>

Step(r) ==
    \/ IssueSession(r) \/ Authenticate(r) \/ RejectSave(r)
    \/ FindSavedRouteByIdempotencyKey(r) \/ DeleteExpiredRow(r) \/ SaveRoute(r)
    \/ DeleteSavedRoute(r) \/ DeleteAllUserData(r)
    \/ GetSavedRoute(r) \/ AddFieldReport(r)

-----------------------------------------------------------------------------
(* Expiry. *)

PurgeTablesBefore(t, n) ==  \* mutant: expires_at < ?, as if now were excluded
    Delete(IF n >= 3 THEN Live(user_sessions, t - 1) ELSE user_sessions,
           IF n >= 2 THEN Live(saved_routes, t - 1) ELSE saved_routes,
           IF n >= 1 THEN Live(field_reports, t - 1) ELSE field_reports)

\* The tables after the first n of the purge's three DELETE statements.
PurgeTables(t, n) ==
    Delete(IF n >= 3 THEN Live(user_sessions, t) ELSE user_sessions,
           IF n >= 2 THEN Live(saved_routes, t) ELSE saved_routes,
           IF n >= 1 THEN Live(field_reports, t) ELSE field_reports)

\* Node: at start-up and hourly, three statements without an await in between.
\* Workers: the cron handler reads the clock and sends a batch, one transaction,
\* that D1 may run later.
PurgeUpTo(t) ==
    /\ PurgeTables(t, 3)
    /\ serving' = TRUE
    /\ reply' = NoReply
    /\ UNCHANGED <<store, now, minted, request, faults>>

PurgeExpired == \E t \in IF store = "sqlite" THEN {now} ELSE 0 .. now : PurgeUpTo(t)

-----------------------------------------------------------------------------
(* Faults and time. *)

Fault == faults < MaxFaults /\ faults' = faults + 1

\* A statement throws: the handler answers 500 and the request ends.
StatementFails(r) ==
    /\ Fault
    /\ request[r].pc # "done"
    /\ Answer(r, 500, 0)
    /\ UNCHANGED <<store, now, tables, minted, serving>>

\* The process dies: requests and a pending purge are gone, what was written stays.
\* SQLite may have run a part of a purge.
Crash ==
    /\ Fault
    /\ \/ UNCHANGED tables
       \/ store = "sqlite" /\ \E n \in 1 .. 2 : PurgeTables(now, n)
    /\ request' = [r \in Requests |-> NoRequest]
    /\ serving' = (store = "d1")
    /\ reply' = NoReply
    /\ UNCHANGED <<store, now, minted>>

\* The hourly purge throws after n statements: logged, the process goes on.
PurgeFails ==
    /\ Fault
    /\ store = "sqlite" /\ serving
    /\ \E n \in 1 .. 2 : PurgeTables(now, n)
    /\ reply' = NoReply
    /\ UNCHANGED <<store, now, minted, request, serving>>

Tick ==
    /\ now < MaxTime
    /\ now' = now + 1
    /\ reply' = NoReply
    /\ UNCHANGED <<store, tables, minted, request, process>>

Next ==
    \/ \E r \in Requests : Receive(r) \/ Step(r) \/ StatementFails(r)
    \/ PurgeExpired \/ Crash \/ PurgeFails \/ Tick

\* The hourly timer and the cron trigger recur, and read the current clock.
Fairness == WF_vars(PurgeUpTo(now))

Spec == Init /\ [][Next]_vars /\ Fairness
-----------------------------------------------------------------------------
(* Properties. *)

\* Every saved route belongs to an account that exists, and every field report to
\* an existing route of the same user, with that route's expiry (the privacy rule
\* that feedback lives no longer than the saved route).  No foreign key enforces
\* the last part: it rests on addFieldReport reading the route, awaiting, and the
\* row it then refers to still being the one it read.
ReferentialIntegrity ==
    /\ \A x \in saved_routes : \E s \in user_sessions : s.user = x.user
    /\ \A f \in field_reports : \E x \in saved_routes :
          x.id = f.route /\ x.user = f.user /\ x.expiresAt = f.expiresAt

\* However saves, retries and expiry interleave, a user has one row per
\* idempotency key.
OneRoutePerKey ==
    \A x, y \in saved_routes :
        x.user = y.user /\ x.key = y.key /\ x.key # NoKey => x = y

\* A token outlives the account it was issued for (it is only signed, never
\* revoked), but once the session row is gone, erased or expired, no request that
\* still holds the token brings the account, a route or a report of it back.
ErasedStaysErased ==
    [][\A k \in tokens :
        (\A s \in user_sessions : s.user # k.user) =>
            \A y \in user_sessions' \cup saved_routes' \cup field_reports' :
                y.user # k.user]_vars

\* Unexpired data stays as long as its account.  A live session goes only by its
\* owner's DELETE /session; a live route or report goes with the account, which that
\* request ended or whose own time had passed, or else by its owner's DELETE of that
\* route.  A route's expiry is not capped by its session's (saveRoute), so the purge of
\* an expired session does take live routes along; no purge or clean-up of an expired
\* row, crash or request of another user takes any from an account that stays.
ErasedBy(u) == \E r \in Requests : Serving(r, "serve", "erase") /\ request[r].user = u
DeletedBy(u, id) == \E r \in Requests :
    Serving(r, "serve", "delete") /\ request[r].user = u /\ request[r].route = id
AccountEnds(u) ==
    /\ \A s \in user_sessions' : s.user # u
    /\ ErasedBy(u) \/ ~ HasSession(u, now)

DueRemoval ==
    /\ \A s \in Live(user_sessions, now) \ user_sessions' : ErasedBy(s.user)
    /\ \A x \in Live(saved_routes, now) \ saved_routes' :
          AccountEnds(x.user) \/ DeletedBy(x.user, x.id)
    /\ \A f \in Live(field_reports, now) \ field_reports' :
          AccountEnds(f.user) \/ DeletedBy(f.user, f.route)

LiveDataKeptWithAccount == [][DueRemoval]_vars

\* A save that arrives when its key already names a route, the retry of a save
\* whose answer was lost say, is answered with that route if it is still live, and
\* with no other status than the 4xx of a lost session or a bad body.
RetryReturnsOriginal ==
    [][\A r \in Requests :
        LET q == request[r]
        IN  /\ q.op = "save" /\ request'[r].pc = "done" /\ reply'.status \in {201, 500}
            /\ \E x \in Live(saved_routes, now) : x.id = q.original
            /\ faults' = faults
            => reply' = [status |-> 201, route |-> q.original]]_vars

\* What the API document says of every resubmission of a key: "the original is
\* returned" (docs/SERVER_API.md).  Two saves that both looked the key up before
\* either inserted break it: the loser gets a constraint error, hence 500.  Stated
\* of D1, where each statement is a round trip that another request can overtake.
ResubmissionReturnsOriginal ==
    [][\A r \in Requests :
        LET q == request[r]
        IN  /\ store = "d1"
            /\ q.op = "save" /\ request'[r].pc = "done" /\ reply'.status \in {201, 500}
            /\ \E x \in Live(saved_routes, now) : x \in RouteWithKey(q.user, q.key)
            /\ faults' = faults
            => \E x \in RouteWithKey(q.user, q.key) :
                   reply' = [status |-> 201, route |-> x.id]]_vars

\* Data whose time has passed is physically erased, whatever crashes or failing
\* purges happen on the way: an expired route, and an account's session with all
\* that hangs off it.
ExpiredDataErased ==
    /\ \A id \in 1 .. MaxIds :
          (\E x \in saved_routes \ Live(saved_routes, now) : x.id = id)
              ~> (\A x \in saved_routes : x.id # id)
    /\ \A u \in 1 .. MaxIds :
          (\E s \in user_sessions \ Live(user_sessions, now) : s.user = u)
              ~> (\A y \in user_sessions \cup saved_routes \cup field_reports : y.user # u)
=============================================================================
