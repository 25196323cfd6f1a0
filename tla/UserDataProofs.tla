--------------------------- MODULE UserDataProofs ---------------------------
(***************************************************************************)
(* Theorems about UserData, for any number of requests, any keys, ttls and  *)
(* bounds, and for both stores.  Every step is first classified by what it  *)
(* does to the tables (TableStep); the invariants are then proved once per  *)
(* class instead of once per action.                                        *)
(***************************************************************************)
EXTENDS UserData, TLAPS

\* Identifiers come from counters, so a row is named by its id alone and no later
\* row can be mistaken for it.
IdsUnique ==
    /\ \A k \in tokens : k.user <= lastUser
    /\ \A x \in saved_routes : x.id <= lastRoute
    /\ \A x, y \in saved_routes : x.id = y.id => x = y

\* What a request carries over an await is still true of the row it names, if that
\* row is still there: a feedback's expiry and owner, an expired row's expiry.
CarriedSound(q) ==
    /\ q.route <= lastRoute
    /\ q.pc = "insert" /\ q.op = "report" =>
          \A x \in saved_routes : x.id = q.route => x.user = q.user /\ x.expiresAt = q.at
    /\ q.pc = "expire" =>
          \A x \in saved_routes : x.id = q.route => x.expiresAt <= now

RequestsSound == \A r \in Requests : CarriedSound(request[r])

IInv == TypeOK /\ IdsUnique /\ ReferentialIntegrity /\ OneRoutePerKey /\ RequestsSound

\* What a save remembers of the row that its key named when it arrived: while that row
\* exists it is the one of the save's user and key, and a save that goes on to delete or
\* to insert has found it expired.
Remembers(q) ==
    /\ q.original <= lastRoute
    /\ q.pc = "done" => q.op # "save"
    /\ q.op # "save" => q.original = 0
    /\ \A x \in saved_routes : x.id = q.original =>
          /\ q.key # NoKey /\ x.user = q.user /\ x.key = q.key
          /\ q.pc \in {"expire", "insert"} => x.expiresAt <= now

RetriesSound ==
    /\ \A x \in saved_routes : x.id # 0
    /\ \A r \in Requests : Remembers(request[r])

-----------------------------------------------------------------------------
(* What a step does to the tables. *)

Same == UNCHANGED <<tables, minted>>

Removal ==
    /\ \E S \in SUBSET user_sessions, R \in SUBSET saved_routes, F \in SUBSET field_reports :
          Delete(S, R, F)
    /\ UNCHANGED minted

NewSession ==
    \E e \in Nat :
        LET session == [user |-> lastUser + 1, expiresAt |-> e]
        IN  /\ tokens' = tokens \cup {session}
            /\ user_sessions' = user_sessions \cup {session}
            /\ lastUser' = lastUser + 1
            /\ UNCHANGED <<saved_routes, field_reports, lastRoute>>

NewRoute ==
    \E r \in Requests, e \in Nat :
        LET q == request[r]
            row == [id |-> lastRoute + 1, user |-> q.user, key |-> q.key, expiresAt |-> e]
        IN  /\ RouteAccepted(q)
            /\ saved_routes' = saved_routes \cup {row}
            /\ lastRoute' = lastRoute + 1
            /\ UNCHANGED <<user_sessions, field_reports, tokens, lastUser>>

RefusedRoute ==
    /\ lastRoute' = lastRoute + 1
    /\ UNCHANGED <<tables, tokens, lastUser>>

NewReport ==
    \E r \in Requests :
        LET q == request[r] IN
        /\ q.pc = "insert" /\ q.op = "report"
        /\ \E x \in saved_routes : x.id = q.route
        /\ field_reports' =
              field_reports \cup {[route |-> q.route, user |-> q.user, expiresAt |-> q.at]}
        /\ UNCHANGED <<user_sessions, saved_routes, minted>>

TableStep ==
    Same \/ Removal \/ NewSession \/ NewRoute \/ RefusedRoute \/ NewReport

-----------------------------------------------------------------------------
(* Lemmas. *)

\* A clock value a statement carries is a natural number, not later than now.
LEMMA StatementTimesNat ==
    ASSUME TypeOK, NEW r \in Requests, NEW t \in StatementTimes(r)
    PROVE  t \in Nat /\ t <= now
  BY DEF TypeOK, StatementTimes, Request

\* DELETE statements are removals.
LEMMA DeleteRoutesRemoves ==
    ASSUME NEW rows, DeleteRoutes(rows), UNCHANGED minted
    PROVE  Removal
  BY DEF DeleteRoutes, Removal

LEMMA PurgeTablesRemoves ==
    ASSUME NEW t, NEW n, PurgeTables(t, n), UNCHANGED minted
    PROVE  Removal
  <1> DEFINE S == IF n >= 3 THEN Live(user_sessions, t) ELSE user_sessions
             R == IF n >= 2 THEN Live(saved_routes, t) ELSE saved_routes
             F == IF n >= 1 THEN Live(field_reports, t) ELSE field_reports
  <1>1. S \in SUBSET user_sessions /\ R \in SUBSET saved_routes /\ F \in SUBSET field_reports
    BY DEF Live
  <1>2. Delete(S, R, F)
    BY DEF PurgeTables
  <1> HIDE DEF S, R, F
  <1>3. QED
    BY <1>1, <1>2 DEF Removal

\* An INSERT INTO saved_routes adds an accepted row or nothing.
LEMMA InsertRouteShape ==
    ASSUME TypeOK, NEW r \in Requests, NEW t \in Nat, InsertRoute(r, t)
    PROVE  NewRoute \/ RefusedRoute
  <1> DEFINE q == request[r]
             row == [id |-> lastRoute + 1, user |-> q.user, key |-> q.key,
                     expiresAt |-> ExpiresAt(t, q.ttl)]
  <1>1. ExpiresAt(t, q.ttl) \in Nat
    BY DEF ExpiresAt, TypeOK, Request
  <1>2. CASE RouteAccepted(q)
    <2>1. saved_routes' = saved_routes \cup {row}
      BY <1>2 DEF InsertRoute
    <2>2. QED
      BY <1>1, <1>2, <2>1 DEF InsertRoute, NewRoute
  <1>3. CASE ~ RouteAccepted(q)
    BY <1>3 DEF InsertRoute, RefusedRoute, tables
  <1>4. QED
    BY <1>2, <1>3

\* Every step of the system is of one of the classes.
LEMMA StepShape == TypeOK /\ [Next]_vars => TableStep
  <1> SUFFICES ASSUME TypeOK, [Next]_vars PROVE TableStep
    OBVIOUS
  <1>1. ASSUME NEW r \in Requests, Receive(r) PROVE TableStep
    BY <1>1 DEF Receive, ReceiveIssue, ReceiveSave, ReceiveOnRoute, ReceiveErase, Arrive,
                TableStep, Same, tables, minted
  <1>2. ASSUME NEW r \in Requests, Step(r) PROVE TableStep
    <2>1. CASE IssueSession(r)
      <3>1. PICK t \in StatementTimes(r) :
              LET session == [user |-> lastUser + 1, expiresAt |-> ExpiresAt(t, SessionTtl)]
              IN  /\ tokens' = tokens \cup {session}
                  /\ user_sessions' = user_sessions \cup {session}
        BY <2>1 DEF IssueSession
      <3>2. ExpiresAt(t, SessionTtl) \in Nat
        BY StatementTimesNat, ConstantsAssumption DEF ExpiresAt
      <3>3. QED
        BY <2>1, <3>1, <3>2 DEF IssueSession, NewSession, TableStep
    <2>2. CASE Authenticate(r) \/ RejectSave(r) \/ GetSavedRoute(r)
      BY <2>2 DEF Authenticate, RejectSave, GetSavedRoute, TableStep, Same
    <2>3. CASE FindSavedRouteByIdempotencyKey(r)
      <3>1. UNCHANGED minted
        BY <2>3 DEF FindSavedRouteByIdempotencyKey
      <3>2. UNCHANGED tables \/ \E rows : DeleteRoutes(rows)
        BY <2>3 DEF FindSavedRouteByIdempotencyKey
      <3>3. QED
        BY <3>1, <3>2, DeleteRoutesRemoves DEF TableStep, Same
    <2>4. CASE DeleteExpiredRow(r)
      BY <2>4, DeleteRoutesRemoves DEF DeleteExpiredRow, TableStep
    <2>5. CASE SaveRoute(r)
      <3>1. PICK t \in Nat : InsertRoute(r, t)
        BY <2>5, StatementTimesNat DEF SaveRoute, TypeOK, Request
      <3>2. QED
        BY <3>1, InsertRouteShape DEF TableStep
    <2>6. CASE DeleteSavedRoute(r)
      BY <2>6, DeleteRoutesRemoves DEF DeleteSavedRoute, TableStep
    <2>7. CASE DeleteAllUserData(r)
      <3>1. PICK S \in SUBSET user_sessions : Delete(S, saved_routes, field_reports)
        BY <2>7 DEF DeleteAllUserData
      <3>2. QED
        BY <2>7, <3>1 DEF DeleteAllUserData, Removal, TableStep
    <2>8. CASE AddFieldReport(r)
      BY <2>8 DEF AddFieldReport, Serving, TableStep, NewReport, Same, tables, minted
    <2>9. QED
      BY <1>2, <2>1, <2>2, <2>3, <2>4, <2>5, <2>6, <2>7, <2>8 DEF Step
  <1>3. ASSUME NEW r \in Requests, StatementFails(r) PROVE TableStep
    BY <1>3 DEF StatementFails, TableStep, Same
  <1>4. CASE PurgeExpired
    BY <1>4, PurgeTablesRemoves DEF PurgeExpired, PurgeUpTo, TableStep
  <1>5. CASE Crash
    BY <1>5, PurgeTablesRemoves DEF Crash, TableStep, Same
  <1>6. CASE PurgeFails
    BY <1>6, PurgeTablesRemoves DEF PurgeFails, TableStep
  <1>7. CASE Tick
    BY <1>7 DEF Tick, TableStep, Same
  <1>8. CASE UNCHANGED vars
    BY <1>8 DEF vars, TableStep, Same
  <1>9. QED
    BY <1>1, <1>2, <1>3, <1>4, <1>5, <1>6, <1>7, <1>8 DEF Next

-----------------------------------------------------------------------------
(* Types. *)

LEMMA InitType == Init => TypeOK
  BY ConstantsAssumption
  DEF Init, TypeOK, NoRequest, NoReply, Request, Reply, Ops, Session, Route, Report

\* The tables stay well typed, whatever the class of the step.
LEMMA TableTypes ==
    ASSUME TypeOK, TableStep
    PROVE  /\ tokens' \subseteq Session /\ user_sessions' \subseteq Session
           /\ saved_routes' \subseteq Route /\ field_reports' \subseteq Report
           /\ lastUser' \in Nat /\ lastRoute' \in Nat
           /\ lastRoute' >= lastRoute
           /\ \A x \in saved_routes' : x \in saved_routes \/ x.id = lastRoute + 1
  <1> USE DEF TypeOK
  <1>1. CASE Same
    BY <1>1 DEF Same, tables, minted
  <1>2. CASE Removal
    BY <1>2 DEF Removal, Delete, OwnedBy, FiledOn, minted
  <1>3. CASE NewSession
    BY <1>3 DEF NewSession, Session
  <1>4. CASE NewRoute
    <2>1. PICK r \in Requests, e \in Nat :
            saved_routes' = saved_routes \cup
               {[id |-> lastRoute + 1, user |-> request[r].user, key |-> request[r].key,
                 expiresAt |-> e]}
      BY <1>4 DEF NewRoute
    <2>2. request[r].user \in Nat /\ request[r].key \in Keys \cup {NoKey}
      BY DEF Request
    <2>3. QED
      BY <1>4, <2>1, <2>2 DEF NewRoute, Route
  <1>5. CASE RefusedRoute
    BY <1>5 DEF RefusedRoute, tables
  <1>6. CASE NewReport
    BY <1>6 DEF NewReport, Report, Request, minted
  <1>7. QED
    BY <1>1, <1>2, <1>3, <1>4, <1>5, <1>6 DEF TableStep

\* Answering and awaiting keep the requests and the reply well typed.
LEMMA AnswerTypes ==
    ASSUME TypeOK, NEW r \in Requests, NEW id \in Nat,
           NEW status \in {0, 200, 201, 400, 401, 403, 404, 500}, Answer(r, status, id)
    PROVE  request' \in [Requests -> Request] /\ reply' \in Reply
  BY DEF Answer, TypeOK, NoRequest, Request, Reply, Ops

LEMMA AwaitTypes ==
    ASSUME TypeOK, NEW r \in Requests, NEW id \in Nat, NEW value \in Nat,
           NEW pc \in {"serve", "expire", "insert"}, Await(r, pc, id, value)
    PROVE  /\ request' \in [Requests -> Request] /\ reply' \in Reply
           /\ request' = [request EXCEPT ![r] =
                [request[r] EXCEPT !.pc = pc, !.route = id, !.since = Since, !.at = value]]
  <1>1. Since \in Nat
    BY DEF Since, TypeOK
  <1>2. request[r] \in Request
    BY DEF TypeOK
  <1>3. request' = [request EXCEPT ![r] =
          [request[r] EXCEPT !.pc = pc, !.route = id, !.since = Since, !.at = value]]
    BY <1>2 DEF Await, TypeOK, Request
  <1>4. [request[r] EXCEPT !.pc = pc, !.route = id, !.since = Since, !.at = value] \in Request
    BY <1>1, <1>2 DEF Request
  <1>5. QED
    BY <1>3, <1>4 DEF Await, TypeOK, NoReply, Reply

-----------------------------------------------------------------------------
(* What the requests carry. *)

\* No step of the tables or the clock makes a carried value wrong: rows are never
\* changed, ids never reused, and what has expired stays expired.
LEMMA CarriedStable ==
    ASSUME TypeOK, TableStep, now' \in Nat, now' >= now,
           NEW q \in Request, CarriedSound(q)
    PROVE  CarriedSound(q)'
  <1>1. /\ lastRoute \in Nat /\ lastRoute' \in Nat /\ lastRoute' >= lastRoute
        /\ \A x \in saved_routes' : x \in saved_routes \/ x.id = lastRoute + 1
        /\ saved_routes \subseteq Route /\ saved_routes' \subseteq Route
    BY TableTypes DEF TypeOK
  <1>2. q.route \in Nat /\ q.route <= lastRoute
    BY DEF CarriedSound, Request
  <1>3. \A x \in saved_routes' : x.id = q.route => x \in saved_routes
    BY <1>1, <1>2
  <1>4. \A x \in saved_routes : x.expiresAt <= now => x.expiresAt <= now'
    BY <1>1 DEF TypeOK, Route
  <1>5. QED
    BY <1>1, <1>2, <1>3, <1>4 DEF CarriedSound

LEMMA UnchangedSound ==
    ASSUME TypeOK, RequestsSound, TableStep, now' \in Nat, now' >= now, UNCHANGED request
    PROVE  RequestsSound'
  <1> SUFFICES ASSUME NEW r \in Requests PROVE CarriedSound(request[r])'
    BY DEF RequestsSound
  <1>1. CarriedSound(request[r]) /\ request[r] \in Request
    BY DEF RequestsSound, TypeOK
  <1>2. \A q \in Request : CarriedSound(q) => CarriedSound(q)'
    BY CarriedStable
  <1>3. QED
    BY <1>1, <1>2 DEF CarriedSound

\* A request that took a step is sound if its new record is.
LEMMA SteppedSound ==
    ASSUME TypeOK, RequestsSound, TableStep, now' \in Nat, now' >= now,
           NEW r \in Requests, NEW q \in Request, CarriedSound(q)',
           request' = [request EXCEPT ![r] = q]
    PROVE  RequestsSound'
  <1> SUFFICES ASSUME NEW p \in Requests PROVE CarriedSound(request[p])'
    BY DEF RequestsSound
  <1>1. CASE p = r
    <2>1. request'[p] = q
      BY <1>1 DEF TypeOK
    <2>2. QED
      BY <2>1 DEF CarriedSound
  <1>2. CASE p # r
    <2>1. request'[p] = request[p] /\ request[p] \in Request /\ CarriedSound(request[p])
      BY <1>2 DEF TypeOK, RequestsSound
    <2>2. \A c \in Request : CarriedSound(c) => CarriedSound(c)'
      BY CarriedStable
    <2>3. QED
      BY <2>1, <2>2 DEF CarriedSound
  <1>3. QED
    BY <1>1, <1>2

LEMMA NoRequestSound ==
    ASSUME TypeOK, TableStep
    PROVE  NoRequest \in Request /\ CarriedSound(NoRequest)'
  <1>1. NoRequest \in Request
    BY DEF NoRequest, Request, Ops
  <1>2. lastRoute' \in Nat
    BY TableTypes
  <1>3. QED
    BY <1>1, <1>2 DEF CarriedSound, NoRequest

\* An answered request carries nothing.
LEMMA AnswerSound ==
    ASSUME TypeOK, RequestsSound, TableStep, now' \in Nat, now' >= now,
           NEW r \in Requests, NEW status, NEW id, Answer(r, status, id)
    PROVE  RequestsSound'
  BY NoRequestSound, SteppedSound DEF Answer

\* An awaiting request carries what is sound of the tables after the step.
LEMMA AwaitSound ==
    ASSUME TypeOK, RequestsSound, TableStep, now' \in Nat, now' >= now,
           NEW r \in Requests, NEW id \in Nat, NEW value \in Nat,
           NEW pc \in {"serve", "expire", "insert"}, Await(r, pc, id, value),
           id <= lastRoute',
           pc = "insert" /\ request[r].op = "report" =>
              \A x \in saved_routes' :
                 x.id = id => x.user = request[r].user /\ x.expiresAt = value,
           pc = "expire" => \A x \in saved_routes' : x.id = id => x.expiresAt <= now'
    PROVE  RequestsSound'
  <1>1. request[r] \in Request /\ Since \in Nat
    BY DEF TypeOK, Since
  <1>2. PICK q \in Request :
          /\ q.pc = pc /\ q.route = id /\ q.at = value
          /\ q.op = request[r].op /\ q.user = request[r].user
          /\ request' = [request EXCEPT ![r] = q]
    <2> DEFINE new == [request[r] EXCEPT
                         !.pc = pc, !.route = id, !.since = Since, !.at = value]
    <2>1. /\ new \in Request /\ new.pc = pc /\ new.route = id /\ new.at = value
          /\ new.op = request[r].op /\ new.user = request[r].user
      BY <1>1 DEF Request
    <2>2. request' = [request EXCEPT ![r] = new]
      BY Zenon DEF Await
    <2> HIDE DEF new
    <2>3. QED
      BY <2>1, <2>2
  <1>3. CarriedSound(q)'
    BY <1>2 DEF CarriedSound
  <1>4. QED
    BY <1>2, <1>3, SteppedSound

-----------------------------------------------------------------------------
(* The inductive invariant. *)

\* Arrivals name a route that was minted and carry nothing else.
LEMMA ArriveSound ==
    ASSUME TypeOK, RequestsSound, NEW r \in Requests, Receive(r)
    PROVE  TypeOK' /\ RequestsSound'
  <1>1. \E q \in Request :
          q.pc \in {"auth", "serve"} /\ q.route <= lastRoute /\ Arrive(r, q)
    <2>1. Since \in Nat
      BY DEF Since, TypeOK
    <2>0. 0 <= lastRoute
      BY DEF TypeOK
    <2>a. \A pc \in {"auth", "serve"}, op \in Ops, u, id \in Nat :
            /\ Incoming(pc, op, u, id) \in Request
            /\ Incoming(pc, op, u, id).pc = pc /\ Incoming(pc, op, u, id).route = id
      BY <2>1 DEF Incoming, Request
    <2>2. CASE ReceiveIssue(r)
      BY <2>0, <2>a, <2>2 DEF ReceiveIssue, Ops
    <2>3. CASE ReceiveSave(r)
      <3>1. PICK u \in 1 .. lastUser, key \in Keys, ttl \in PolicyTtls :
              Arrive(r, IncomingSave(u, key, ttl))
        BY <2>3 DEF ReceiveSave
      <3> DEFINE rows == RouteWithKey(u, key)
                 original == IF rows = {} THEN 0 ELSE (CHOOSE x \in rows : TRUE).id
      <3>2. original \in Nat
        <4>1. rows \subseteq Route
          BY DEF RouteWithKey, TypeOK
        <4>2. CASE rows # {}
          <5>1. (CHOOSE x \in rows : TRUE) \in rows
            BY <4>2
          <5>2. QED
            BY <4>1, <4>2, <5>1 DEF Route
        <4>3. QED
          BY <4>2
      <3> HIDE DEF original
      <3>3. u \in Nat /\ key \in Keys \cup {NoKey} /\ ttl \in Nat
        BY ConstantsAssumption DEF TypeOK
      <3>4. IncomingSave(u, key, ttl) =
              [pc |-> "auth", op |-> "save", user |-> u, key |-> key, ttl |-> ttl,
               route |-> 0, since |-> Since, at |-> 0, original |-> original]
        BY DEF IncomingSave, original
      <3>5. /\ IncomingSave(u, key, ttl) \in Request
            /\ IncomingSave(u, key, ttl).pc = "auth" /\ IncomingSave(u, key, ttl).route = 0
        BY <2>1, <3>2, <3>3, <3>4 DEF Request, Ops
      <3>6. QED
        BY <2>0, <3>1, <3>5
    <2>4. CASE ReceiveOnRoute(r)
      <3>1. PICK u \in 1 .. lastUser, op \in {"delete", "report"}, id \in 1 .. lastRoute :
              Arrive(r, Incoming("auth", op, u, id))
        BY <2>4 DEF ReceiveOnRoute
      <3>2. u \in Nat /\ id \in Nat /\ id <= lastRoute /\ op \in Ops
        BY DEF TypeOK, Ops
      <3>3. QED
        BY <2>a, <3>1, <3>2
    <2>5. CASE ReceiveErase(r)
      <3>1. PICK u \in 1 .. lastUser : Arrive(r, Incoming("auth", "erase", u, 0))
        BY <2>5 DEF ReceiveErase
      <3>2. u \in Nat
        BY DEF TypeOK
      <3>3. QED
        BY <2>0, <2>a, <3>1, <3>2 DEF Ops
    <2>6. QED
      BY <2>2, <2>3, <2>4, <2>5 DEF Receive
  <1>2. PICK q \in Request :
          q.pc \in {"auth", "serve"} /\ q.route <= lastRoute /\ Arrive(r, q)
    BY <1>1
  <1>3. TypeOK'
    BY <1>2 DEF Arrive, TypeOK, tables, minted, process, NoReply, Reply
  <1>4. TableStep /\ now' \in Nat /\ now' >= now
    BY <1>2 DEF Arrive, TableStep, Same, TypeOK
  <1>5. CarriedSound(q)'
    BY <1>2 DEF Arrive, CarriedSound, minted
  <1>6. QED
    BY <1>2, <1>3, <1>4, <1>5, SteppedSound DEF Arrive

\* What remains to be shown of a step's types once its tables are classified.
LEMMA TypeFromParts ==
    ASSUME TypeOK, TableStep, UNCHANGED store,
           now' \in Nat, faults' \in Nat, serving' \in BOOLEAN,
           request' \in [Requests -> Request], reply' \in Reply
    PROVE  TypeOK'
  BY TableTypes DEF TypeOK

\* A request's own steps keep types and carried values right.
LEMMA StepSound ==
    ASSUME IInv, NEW r \in Requests, Step(r), TableStep
    PROVE  TypeOK' /\ RequestsSound'
  <1> USE DEF IInv
  <1>0. /\ TypeOK /\ RequestsSound /\ IdsUnique
        /\ now \in Nat /\ faults \in Nat /\ serving \in BOOLEAN /\ lastRoute \in Nat
        /\ request[r] \in Request /\ CarriedSound(request[r])
        /\ lastRoute' \in Nat /\ lastRoute' >= lastRoute
    BY TableTypes DEF TypeOK, RequestsSound
  <1>1. UNCHANGED <<store, now, process>>
    BY DEF Step, IssueSession, Authenticate, RejectSave, FindSavedRouteByIdempotencyKey,
           DeleteExpiredRow, SaveRoute, InsertRoute, DeleteSavedRoute, DeleteAllUserData,
           GetSavedRoute, AddFieldReport
  <1>2. now' \in Nat /\ now' >= now /\ faults' \in Nat /\ serving' \in BOOLEAN
    BY <1>0, <1>1 DEF process
  <1>3. ASSUME NEW status \in {0, 200, 201, 400, 401, 403, 404, 500}, NEW id \in Nat,
               Answer(r, status, id)
        PROVE  TypeOK' /\ RequestsSound'
    BY <1>0, <1>1, <1>2, <1>3, AnswerTypes, AnswerSound, TypeFromParts
  <1>4. ASSUME NEW id \in Nat, NEW value \in Nat, NEW pc \in {"serve", "expire", "insert"},
               Await(r, pc, id, value), id <= lastRoute',
               pc = "insert" /\ request[r].op = "report" =>
                  \A x \in saved_routes' :
                     x.id = id => x.user = request[r].user /\ x.expiresAt = value,
               pc = "expire" => \A x \in saved_routes' : x.id = id => x.expiresAt <= now'
        PROVE  TypeOK' /\ RequestsSound'
    <2>1. RequestsSound'
      BY <1>0, <1>2, <1>4, AwaitSound
    <2>2. request' \in [Requests -> Request] /\ reply' \in Reply
      BY <1>0, <1>4, AwaitTypes
    <2>3. QED
      BY <1>0, <1>1, <1>2, <2>1, <2>2, TypeFromParts
  <1>5. CASE IssueSession(r)
    BY <1>3, <1>5 DEF IssueSession
  <1>6. CASE Authenticate(r)
    <2>1. request[r].route \in Nat /\ request[r].route <= lastRoute'
      BY <1>0 DEF CarriedSound, Request
    <2>2. Answer(r, 401, 0) \/ Await(r, "serve", request[r].route, 0)
      BY <1>6 DEF Authenticate
    <2>3. QED
      BY <1>3, <1>4, <2>1, <2>2
  <1>7. CASE RejectSave(r)
    BY <1>3, <1>7 DEF RejectSave
  <1>8. CASE FindSavedRouteByIdempotencyKey(r)
    <2> DEFINE rows == RouteWithKey(request[r].user, request[r].key)
    <2>1. rows \subseteq saved_routes /\ saved_routes \subseteq Route /\ request[r].op = "save"
      BY <1>0, <1>8 DEF RouteWithKey, TypeOK, FindSavedRouteByIdempotencyKey, Serving
    <2>2. PICK t \in StatementTimes(r) :
            \/ \E x \in Live(rows, t) : Answer(r, 201, x.id)
            \/ Await(r, "insert", 0, t)
            \/ /\ UNCHANGED tables
               /\ \E x \in rows \ Live(rows, t) : Await(r, "expire", x.id, t)
      BY <1>8 DEF FindSavedRouteByIdempotencyKey
    <2>3. t \in Nat /\ t <= now
      BY <1>0, StatementTimesNat
    <2>4. CASE \E x \in Live(rows, t) : Answer(r, 201, x.id)
      BY <1>3, <2>1, <2>4 DEF Live, Route
    <2>5. CASE Await(r, "insert", 0, t)
      BY <1>0, <1>4, <2>1, <2>3, <2>5
    <2>6. CASE /\ UNCHANGED tables
               /\ \E x \in rows \ Live(rows, t) : Await(r, "expire", x.id, t)
      <3>1. PICK x \in rows \ Live(rows, t) : Await(r, "expire", x.id, t)
        BY <2>6
      <3>2. x \in saved_routes /\ x.id \in Nat /\ x.expiresAt \in Nat /\ x.id <= lastRoute
        BY <1>0, <2>1, <3>1 DEF Route, IdsUnique
      <3>3. x.expiresAt <= now'
        BY <1>1, <1>2, <2>3, <3>1, <3>2 DEF Live
      <3>4. \A y \in saved_routes' : y.id = x.id => y.expiresAt <= now'
        BY <1>0, <2>6, <3>2, <3>3 DEF IdsUnique, tables
      <3>5. x.id <= lastRoute'
        BY <1>0, <3>2
      <3>6. QED
        BY <1>4, <2>3, <3>1, <3>2, <3>4, <3>5
    <2>7. QED
      BY <2>2, <2>4, <2>5, <2>6
  <1>9. CASE DeleteExpiredRow(r)
    <2>1. Await(r, "insert", 0, request[r].at) /\ request[r].op = "save"
      BY <1>9 DEF DeleteExpiredRow, Serving
    <2>2. request[r].at \in Nat /\ 0 <= lastRoute'
      BY <1>0 DEF Request
    <2>3. QED
      BY <1>4, <2>1, <2>2
  <1>10. CASE SaveRoute(r)
    <2>1. Answer(r, 201, lastRoute + 1) \/ Answer(r, 500, 0)
      BY <1>10 DEF SaveRoute, InsertRoute
    <2>2. QED
      BY <1>0, <1>3, <2>1
  <1>11. CASE DeleteSavedRoute(r)
    BY <1>3, <1>11 DEF DeleteSavedRoute
  <1>12. CASE DeleteAllUserData(r)
    BY <1>3, <1>12 DEF DeleteAllUserData
  <1>13. CASE GetSavedRoute(r)
    <2> DEFINE rows == RouteOf(request[r].route, request[r].user)
    <2>1. \/ Answer(r, 404, 0) \/ Answer(r, 400, 0)
          \/ \E x \in rows : Await(r, "insert", x.id, x.expiresAt)
      BY <1>13 DEF GetSavedRoute, Live
    <2>2. ASSUME NEW x \in rows, Await(r, "insert", x.id, x.expiresAt)
          PROVE  TypeOK' /\ RequestsSound'
      <3>1. x \in saved_routes /\ x \in Route /\ x.user = request[r].user
        BY <1>0 DEF RouteOf, TypeOK
      <3>2. x.id \in Nat /\ x.expiresAt \in Nat /\ x.id <= lastRoute'
        BY <1>0, <3>1 DEF Route, IdsUnique
      <3>3. saved_routes' = saved_routes
        BY <1>13 DEF GetSavedRoute, tables
      <3>4. \A y \in saved_routes' : y.id = x.id => y = x
        BY <1>0, <3>1, <3>3 DEF IdsUnique
      <3>5. QED
        BY <1>4, <2>2, <3>1, <3>2, <3>4
    <2>3. QED
      BY <1>3, <2>1, <2>2
  <1>14. CASE AddFieldReport(r)
    <2>1. Answer(r, 201, request[r].route) \/ Answer(r, 500, 0)
      BY <1>14 DEF AddFieldReport
    <2>2. request[r].route \in Nat
      BY <1>0 DEF Request
    <2>3. QED
      BY <1>3, <2>1, <2>2
  <1>15. QED
    BY <1>5, <1>6, <1>7, <1>8, <1>9, <1>10, <1>11, <1>12, <1>13, <1>14 DEF Step

\* Ids stay unique: the only new id is the one past the last.
LEMMA IdsStep ==
    ASSUME IInv, TableStep
    PROVE  IdsUnique'
  <1> USE DEF IdsUnique, IInv
  <1>0. lastUser \in Nat /\ lastRoute \in Nat /\ saved_routes \subseteq Route
           /\ tokens \subseteq Session
    BY DEF TypeOK
  <1>1. CASE Same
    BY <1>1 DEF Same, tables, minted
  <1>2. CASE Removal
    BY <1>2 DEF Removal, Delete, OwnedBy, minted
  <1>3. CASE NewSession
    BY <1>0, <1>3 DEF NewSession, Session
  <1>4. CASE NewRoute
    <2>1. PICK r \in Requests, e \in Nat :
            saved_routes' = saved_routes \cup
               {[id |-> lastRoute + 1, user |-> request[r].user, key |-> request[r].key,
                 expiresAt |-> e]}
      BY <1>4 DEF NewRoute
    <2>2. lastRoute' = lastRoute + 1 /\ UNCHANGED <<tokens, lastUser>>
      BY <1>4 DEF NewRoute
    <2>3. \A x \in saved_routes : x.id \in Nat /\ x.id # lastRoute + 1 /\ x.id <= lastRoute'
      BY <1>0, <2>2 DEF Route
    <2>4. QED
      BY <1>0, <2>1, <2>2, <2>3
  <1>5. CASE RefusedRoute
    BY <1>0, <1>5 DEF RefusedRoute, tables, Route
  <1>6. CASE NewReport
    BY <1>6 DEF NewReport, minted
  <1>7. QED
    BY <1>1, <1>2, <1>3, <1>4, <1>5, <1>6 DEF TableStep

\* The foreign keys, cascades and what a feedback request carries keep every row
\* attached to its owner and route.
LEMMA IntegrityStep ==
    ASSUME IInv, TableStep
    PROVE  ReferentialIntegrity'
  <1> USE DEF IInv, ReferentialIntegrity
  <1>1. CASE Same
    BY <1>1 DEF Same, tables
  <1>2. CASE Removal
    <2>1. PICK S \in SUBSET user_sessions, R \in SUBSET saved_routes,
               F \in SUBSET field_reports : Delete(S, R, F)
      BY <1>2 DEF Removal
    <2>2. /\ user_sessions' = S
          /\ saved_routes' = OwnedBy(R, S)
          /\ field_reports' = FiledOn(OwnedBy(F, S), OwnedBy(R, S))
      BY <2>1 DEF Delete
    <2>3. ASSUME NEW x \in saved_routes' PROVE \E s \in user_sessions' : s.user = x.user
      BY <2>2 DEF OwnedBy
    <2>4. ASSUME NEW f \in field_reports'
          PROVE  \E x \in saved_routes' :
                    x.id = f.route /\ x.user = f.user /\ x.expiresAt = f.expiresAt
      <3>1. f \in field_reports /\ \E x \in saved_routes' : x.id = f.route
        BY <2>2 DEF FiledOn, OwnedBy
      <3>2. PICK x \in saved_routes' : x.id = f.route
        BY <3>1
      <3>3. PICK y \in saved_routes :
              y.id = f.route /\ y.user = f.user /\ y.expiresAt = f.expiresAt
        BY <3>1
      <3>4. x \in saved_routes
        BY <2>2 DEF OwnedBy
      <3>5. x = y
        BY <3>2, <3>3, <3>4 DEF IdsUnique
      <3>6. QED
        BY <3>2, <3>3, <3>5
    <2>5. QED
      BY <2>3, <2>4
  <1>3. CASE NewSession
    BY <1>3 DEF NewSession
  <1>4. CASE NewRoute
    <2>1. PICK r \in Requests, e \in Nat :
            /\ RouteAccepted(request[r])
            /\ saved_routes' = saved_routes \cup
                 {[id |-> lastRoute + 1, user |-> request[r].user, key |-> request[r].key,
                   expiresAt |-> e]}
            /\ UNCHANGED <<user_sessions, field_reports>>
      BY <1>4 DEF NewRoute
    <2>2. \E s \in user_sessions : s.user = request[r].user
      BY <2>1 DEF RouteAccepted
    <2>3. QED
      BY <2>1, <2>2
  <1>5. CASE RefusedRoute
    BY <1>5 DEF RefusedRoute, tables
  <1>6. CASE NewReport
    <2>1. PICK r \in Requests :
            /\ request[r].pc = "insert" /\ request[r].op = "report"
            /\ \E x \in saved_routes : x.id = request[r].route
            /\ field_reports' = field_reports \cup
                 {[route |-> request[r].route, user |-> request[r].user,
                   expiresAt |-> request[r].at]}
            /\ UNCHANGED <<user_sessions, saved_routes>>
      BY <1>6 DEF NewReport
    <2>2. CarriedSound(request[r])
      BY DEF RequestsSound
    <2>3. PICK x \in saved_routes :
            x.id = request[r].route /\ x.user = request[r].user
            /\ x.expiresAt = request[r].at
      BY <2>1, <2>2 DEF CarriedSound
    <2>4. QED
      BY <2>1, <2>3
  <1>7. QED
    BY <1>1, <1>2, <1>3, <1>4, <1>5, <1>6 DEF TableStep

\* The unique index lets no second row of a key in.
LEMMA KeysStep ==
    ASSUME IInv, TableStep
    PROVE  OneRoutePerKey'
  <1> USE DEF IInv, OneRoutePerKey
  <1>1. CASE Same \/ NewSession \/ RefusedRoute \/ NewReport
    BY <1>1 DEF Same, NewSession, RefusedRoute, NewReport, tables
  <1>2. CASE Removal
    BY <1>2 DEF Removal, Delete, OwnedBy
  <1>3. CASE NewRoute
    <2>1. PICK r \in Requests, e \in Nat :
            /\ RouteAccepted(request[r])
            /\ saved_routes' = saved_routes \cup
                 {[id |-> lastRoute + 1, user |-> request[r].user, key |-> request[r].key,
                   expiresAt |-> e]}
      BY <1>3 DEF NewRoute
    <2>2. request[r].key # NoKey =>
             \A x \in saved_routes : ~(x.user = request[r].user /\ x.key = request[r].key)
      BY <2>1 DEF RouteAccepted, RouteWithKey
    <2>3. QED
      BY <2>1, <2>2
  <1>4. QED
    BY <1>1, <1>2, <1>3 DEF TableStep

-----------------------------------------------------------------------------
(* Theorems. *)

LEMMA InitInvariant == Init => IInv
  <1> SUFFICES ASSUME Init PROVE IInv
    OBVIOUS
  <1>1. TypeOK
    BY InitType
  <1>2. IdsUnique /\ ReferentialIntegrity /\ OneRoutePerKey
    BY DEF Init, IdsUnique, ReferentialIntegrity, OneRoutePerKey
  <1>3. RequestsSound
    BY DEF Init, RequestsSound, CarriedSound, NoRequest
  <1>4. QED
    BY <1>1, <1>2, <1>3 DEF IInv

LEMMA NextInvariant == IInv /\ [Next]_vars => IInv'
  <1> SUFFICES ASSUME IInv, [Next]_vars PROVE IInv'
    OBVIOUS
  <1>0. TypeOK /\ RequestsSound /\ TableStep
    BY StepShape DEF IInv
  <1>1. IdsUnique' /\ ReferentialIntegrity' /\ OneRoutePerKey'
    BY <1>0, IdsStep, IntegrityStep, KeysStep
  <1>2. now \in Nat /\ faults \in Nat /\ serving \in BOOLEAN
           /\ request \in [Requests -> Request] /\ NoReply \in Reply /\ reply \in Reply
    BY <1>0 DEF TypeOK, NoReply, Reply
  <1>3. ASSUME UNCHANGED <<store, request>>, reply' \in Reply,
               now' \in Nat, now' >= now, faults' \in Nat, serving' \in BOOLEAN
        PROVE  TypeOK' /\ RequestsSound'
    BY <1>0, <1>2, <1>3, TypeFromParts, UnchangedSound
  <1>4. TypeOK' /\ RequestsSound'
    <2>1. ASSUME NEW r \in Requests, Receive(r) PROVE TypeOK' /\ RequestsSound'
      BY <1>0, <2>1, ArriveSound
    <2>2. ASSUME NEW r \in Requests, Step(r) PROVE TypeOK' /\ RequestsSound'
      BY <1>0, <2>2, StepSound
    <2>3. ASSUME NEW r \in Requests, StatementFails(r) PROVE TypeOK' /\ RequestsSound'
      <3>1. /\ Answer(r, 500, 0) /\ UNCHANGED <<store, now, serving>> /\ faults' = faults + 1
        BY <2>3 DEF StatementFails, Fault
      <3>2. request' \in [Requests -> Request] /\ reply' \in Reply
        BY <1>0, <3>1, AnswerTypes
      <3>3. TypeOK'
        BY <1>0, <1>2, <3>1, <3>2, TypeFromParts
      <3>4. RequestsSound'
        BY <1>0, <1>2, <3>1, AnswerSound
      <3>5. QED
        BY <3>3, <3>4
    <2>4. CASE PurgeExpired
      BY <1>2, <1>3, <2>4 DEF PurgeExpired, PurgeUpTo
    <2>5. CASE Crash
      <3>1. /\ request' = [r \in Requests |-> NoRequest] /\ reply' = NoReply
            /\ UNCHANGED <<store, now>> /\ faults' = faults + 1 /\ serving' \in BOOLEAN
        BY <2>5 DEF Crash, Fault
      <3>2. NoRequest \in Request /\ CarriedSound(NoRequest)'
        BY <1>0, NoRequestSound
      <3>3. TypeOK'
        BY <1>0, <1>2, <3>1, <3>2, TypeFromParts
      <3>4. RequestsSound'
        BY <3>1, <3>2 DEF RequestsSound, CarriedSound
      <3>5. QED
        BY <3>3, <3>4
    <2>6. CASE PurgeFails
      BY <1>2, <1>3, <2>6 DEF PurgeFails, Fault
    <2>7. CASE Tick
      BY <1>2, <1>3, <2>7 DEF Tick, process
    <2>8. CASE UNCHANGED vars
      BY <1>2, <1>3, <2>8 DEF vars, process
    <2>9. QED
      BY <2>1, <2>2, <2>3, <2>4, <2>5, <2>6, <2>7, <2>8 DEF Next
  <1>5. QED
    BY <1>1, <1>4 DEF IInv

\* Every reachable state, of any instance, satisfies the inductive invariant.
THEOREM Invariant == Spec => []IInv
  BY InitInvariant, NextInvariant, PTL DEF Spec

\* Type correctness of the tables and the requests.
THEOREM TypeCorrect == Spec => []TypeOK
  <1>1. IInv => TypeOK
    BY DEF IInv
  <1>2. QED
    BY <1>1, Invariant, PTL

\* Rows stay attached to their owner and route through every interleaving of the
\* two-statement operations, cascades, purges and crashes.
THEOREM Integrity == Spec => []ReferentialIntegrity
  <1>1. IInv => ReferentialIntegrity
    BY DEF IInv
  <1>2. QED
    BY <1>1, Invariant, PTL

\* No race of saves leaves two rows under one idempotency key.
THEOREM KeyUniqueness == Spec => []OneRoutePerKey
  <1>1. IInv => OneRoutePerKey
    BY DEF IInv
  <1>2. QED
    BY <1>1, Invariant, PTL

\* After DELETE /session, or expiry, no step ever writes for that user again,
\* although tokens stay verifiable and requests are in flight.
THEOREM Erasure == Spec => ErasedStaysErased
  <1> DEFINE Stays(k) == (\A s \in user_sessions : s.user # k.user) =>
                \A y \in user_sessions' \cup saved_routes' \cup field_reports' :
                    y.user # k.user
  <1>1. IInv /\ IInv' /\ [Next]_vars => [\A k \in tokens : Stays(k)]_vars
    <2> SUFFICES ASSUME IInv, IInv', [Next]_vars, NEW k \in tokens,
                        \A s \in user_sessions : s.user # k.user
                 PROVE  \A y \in user_sessions' \cup saved_routes' \cup field_reports' :
                           y.user # k.user
      OBVIOUS
    <2>1. TableStep
      BY StepShape DEF IInv
    <2>2. k.user <= lastUser /\ k.user \in Nat /\ lastUser \in Nat
      BY DEF IInv, IdsUnique, TypeOK, Session
    <2>3. \A s \in user_sessions' : s \in user_sessions \/ s.user = lastUser + 1
      BY <2>1 DEF TableStep, Same, Removal, Delete, NewSession, NewRoute, RefusedRoute,
                  NewReport, tables
    <2>4. \A s \in user_sessions' : s.user # k.user
      BY <2>2, <2>3
    <2>5. /\ \A x \in saved_routes' : \E s \in user_sessions' : s.user = x.user
          /\ \A f \in field_reports' : \E x \in saved_routes' : x.user = f.user
      BY DEF IInv, ReferentialIntegrity
    <2>6. QED
      BY <2>4, <2>5
  <1>2. QED
    BY <1>1, Invariant, PTL DEF Spec, ErasedStaysErased

-----------------------------------------------------------------------------
(* What removes live data. *)

\* A step removes live sessions at their owners' request only; whatever else it removes
\* goes with its account, for which reason is not said, or by the DELETE of a route.
AccountGone(u) == \A s \in user_sessions' : s.user # u
OwnersRemoval ==
    /\ \A s \in Live(user_sessions, now) \ user_sessions' : ErasedBy(s.user)
    /\ \A x \in Live(saved_routes, now) \ saved_routes' :
          AccountGone(x.user) \/ DeletedBy(x.user, x.id)
    /\ \A f \in Live(field_reports, now) \ field_reports' :
          AccountGone(f.user) \/ DeletedBy(f.user, f.route)

\* So that an account that goes has been erased, or has no live session.
LEMMA RemovalIsDue == OwnersRemoval => DueRemoval
  <1> SUFFICES ASSUME OwnersRemoval PROVE DueRemoval
    OBVIOUS
  <1>1. ASSUME NEW u, AccountGone(u) PROVE AccountEnds(u)
    <2>1. ASSUME HasSession(u, now) PROVE ErasedBy(u)
      <3>1. PICK s \in Live(user_sessions, now) : s.user = u
        BY <2>1 DEF HasSession
      <3>2. s \in Live(user_sessions, now) \ user_sessions'
        BY <1>1, <3>1 DEF AccountGone
      <3>3. QED
        BY <3>1, <3>2 DEF OwnersRemoval
    <2>2. QED
      BY <1>1, <2>1 DEF AccountEnds, AccountGone
  <1>2. QED
    BY <1>1 DEF OwnersRemoval, DueRemoval

\* What DELETE statements and their cascades remove: rows they name, rows of an
\* account that is gone, and reports on a route they name.
LEMMA RemovalReach ==
    ASSUME IInv, NEW S \in SUBSET user_sessions, NEW R \in SUBSET saved_routes,
           NEW F \in SUBSET field_reports, Delete(S, R, F)
    PROVE  /\ user_sessions' = S
           /\ \A x \in saved_routes \ saved_routes' : x \notin R \/ AccountGone(x.user)
           /\ \A f \in field_reports \ field_reports' :
                 \/ f \notin F \/ AccountGone(f.user)
                 \/ \E x \in saved_routes \ R :
                      x.id = f.route /\ x.user = f.user /\ x.expiresAt = f.expiresAt
  <1>1. /\ user_sessions' = S
        /\ saved_routes' = OwnedBy(R, S)
        /\ field_reports' = FiledOn(OwnedBy(F, S), OwnedBy(R, S))
    BY DEF Delete
  <1>2. ASSUME NEW x \in saved_routes \ saved_routes', x \in R PROVE AccountGone(x.user)
    BY <1>1, <1>2 DEF OwnedBy, AccountGone
  <1>3. ASSUME NEW f \in field_reports \ field_reports', f \in F, ~ AccountGone(f.user)
        PROVE  \E x \in saved_routes \ R :
                  x.id = f.route /\ x.user = f.user /\ x.expiresAt = f.expiresAt
    <2>1. f \in OwnedBy(F, S)
      BY <1>1, <1>3 DEF OwnedBy, AccountGone
    <2>2. \A x \in OwnedBy(R, S) : x.id # f.route
      BY <1>1, <1>3, <2>1 DEF FiledOn
    <2>3. PICK x \in saved_routes :
            x.id = f.route /\ x.user = f.user /\ x.expiresAt = f.expiresAt
      BY <1>3 DEF IInv, ReferentialIntegrity
    <2>4. x \notin R
      BY <1>1, <1>3, <2>2, <2>3 DEF OwnedBy, AccountGone
    <2>5. QED
      BY <2>3, <2>4
  <1>4. QED
    BY <1>1, <1>2, <1>3

\* Statements that remove expired sessions, routes and reports only.
LEMMA ExpiryRemoval ==
    ASSUME IInv, NEW S \in SUBSET user_sessions, NEW R \in SUBSET saved_routes,
           NEW F \in SUBSET field_reports, Delete(S, R, F),
           Live(user_sessions, now) \subseteq S, Live(saved_routes, now) \subseteq R,
           Live(field_reports, now) \subseteq F
    PROVE  OwnersRemoval
  <1>1. \A x \in Live(saved_routes, now) \ saved_routes' : AccountGone(x.user)
    BY RemovalReach DEF Live
  <1>2. ASSUME NEW f \in Live(field_reports, now) \ field_reports' PROVE AccountGone(f.user)
    <2>1. f \in F /\ f \in field_reports \ field_reports'
      BY DEF Live
    <2>2. \A x \in saved_routes \ R : x.expiresAt # f.expiresAt
      BY DEF Live
    <2>3. QED
      BY <2>1, <2>2, RemovalReach
  <1>3. Live(user_sessions, now) \ user_sessions' = {}
    BY RemovalReach
  <1>4. QED
    BY <1>1, <1>2, <1>3 DEF OwnersRemoval

LEMMA PurgeRemoval ==
    ASSUME IInv, NEW t \in Nat, t <= now, NEW n, PurgeTables(t, n)
    PROVE  OwnersRemoval
  <1> DEFINE S == IF n >= 3 THEN Live(user_sessions, t) ELSE user_sessions
             R == IF n >= 2 THEN Live(saved_routes, t) ELSE saved_routes
             F == IF n >= 1 THEN Live(field_reports, t) ELSE field_reports
  <1>0. /\ now \in Nat /\ user_sessions \subseteq Session /\ saved_routes \subseteq Route
        /\ field_reports \subseteq Report
    BY DEF IInv, TypeOK
  <1>1. S \in SUBSET user_sessions /\ R \in SUBSET saved_routes /\ F \in SUBSET field_reports
    BY DEF Live
  <1>2. /\ Live(user_sessions, now) \subseteq S
        /\ Live(saved_routes, now) \subseteq R
        /\ Live(field_reports, now) \subseteq F
    BY <1>0 DEF Live, Session, Route, Report
  <1>3. Delete(S, R, F)
    BY DEF PurgeTables
  <1> HIDE DEF S, R, F
  <1>4. QED
    BY <1>1, <1>2, <1>3, ExpiryRemoval

\* Deleting expired routes by name.
LEMMA ExpiredRoutesRemoval ==
    ASSUME IInv, NEW rows \in SUBSET saved_routes,
           \A x \in rows : x.expiresAt <= now, DeleteRoutes(rows)
    PROVE  OwnersRemoval
  <1>1. Live(saved_routes, now) \subseteq saved_routes \ rows
    BY DEF Live, IInv, TypeOK, Route
  <1>2. /\ Live(user_sessions, now) \subseteq user_sessions
        /\ Live(field_reports, now) \subseteq field_reports
    BY DEF Live
  <1>3. Delete(user_sessions, saved_routes \ rows, field_reports)
    BY DEF DeleteRoutes
  <1>4. QED
    BY <1>1, <1>2, <1>3, ExpiryRemoval

\* Steps that remove nothing remove nobody's data.
LEMMA NothingRemoved ==
    ASSUME user_sessions \subseteq user_sessions', saved_routes \subseteq saved_routes',
           field_reports \subseteq field_reports'
    PROVE  OwnersRemoval
  BY DEF OwnersRemoval, Live

LEMMA TablesKept == UNCHANGED tables => OwnersRemoval
  BY NothingRemoved DEF tables

LEMMA RowsOfRoute ==
    ASSUME NEW id, NEW user
    PROVE  RouteOf(id, user) \in SUBSET saved_routes
  BY DEF RouteOf

\* The row a lookup by key removes is the one it found, or was found expired by an
\* earlier step of the same request.
LEMMA LookupRemoval ==
    ASSUME IInv, NEW r \in Requests,
           FindSavedRouteByIdempotencyKey(r) \/ DeleteExpiredRow(r)
    PROVE  OwnersRemoval
  <1> DEFINE q == request[r]
             rows == RouteWithKey(q.user, q.key)
  <1>0. now \in Nat /\ saved_routes \subseteq Route /\ rows \subseteq saved_routes
    BY DEF IInv, TypeOK, RouteWithKey
  <1>1. CASE FindSavedRouteByIdempotencyKey(r)
    <2>1. PICK t \in StatementTimes(r) :
            UNCHANGED tables \/ \E x \in rows \ Live(rows, t) : DeleteRoutes({x})
      BY <1>1 DEF FindSavedRouteByIdempotencyKey
    <2>2. t \in Nat /\ t <= now
      BY StatementTimesNat DEF IInv
    <2>3. CASE UNCHANGED tables
      BY <2>3, TablesKept
    <2>4. ASSUME NEW x \in rows \ Live(rows, t), DeleteRoutes({x}) PROVE OwnersRemoval
      <3>1. {x} \in SUBSET saved_routes /\ \A y \in {x} : y.expiresAt <= now
        BY <1>0, <2>2 DEF Live, Route
      <3>2. QED
        BY <2>4, <3>1, ExpiredRoutesRemoval
    <2>5. QED
      BY <2>1, <2>3, <2>4
  <1>2. CASE DeleteExpiredRow(r)
    <2>1. q.pc = "expire" /\ DeleteRoutes(RouteOf(q.route, q.user))
      BY <1>2 DEF DeleteExpiredRow, Serving
    <2>2. \A x \in RouteOf(q.route, q.user) : x.expiresAt <= now
      BY <2>1 DEF RouteOf, IInv, RequestsSound, CarriedSound
    <2>3. QED
      BY <2>1, <2>2, RowsOfRoute, ExpiredRoutesRemoval
  <1>3. QED
    BY <1>1, <1>2

\* DELETE of a route takes that route of that user, and the reports on it.
LEMMA RouteRemoval ==
    ASSUME IInv, NEW r \in Requests, DeleteSavedRoute(r)
    PROVE  OwnersRemoval
  <1> DEFINE q == request[r]
             R == saved_routes \ RouteOf(q.route, q.user)
  <1>1. Delete(user_sessions, R, field_reports) /\ Serving(r, "serve", "delete")
    BY DEF DeleteSavedRoute, DeleteRoutes
  <1>2. \A x \in saved_routes \ R : DeletedBy(x.user, x.id)
    BY <1>1 DEF RouteOf, DeletedBy
  <1>3. R \in SUBSET saved_routes
    OBVIOUS
  <1> HIDE DEF R
  <1>4. /\ user_sessions' = user_sessions
        /\ \A x \in saved_routes \ saved_routes' : x \notin R \/ AccountGone(x.user)
        /\ \A f \in field_reports \ field_reports' :
              \/ AccountGone(f.user)
              \/ \E x \in saved_routes \ R :
                   x.id = f.route /\ x.user = f.user /\ x.expiresAt = f.expiresAt
    BY <1>1, <1>3, RemovalReach
  <1>5. QED
    BY <1>2, <1>4 DEF OwnersRemoval, Live

\* DELETE /session takes that user's session and whatever cascades from it.
LEMMA AccountRemoval ==
    ASSUME IInv, NEW r \in Requests, DeleteAllUserData(r)
    PROVE  OwnersRemoval
  <1> DEFINE mine == {s \in user_sessions : s.user = request[r].user}
             S == user_sessions \ mine
  <1>1. Delete(S, saved_routes, field_reports) /\ Serving(r, "serve", "erase")
    BY DEF DeleteAllUserData
  <1>2. \A s \in user_sessions \ S : ErasedBy(s.user)
    BY <1>1 DEF ErasedBy
  <1>3. S \in SUBSET user_sessions
    OBVIOUS
  <1> HIDE DEF S, mine
  <1>4. /\ user_sessions' = S
        /\ \A x \in saved_routes \ saved_routes' : AccountGone(x.user)
        /\ \A f \in field_reports \ field_reports' : AccountGone(f.user)
    BY <1>1, <1>3, RemovalReach
  <1>5. QED
    BY <1>2, <1>4 DEF OwnersRemoval, Live

\* No step of any process removes the live data of an account that stays, unless asked.
LEMMA StepRemoval == IInv /\ [Next]_vars => OwnersRemoval
  <1> SUFFICES ASSUME IInv, [Next]_vars PROVE OwnersRemoval
    OBVIOUS
  <1>0. now \in Nat
    BY DEF IInv, TypeOK
  <1>1. ASSUME NEW r \in Requests, Receive(r) PROVE OwnersRemoval
    BY <1>1, TablesKept
    DEF Receive, ReceiveIssue, ReceiveSave, ReceiveOnRoute, ReceiveErase, Arrive
  <1>2. ASSUME NEW r \in Requests, Step(r) PROVE OwnersRemoval
    <2>1. CASE FindSavedRouteByIdempotencyKey(r) \/ DeleteExpiredRow(r)
      BY <2>1, LookupRemoval
    <2>2. CASE DeleteSavedRoute(r)
      BY <2>2, RouteRemoval
    <2>3. CASE DeleteAllUserData(r)
      BY <2>3, AccountRemoval
    <2>4. CASE Authenticate(r) \/ RejectSave(r) \/ GetSavedRoute(r)
      BY <2>4, TablesKept DEF Authenticate, RejectSave, GetSavedRoute
    <2>5. CASE IssueSession(r)
      BY <2>5, NothingRemoved DEF IssueSession
    <2>6. CASE SaveRoute(r)
      <3>1. PICK t : InsertRoute(r, t)
        BY <2>6 DEF SaveRoute
      <3>2. saved_routes \subseteq saved_routes' /\ UNCHANGED <<user_sessions, field_reports>>
        BY <3>1 DEF InsertRoute
      <3>3. QED
        BY <3>2, NothingRemoved
    <2>7. CASE AddFieldReport(r)
      <3>1. field_reports \subseteq field_reports' /\ UNCHANGED <<user_sessions, saved_routes>>
        BY <2>7 DEF AddFieldReport
      <3>2. QED
        BY <3>1, NothingRemoved
    <2>8. QED
      BY <1>2, <2>1, <2>2, <2>3, <2>4, <2>5, <2>6, <2>7 DEF Step
  <1>3. ASSUME NEW r \in Requests, StatementFails(r) PROVE OwnersRemoval
    BY <1>3, TablesKept DEF StatementFails
  <1>4. CASE PurgeExpired
    <2>1. PICK t \in Nat : t <= now /\ PurgeTables(t, 3)
      BY <1>0, <1>4 DEF PurgeExpired, PurgeUpTo
    <2>2. QED
      BY <2>1, PurgeRemoval
  <1>5. CASE Crash
    BY <1>0, <1>5, TablesKept, PurgeRemoval DEF Crash
  <1>6. CASE PurgeFails
    BY <1>0, <1>6, PurgeRemoval DEF PurgeFails
  <1>7. CASE Tick
    BY <1>7, TablesKept DEF Tick
  <1>8. CASE UNCHANGED vars
    BY <1>8, TablesKept DEF vars
  <1>9. QED
    BY <1>1, <1>2, <1>3, <1>4, <1>5, <1>6, <1>7, <1>8 DEF Next

\* For any requests, keys, times and faults, unexpired data stays as long as its account
\* does, unless its owner asked for its removal, and an account whose session has not
\* expired ends at its owner's request only (the purge, the clean-up of expired rows and
\* the foreign keys' cascades).
THEOREM LiveDataIsKept == Spec => LiveDataKeptWithAccount
<1>1. IInv /\ [Next]_vars => DueRemoval
  BY StepRemoval, RemovalIsDue
<1> QED BY <1>1, Invariant, PTL DEF Spec, LiveDataKeptWithAccount

-----------------------------------------------------------------------------
(* The retry of a save. *)

\* Rows are not changed, new ones have identifiers of their own, and what has expired
\* stays expired.
LEMMA RemembersStable ==
    ASSUME TypeOK, TableStep, now' \in Nat, now' >= now, NEW q \in Request, Remembers(q)
    PROVE  Remembers(q)'
  <1>1. /\ lastRoute \in Nat /\ lastRoute' \in Nat /\ lastRoute' >= lastRoute
        /\ \A x \in saved_routes' : x \in saved_routes \/ x.id = lastRoute + 1
        /\ saved_routes \subseteq Route /\ q.original \in Nat /\ now \in Nat
    BY TableTypes DEF TypeOK, Request
  <1>2. \A x \in saved_routes' : x.id = q.original => x \in saved_routes
    BY <1>1 DEF Remembers
  <1>3. \A x \in saved_routes : x.expiresAt <= now => x.expiresAt <= now'
    BY <1>1 DEF Route
  <1> QED BY <1>1, <1>2, <1>3 DEF Remembers

\* A step of one request, or of none, after which that request's record is q.
LEMMA SteppedRemembers ==
    ASSUME TypeOK, RetriesSound, TableStep, now' \in Nat, now' >= now,
           \/ UNCHANGED request
           \/ \E r \in Requests, q \in Request :
                 Remembers(q)' /\ request' = [request EXCEPT ![r] = q]
    PROVE  RetriesSound'
  <1>1. \A x \in saved_routes' : x.id # 0
    BY TableTypes DEF RetriesSound, TypeOK
  <1>2. \A p \in Requests : request[p] \in Request /\ Remembers(request[p])
    BY DEF TypeOK, RetriesSound
  <1>3. \A c \in Request : Remembers(c) => Remembers(c)'
    BY RemembersStable
  <1>4. ASSUME NEW p \in Requests PROVE Remembers(request[p])'
    <2>1. CASE request'[p] = request[p]
      BY <1>2, <1>3, <2>1 DEF Remembers
    <2>2. CASE request'[p] # request[p]
      <3>1. PICK q \in Request : Remembers(q)' /\ request'[p] = q
        BY <2>2 DEF TypeOK
      <3> QED BY <3>1 DEF Remembers
    <2> QED BY <2>1, <2>2
  <1> QED BY <1>1, <1>4 DEF RetriesSound

\* An answered request remembers nothing: no row has identifier 0.
LEMMA AnswerRemembers ==
    ASSUME TypeOK, RetriesSound, TableStep,
           NEW r \in Requests, NEW status, NEW id, Answer(r, status, id)
    PROVE  \E q \in Request : Remembers(q)' /\ request' = [request EXCEPT ![r] = q]
  <1>1. NoRequest \in Request /\ lastRoute' \in Nat
    BY NoRequestSound, TableTypes
  <1>2. \A x \in saved_routes' : x.id # 0
    BY TableTypes DEF RetriesSound, TypeOK
  <1>3. Remembers(NoRequest)'
    BY <1>1, <1>2 DEF Remembers, NoRequest
  <1> QED BY <1>1, <1>3 DEF Answer

\* A request that awaits its next statement keeps what it remembers, as long as it has
\* found the row expired when it goes on to delete or insert.
LEMMA AwaitRemembers ==
    ASSUME TypeOK, RetriesSound, TableStep, now' \in Nat, now' >= now,
           NEW r \in Requests, NEW id \in Nat, NEW value \in Nat,
           NEW pc \in {"serve", "expire", "insert"}, Await(r, pc, id, value),
           pc # "serve" => \A x \in saved_routes : x.id = request[r].original => x.expiresAt <= now
    PROVE  \E q \in Request : Remembers(q)' /\ request' = [request EXCEPT ![r] = q]
  <1>1. request[r] \in Request /\ Since \in Nat /\ Remembers(request[r])
    BY DEF TypeOK, Since, RetriesSound
  <1>2. PICK q \in Request :
          /\ q.pc = pc /\ q.op = request[r].op /\ q.user = request[r].user
          /\ q.key = request[r].key /\ q.original = request[r].original
          /\ request' = [request EXCEPT ![r] = q]
    <2> DEFINE new == [request[r] EXCEPT
                         !.pc = pc, !.route = id, !.since = Since, !.at = value]
    <2>1. /\ new \in Request /\ new.pc = pc /\ new.op = request[r].op
          /\ new.user = request[r].user /\ new.key = request[r].key
          /\ new.original = request[r].original
      BY <1>1 DEF Request
    <2>2. request' = [request EXCEPT ![r] = new]
      BY Zenon DEF Await
    <2> HIDE DEF new
    <2> QED BY <2>1, <2>2
  <1>3. Remembers(q)
    BY <1>1, <1>2 DEF Remembers
  <1> QED BY <1>2, <1>3, RemembersStable

\* On arrival a save remembers the row its key names, another request nothing.
LEMMA ArriveRemembers ==
    ASSUME IInv, RetriesSound, NEW r \in Requests, Receive(r)
    PROVE  \E q \in Request : Remembers(q)' /\ request' = [request EXCEPT ![r] = q]
  <1>1. /\ UNCHANGED <<saved_routes, lastRoute, now>> /\ lastRoute \in Nat
        /\ saved_routes \subseteq Route /\ Since \in Nat /\ lastUser \in Nat
    BY DEF Receive, ReceiveIssue, ReceiveSave, ReceiveOnRoute, ReceiveErase, Arrive, tables,
           minted, IInv, TypeOK, Since
  <1>2. ASSUME NEW q \in Request, Arrive(r, q), Remembers(q)
        PROVE  \E c \in Request : Remembers(c)' /\ request' = [request EXCEPT ![r] = c]
    <2>1. Remembers(q)'
      BY <1>1, <1>2 DEF Remembers
    <2> QED BY <1>2, <2>1 DEF Arrive
  <1>3. ASSUME NEW pc \in {"auth", "serve"}, NEW op \in Ops, op # "save",
               NEW u \in Nat, NEW id \in Nat
        PROVE  Incoming(pc, op, u, id) \in Request /\ Remembers(Incoming(pc, op, u, id))
    BY <1>1, <1>3 DEF Incoming, Request, Remembers, RetriesSound
  <1>4. CASE ReceiveIssue(r) \/ ReceiveErase(r)
    BY <1>1, <1>2, <1>3, <1>4 DEF ReceiveIssue, ReceiveErase, Ops
  <1>5. CASE ReceiveOnRoute(r)
    BY <1>1, <1>2, <1>3, <1>5 DEF ReceiveOnRoute, Ops
  <1>6. CASE ReceiveSave(r)
    <2>1. PICK u \in 1 .. lastUser, key \in Keys, ttl \in PolicyTtls :
            Arrive(r, IncomingSave(u, key, ttl))
      BY <1>6 DEF ReceiveSave
    <2> DEFINE rows == RouteWithKey(u, key)
               original == IF rows = {} THEN 0 ELSE (CHOOSE x \in rows : TRUE).id
    <2>2. /\ original \in Nat /\ original <= lastRoute
          /\ \A x \in saved_routes : x.id = original =>
                key # NoKey /\ x.user = u /\ x.key = key
      <3>1. CASE rows = {}
        BY <1>1, <3>1 DEF RetriesSound
      <3>2. CASE rows # {}
        <4>1. PICK x \in rows : original = x.id
          BY <3>2
        <4>2. x \in saved_routes /\ key # NoKey /\ x.user = u /\ x.key = key
          BY <4>1 DEF RouteWithKey
        <4> QED BY <1>1, <4>1, <4>2 DEF IInv, IdsUnique, Route
      <3> QED BY <3>1, <3>2
    <2>3. IncomingSave(u, key, ttl) =
            [pc |-> "auth", op |-> "save", user |-> u, key |-> key, ttl |-> ttl,
             route |-> 0, since |-> Since, at |-> 0, original |-> original]
      BY DEF IncomingSave
    <2> HIDE DEF original
    <2>4. IncomingSave(u, key, ttl) \in Request
      BY <1>1, <2>2, <2>3, ConstantsAssumption DEF Request, Ops
    <2>5. Remembers(IncomingSave(u, key, ttl))
      BY <2>2, <2>3 DEF Remembers
    <2> QED BY <1>2, <2>1, <2>4, <2>5
  <1> QED BY <1>4, <1>5, <1>6 DEF Receive

\* A look-up by key that goes on has found no row, or the one its user has under that
\* key and that expired: the row it remembers, if that is still there.
LEMMA LookupRemembers ==
    ASSUME IInv, RetriesSound, NEW r \in Requests, NEW t \in StatementTimes(r),
           request[r].key # NoKey,
           LET rows == RouteWithKey(request[r].user, request[r].key)
           IN  rows = {} \/ \E x \in rows : x \notin Live(rows, t)
    PROVE  \A x \in saved_routes : x.id = request[r].original => x.expiresAt <= now
  <1>1. t \in Nat /\ t <= now /\ now \in Nat /\ saved_routes \subseteq Route
    BY StatementTimesNat DEF IInv, TypeOK
  <1>2. SUFFICES ASSUME NEW x \in saved_routes, x.id = request[r].original
                 PROVE  x.expiresAt <= now
    OBVIOUS
  <1>3. x \in RouteWithKey(request[r].user, request[r].key)
    BY <1>2 DEF RetriesSound, Remembers, RouteWithKey
  <1>4. PICK y \in RouteWithKey(request[r].user, request[r].key) :
          y \notin Live(RouteWithKey(request[r].user, request[r].key), t)
    BY <1>3
  <1>5. y = x
    BY <1>3, <1>4 DEF IInv, OneRoutePerKey, RouteWithKey
  <1> QED BY <1>1, <1>4, <1>5 DEF Live, Route

\* A request's own steps.
LEMMA StepRemembers ==
    ASSUME IInv, RetriesSound, NEW r \in Requests, Step(r), TableStep,
           now' \in Nat, now' >= now
    PROVE  \E q \in Request : Remembers(q)' /\ request' = [request EXCEPT ![r] = q]
  <1>1. TypeOK /\ request[r] \in Request /\ Remembers(request[r]) /\ saved_routes \subseteq Route
    BY DEF IInv, TypeOK, RetriesSound
  <1>2. ASSUME NEW status, NEW id, Answer(r, status, id)
        PROVE  \E q \in Request : Remembers(q)' /\ request' = [request EXCEPT ![r] = q]
    BY <1>1, <1>2, AnswerRemembers
  <1>3. CASE IssueSession(r) \/ RejectSave(r) \/ DeleteSavedRoute(r) \/ DeleteAllUserData(r)
             \/ AddFieldReport(r) \/ SaveRoute(r)
    <2>1. \E status, id : Answer(r, status, id)
      <3>1. CASE SaveRoute(r)
        <4>1. PICK t : InsertRoute(r, t)
          BY <3>1 DEF SaveRoute
        <4>2. Answer(r, 201, lastRoute + 1) \/ Answer(r, 500, 0)
          BY <4>1 DEF InsertRoute
        <4> QED BY <4>2, Zenon
      <3>2. CASE AddFieldReport(r)
        <4>1. Answer(r, 201, request[r].route) \/ Answer(r, 500, 0)
          BY <3>2 DEF AddFieldReport
        <4> QED BY <4>1, Zenon
      <3>3. CASE IssueSession(r) \/ RejectSave(r)
        BY <3>3, Zenon DEF IssueSession, RejectSave
      <3>4. CASE DeleteSavedRoute(r) \/ DeleteAllUserData(r)
        BY <3>4, Zenon DEF DeleteSavedRoute, DeleteAllUserData
      <3> QED BY <1>3, <3>1, <3>2, <3>3, <3>4
    <2> QED BY <1>2, <2>1
  <1>4. CASE Authenticate(r)
    <2>1. Await(r, "serve", request[r].route, 0) \/ Answer(r, 401, 0)
      BY <1>4 DEF Authenticate
    <2>2. request[r].route \in Nat
      BY <1>1 DEF Request
    <2> QED BY <1>1, <1>2, <2>1, <2>2, AwaitRemembers
  <1>5. CASE FindSavedRouteByIdempotencyKey(r)
    <2> DEFINE rows == RouteWithKey(request[r].user, request[r].key)
    <2>1. PICK t \in StatementTimes(r) :
            \/ \E x \in Live(rows, t) : Answer(r, 201, x.id)
            \/ rows = {} /\ Await(r, "insert", 0, t)
            \/ \E x \in rows \ Live(rows, t) :
                  Await(r, "insert", 0, t) \/ Await(r, "expire", x.id, t)
      BY <1>5, Zenon DEF FindSavedRouteByIdempotencyKey
    <2>2. request[r].key # NoKey /\ t \in Nat
      BY <1>1, <1>5, StatementTimesNat DEF FindSavedRouteByIdempotencyKey
    <2>3. CASE \E x \in Live(rows, t) : Answer(r, 201, x.id)
      BY <1>2, <2>3
    <2>4. CASE rows = {} /\ Await(r, "insert", 0, t)
      <3>1. \A x \in saved_routes : x.id = request[r].original => x.expiresAt <= now
        BY <2>2, <2>4, LookupRemembers
      <3> QED BY <1>1, <2>2, <2>4, <3>1, AwaitRemembers
    <2>5. ASSUME NEW x \in rows \ Live(rows, t),
                 Await(r, "insert", 0, t) \/ Await(r, "expire", x.id, t)
          PROVE  \E q \in Request : Remembers(q)' /\ request' = [request EXCEPT ![r] = q]
      <3>1. \A y \in saved_routes : y.id = request[r].original => y.expiresAt <= now
        BY <2>2, LookupRemembers
      <3>2. x.id \in Nat
        BY <1>1 DEF RouteWithKey, Route
      <3> QED BY <1>1, <2>2, <2>5, <3>1, <3>2, AwaitRemembers
    <2> QED BY <2>1, <2>3, <2>4, <2>5
  <1>6. CASE DeleteExpiredRow(r)
    <2>1. request[r].pc = "expire" /\ Await(r, "insert", 0, request[r].at)
      BY <1>6 DEF DeleteExpiredRow, Serving
    <2>2. request[r].at \in Nat
      BY <1>1 DEF Request
    <2>3. \A x \in saved_routes : x.id = request[r].original => x.expiresAt <= now
      BY <1>1, <2>1 DEF Remembers
    <2> QED BY <1>1, <2>1, <2>2, <2>3, AwaitRemembers
  <1>7. CASE GetSavedRoute(r)
    <2>1. \/ \E status : Answer(r, status, 0)
          \/ \E x \in saved_routes : Await(r, "insert", x.id, x.expiresAt)
      BY <1>7 DEF GetSavedRoute, Live, RouteOf
    <2>2. request[r].op = "report"
      BY <1>7 DEF GetSavedRoute, Serving
    <2>3. \A x \in saved_routes : x.id # request[r].original
      BY <1>1, <2>2 DEF RetriesSound, Remembers
    <2>4. ASSUME NEW x \in saved_routes, Await(r, "insert", x.id, x.expiresAt)
          PROVE  \E q \in Request : Remembers(q)' /\ request' = [request EXCEPT ![r] = q]
      <3>1. x.id \in Nat /\ x.expiresAt \in Nat
        BY <1>1 DEF Route
      <3> QED BY <1>1, <2>3, <2>4, <3>1, AwaitRemembers
    <2> QED BY <1>2, <2>1, <2>4
  <1> QED BY <1>3, <1>4, <1>5, <1>6, <1>7 DEF Step

\* The clock does not go back.
LEMMA ClockStep == TypeOK /\ [Next]_vars => now' \in Nat /\ now' >= now
  <1> SUFFICES ASSUME TypeOK, [Next]_vars PROVE now' = now \/ now' = now + 1
    BY DEF TypeOK
  <1>1. ASSUME NEW r \in Requests, Receive(r) PROVE now' = now
    BY <1>1 DEF Receive, ReceiveIssue, ReceiveSave, ReceiveOnRoute, ReceiveErase, Arrive
  <1>2. ASSUME NEW r \in Requests, Step(r) PROVE now' = now
    <2>1. CASE SaveRoute(r)
      BY <2>1 DEF SaveRoute, InsertRoute
    <2> QED BY <1>2, <2>1, Zenon
            DEF Step, IssueSession, Authenticate, RejectSave, FindSavedRouteByIdempotencyKey,
                DeleteExpiredRow, DeleteSavedRoute, DeleteAllUserData, GetSavedRoute, AddFieldReport
  <1>3. ASSUME NEW r \in Requests, StatementFails(r) PROVE now' = now
    BY <1>3 DEF StatementFails
  <1>4. CASE PurgeExpired \/ Crash \/ PurgeFails \/ UNCHANGED vars
    BY <1>4, Zenon DEF PurgeExpired, PurgeUpTo, Crash, PurgeFails, vars
  <1>5. CASE Tick
    BY <1>5 DEF Tick
  <1> QED BY <1>1, <1>2, <1>3, <1>4, <1>5 DEF Next

LEMMA NextRemembers == IInv /\ RetriesSound /\ [Next]_vars => RetriesSound'
  <1> SUFFICES ASSUME IInv, RetriesSound, [Next]_vars PROVE RetriesSound'
    OBVIOUS
  <1>1. TypeOK /\ TableStep /\ now \in Nat
    BY StepShape DEF IInv, TypeOK
  <1>2. now' \in Nat /\ now' >= now
    BY ClockStep DEF IInv
  <1>3. ASSUME NEW r \in Requests, Receive(r) PROVE RetriesSound'
    BY <1>1, <1>2, <1>3, ArriveRemembers, SteppedRemembers
  <1>4. ASSUME NEW r \in Requests, Step(r) PROVE RetriesSound'
    BY <1>1, <1>2, <1>4, StepRemembers, SteppedRemembers
  <1>5. ASSUME NEW r \in Requests, StatementFails(r) PROVE RetriesSound'
    BY <1>1, <1>2, <1>5, AnswerRemembers, SteppedRemembers DEF StatementFails
  <1>6. CASE Crash
    <2>1. NoRequest \in Request /\ Remembers(NoRequest)' /\ \A x \in saved_routes' : x.id # 0
      <3>1. NoRequest \in Request /\ lastRoute' \in Nat
        BY <1>1, NoRequestSound, TableTypes
      <3>2. \A x \in saved_routes' : x.id # 0
        BY <1>1, TableTypes DEF RetriesSound, TypeOK
      <3> QED BY <3>1, <3>2 DEF Remembers, NoRequest
    <2>2. request' = [r \in Requests |-> NoRequest]
      BY <1>6 DEF Crash
    <2> QED BY <2>1, <2>2 DEF RetriesSound, Remembers
  <1>7. CASE PurgeExpired \/ PurgeFails \/ Tick \/ UNCHANGED vars
    <2>1. UNCHANGED request
      BY <1>7 DEF PurgeExpired, PurgeUpTo, PurgeFails, Tick, vars
    <2> QED BY <1>1, <1>2, <2>1, SteppedRemembers
  <1> QED BY <1>3, <1>4, <1>5, <1>6, <1>7 DEF Next

LEMMA RetriesInvariant == Spec => []RetriesSound
  <1>1. Init => RetriesSound
    BY DEF Init, RetriesSound, Remembers, NoRequest
  <1> QED BY <1>1, NextRemembers, Invariant, PTL DEF Spec

\* A save that ends with the status of a stored route or of a failure, without a fault,
\* while the row that its key named on arrival is live: it has found that row.
LEMMA SaveAnswers ==
    ASSUME IInv, RetriesSound, NEW r \in Requests, Step(r), request[r].op = "save",
           NEW x \in Live(saved_routes, now), x.id = request[r].original,
           request'[r].pc = "done", reply'.status \in {201, 500}
    PROVE  reply' = [status |-> 201, route |-> request[r].original]
  <1> DEFINE q == request[r]
             rows == RouteWithKey(q.user, q.key)
  <1>1. /\ TypeOK /\ q \in Request /\ Remembers(q) /\ now \in Nat
        /\ x \in saved_routes /\ x \in Route /\ ~ (x.expiresAt <= now)
    BY DEF IInv, TypeOK, RetriesSound, Live, Route
  <1>2. q.key # NoKey /\ x \in rows /\ q.pc \notin {"expire", "insert"}
    BY <1>1 DEF Remembers, RouteWithKey
  <1>3. \A y \in rows : y = x
    BY <1>1, <1>2 DEF IInv, OneRoutePerKey, RouteWithKey
  <1>4. ASSUME NEW pc \in {"serve", "expire", "insert"}, NEW id, NEW value, Await(r, pc, id, value)
        PROVE  FALSE
    <2>1. request'[r].pc = pc
      BY <1>1, <1>4 DEF Await, TypeOK, Request
    <2> QED BY <2>1
  <1>5. CASE Authenticate(r)
    <2>1. Answer(r, 401, 0)
      BY <1>4, <1>5 DEF Authenticate
    <2> QED BY <2>1 DEF Answer
  <1>6. CASE RejectSave(r)
    BY <1>6 DEF RejectSave, Answer
  <1>7. CASE FindSavedRouteByIdempotencyKey(r)
    <2>1. PICK t \in StatementTimes(r) :
            \/ \E y \in Live(rows, t) : Answer(r, 201, y.id) /\ UNCHANGED tables
            \/ /\ rows = {}
               /\ Await(r, "insert", 0, t) /\ UNCHANGED tables
            \/ \E y \in rows \ Live(rows, t) :
                 IF store = "sqlite"
                 THEN Await(r, "insert", 0, t) /\ DeleteRoutes({y})
                 ELSE Await(r, "expire", y.id, t) /\ UNCHANGED tables
      BY <1>7 DEF FindSavedRouteByIdempotencyKey
    <2>2. PICK y \in Live(rows, t) : Answer(r, 201, y.id)
      <3>1. ~ Await(r, "insert", 0, t)
        BY <1>4
      <3>2. ASSUME NEW y PROVE ~ Await(r, "expire", y.id, t)
        BY <1>4
      <3> HIDE DEF rows, q
      <3>3. ~ \E y \in rows \ Live(rows, t) :
                 IF store = "sqlite"
                 THEN Await(r, "insert", 0, t) /\ DeleteRoutes({y})
                 ELSE Await(r, "expire", y.id, t) /\ UNCHANGED tables
        BY <3>1, <3>2
      <3> QED BY <2>1, <3>1, <3>3
    <2>3. y = x
      BY <1>3 DEF Live
    <2> QED BY <2>2, <2>3 DEF Answer
  <1>8. CASE SaveRoute(r) \/ DeleteExpiredRow(r)
    BY <1>2, <1>8 DEF SaveRoute, DeleteExpiredRow, Serving
  <1> QED BY <1>5, <1>6, <1>7, <1>8
          DEF Step, IssueSession, DeleteSavedRoute, DeleteAllUserData, GetSavedRoute,
              AddFieldReport, Serving

\* The retry of a save whose row is live is answered with that row, whatever else runs:
\* other saves, deletions, purges and the clean-up of expired rows between its statements.
THEOREM RetriesReturnOriginal == Spec => RetryReturnsOriginal
  <1> DEFINE Returned(r) ==
               LET q == request[r]
               IN  /\ q.op = "save" /\ request'[r].pc = "done" /\ reply'.status \in {201, 500}
                   /\ \E x \in Live(saved_routes, now) : x.id = q.original
                   /\ faults' = faults
                   => reply' = [status |-> 201, route |-> q.original]
  <1>1. IInv /\ RetriesSound /\ [Next]_vars => [\A r \in Requests : Returned(r)]_vars
    <2> SUFFICES ASSUME IInv, RetriesSound, [Next]_vars, NEW r \in Requests,
                        request[r].op = "save", request'[r].pc = "done",
                        reply'.status \in {201, 500}, faults' = faults,
                        NEW x \in Live(saved_routes, now), x.id = request[r].original
                 PROVE  reply' = [status |-> 201, route |-> request[r].original]
      OBVIOUS
    <2>1. request[r].pc # "done" /\ faults \in Nat /\ request \in [Requests -> Request]
      BY DEF RetriesSound, Remembers, IInv, TypeOK
    <2>2. request'[r] # request[r]
      BY <2>1
    <2>3. ~ Crash /\ ~ PurgeFails /\ \A p \in Requests : ~ StatementFails(p)
      BY <2>1 DEF Crash, PurgeFails, StatementFails, Fault
    <2>4. ~ PurgeExpired /\ ~ Tick /\ ~ UNCHANGED vars
      BY <2>2 DEF PurgeExpired, PurgeUpTo, Tick, vars
    <2>5. ASSUME NEW p \in Requests, Receive(p) PROVE FALSE
      BY <2>5 DEF Receive, ReceiveIssue, ReceiveSave, ReceiveOnRoute, ReceiveErase, Arrive, NoReply
    <2>6. PICK p \in Requests : Step(p)
      BY <2>3, <2>4, <2>5 DEF Next
    <2>7. p = r
      <3>1. \E q : request' = [request EXCEPT ![p] = q]
        BY <2>6, StepRemembers, StepShape, ClockStep DEF IInv
      <3> QED BY <2>1, <2>2, <3>1
    <2> QED BY <2>6, <2>7, SaveAnswers
  <1> QED BY <1>1, RetriesInvariant, Invariant, PTL DEF Spec, RetryReturnsOriginal
=============================================================================
