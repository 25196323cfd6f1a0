------------------------------- MODULE Server -------------------------------
(***************************************************************************)
(* The production runtime: processes that open the store, listen on one    *)
(* port, serve requests through the HTTP adapter and the API's handler,    *)
(* and shut down.  A request is a process; `pc' is what it awaits.  What a *)
(* call into the store does is module UserData's, what a plan does is      *)
(* RouteSearch's and what the limiter admits is Quota's: here they answer  *)
(* with any status they can.                                               *)
(***************************************************************************)
EXTENDS Migration

CONSTANTS
    Requests,   \* connections, with one request each
    Askers,     \* those that send their request; the others stay silent
    MaxStarts   \* bound: processes started

ASSUME ServerAssumption ==
    Processes # {} /\ Askers \subseteq Requests /\ MaxStarts \in Nat

VARIABLES
    phase,   \* per process: its life from start to exit
    req,     \* the requests
    starts   \* bounded count

vars == <<migrationVars, phase, req, starts>>

-----------------------------------------------------------------------------
(* What can be asked, and what openapi.json documents as the answer. *)

\* "info" stands for health, capabilities, map-config, legal-config and openapi.json.
Paths   == {"amap", "metrics", "file", "unknown", "info", "ready", "plan",
            "session", "saved", "savedRoute", "feedback"}
Methods == {"GET", "POST", "DELETE"}
Bodies  == {"none", "sound", "invalid", "garbled", "large", "otherType"}

UserPaths == {"session", "saved", "savedRoute", "feedback"}
ReadsBody == {<<"plan", "POST">>, <<"saved", "POST">>, <<"feedback", "POST">>}
RuntimeErrors == {429, 500, 503}
BodyErrors    == {413, 415} \cup RuntimeErrors

\* The operations of the document and the statuses each may answer with.
Operations == {<<"info", "GET">>, <<"ready", "GET">>, <<"plan", "POST">>,
               <<"session", "POST">>, <<"session", "DELETE">>, <<"saved", "GET">>,
               <<"saved", "POST">>, <<"savedRoute", "DELETE">>, <<"feedback", "POST">>}
Documented(path, method) ==
    CASE path = "info" -> {200}
      [] path = "ready" -> {200, 503}
      [] path = "plan" -> {200, 400, 404, 408, 413, 415, 422, 429, 500, 503, 504}
      [] path = "session" /\ method = "POST" -> {201} \cup RuntimeErrors
      [] path = "session" /\ method = "DELETE" -> {200, 401} \cup RuntimeErrors
      [] path = "saved" /\ method = "GET" -> {200, 401} \cup RuntimeErrors
      [] path = "saved" /\ method = "POST" -> {201, 400, 401, 403} \cup BodyErrors
      [] path = "savedRoute" -> {200, 401, 404} \cup RuntimeErrors
      [] path = "feedback" -> {201, 400, 401, 404} \cup BodyErrors

\* The requests tried: every documented operation, and a GET or a POST elsewhere.
Inputs == {i \in [path : Paths, method : Methods, body : Bodies] :
              /\ i.method = "DELETE" => <<i.path, i.method>> \in Operations \cup {<<"amap", "DELETE">>}
              /\ <<i.path, i.method>> \notin ReadsBody => i.body = "none"}

\* planRoutes settles with a result, or with an error of routeErrorStatus.
PlanStatuses == {200, 400, 404, 422, 429, 500, 503, 504}

-----------------------------------------------------------------------------
Pcs == {"free", "connected", "file", "body", "handler", "auth", "call", "write", "ready", "plan",
        "upstream", "answer", "done"}
Free == [pc |-> "free", proc |-> CHOOSE p \in Processes : TRUE, path |-> "info",
         method |-> "GET", body |-> "none", conn |-> FALSE, planning |-> FALSE,
         status |-> 0, late |-> FALSE]

Statuses == {0, 200, 201, 502} \cup 400 .. 504
Request  == [pc : Pcs, proc : Processes, path : Paths, method : Methods, body : Bodies,
             conn : BOOLEAN,      \* the client is connected
             planning : BOOLEAN,  \* planRoutes runs for it
             status : Statuses,
             late : BOOLEAN]      \* the answer comes from a closed store

TypeOK ==
    /\ MigrationTypeOK
    /\ phase \in [Processes -> {"off", "starting", "listening", "closing", "closed"}]
    /\ req \in [Requests -> Request]
    /\ \A r \in Requests : req[r].status = 0 <=> req[r].pc # "answer"
    /\ starts \in 0 .. MaxStarts

Init ==
    /\ MigrationInit
    /\ phase = [p \in Processes |-> "off"]
    /\ req = [r \in Requests |-> Free]
    /\ starts = 0

\* The requests of process p.
Of(p) == {r \in Requests : req[r].proc = p /\ req[r].pc # "free"}

At(q, pc)      == [q EXCEPT !.pc = pc]
Answered(q, s) == [q EXCEPT !.pc = "answer", !.status = s]

-----------------------------------------------------------------------------
(* The code between two awaits: from a request to those it can become. *)

\* toWebRequest: it awaits the body, but for GET.
WebRequest(q) == At(q, IF q.method = "GET" THEN "handler" ELSE "body")

\* The adapter's own paths, the static files, and the rest for the handler.
Dispatched(q) ==
    CASE q.path = "amap" -> {Answered(q, 503), WebRequest(q)}
      [] q.path = "metrics" -> {Answered(q, 401), Answered(q, IF q.method = "GET" THEN 200 ELSE 405)}
      [] q.path = "file" /\ q.method = "GET" -> {At(q, "file")}
      [] OTHER -> {WebRequest(q)}

\* staticResponse: the file, or index.html in its place, or nothing when that is missing
\* too; an undecodable path; an error of the file system.
FileRead(q) ==
    {At(q, "handler")} \cup {Answered(q, s) : s \in {200, 400, 404, 500}}

\* proxyAmapJsApiRequest, up to the fetch.
Proxied(q) ==
    IF q.method = "DELETE" THEN {Answered(q, 405)}
    ELSE {At(q, "upstream")} \cup {Answered(q, s) : s \in {403, 404, 413}}

\* readJsonBody.
Readable(q)  == q.body \in {"sound", "invalid"}
ReadError(q) == CASE q.body = "otherType" -> 415 [] q.body = "large" -> 413 [] OTHER -> 400

\* mapPlanRoutesApiRequest; planRoutes itself refuses a value that is out of range.
Mapped(q) == q.body = "sound"

\* The plan endpoint up to the race of executePlan.  An aborted signal loses it at once.
PlanBegun(q) ==
    CASE ~ Readable(q) -> {Answered(q, ReadError(q))}
      [] ~ Mapped(q) /\ Readable(q) -> {Answered(q, 400)}
      [] OTHER -> LET begun == [q EXCEPT !.planning = TRUE]
                  IN  {IF q.conn THEN At(begun, "plan") ELSE Answered(begun, 408)}

\* createServerApi up to its first await.  The limiter covers plans and user data.
Handled(q) ==
    LET limited == q.path \in UserPaths \cup {"plan"}
        get(next) == {IF q.method = "GET" THEN next ELSE Answered(q, 405)} IN
    (IF limited THEN {Answered(q, 429)} ELSE {}) \cup
    CASE q.path = "amap" -> Proxied(q)
      [] q.path = "info" -> get(Answered(q, 200))
      [] q.path = "ready" -> get(At(q, "ready"))
      [] q.path = "session" -> {CASE q.method = "POST" -> At(q, "call")
                                  [] q.method = "DELETE" -> At(q, "auth")
                                  [] OTHER -> Answered(q, 405)}
      [] q.path \in UserPaths \ {"session"} -> {At(q, "auth")}
      [] q.path = "plan" -> IF q.method = "POST" THEN PlanBegun(q) ELSE {Answered(q, 405)}
      [] OTHER -> {Answered(q, 404)}

\* The user is known: the body is read and, for a save, validated before the first call
\* into the store.  What readJsonBody throws is no UserDataError and becomes a 500.
Authenticated(q) ==
    CASE <<q.path, q.method>> \notin Operations -> {Answered(q, 405)}
      [] <<q.path, q.method>> \in ReadsBody /\ ~ Readable(q) -> {Answered(q, 500)}
      [] q.path = "saved" /\ q.body = "invalid" -> {Answered(q, 400), Answered(q, 403)}
      [] OTHER -> {At(q, "call")}

CalledAlike(q) ==  \* mutant: an account that is gone answers like a route that is gone
    {Answered(q, s) : s \in {200, 201, 404, 500}}

\* The first call of the operation: a save finds its key or not, a report its route.
Called(q) ==
    {Answered(q, 500)} \cup
    CASE q.path = "session" /\ q.method = "POST" -> {Answered(q, 201)}
      [] q.path = "session" /\ q.method = "DELETE" -> {Answered(q, 200), Answered(q, 401)}
      [] q.path = "saved" /\ q.method = "GET" -> {Answered(q, 200)}
      [] q.path = "saved" /\ q.method = "POST" -> {Answered(q, 201), At(q, "write")}
      [] q.path = "savedRoute" -> {Answered(q, 200), Answered(q, 404)}
      [] q.path = "feedback" -> {Answered(q, 404), IF q.body = "sound" THEN At(q, "write")
                                                   ELSE Answered(q, 400)}

LateUnanswered(q, status) ==  \* mutant: nothing catches what the closed store throws
    [At(q, "answer") EXCEPT !.late = TRUE]

\* A call into a closed store throws, whichever it is.
Late(q, status) == [Answered(q, status) EXCEPT !.late = TRUE]

Opened(q) == store[q.proc] = "open"

-----------------------------------------------------------------------------
(* Requests. *)

\* Request r goes on as one of the outcomes.
Becomes(r, outcomes) ==
    /\ \E q \in outcomes : req' = [req EXCEPT ![r] = q]
    /\ UNCHANGED <<migrationVars, phase, starts>>

Accept(r, p) ==
    /\ phase[p] = "listening" /\ req[r].pc = "free"
    /\ Becomes(r, {[Free EXCEPT !.pc = "connected", !.proc = p, !.conn = TRUE]})

\* The headers arrive.  A connection that was open at a shutdown is still served.
Receive(r) ==
    LET q == req[r] IN
    /\ q.pc = "connected"
    /\ r \in Askers
    /\ \E i \in Inputs :
          Becomes(r, Dispatched([q EXCEPT !.path = i.path, !.method = i.method, !.body = i.body]))

ReadFile(r) == req[r].pc = "file" /\ Becomes(r, FileRead(req[r]))

\* The client has sent the whole body.
ReadBody(r) == req[r].pc = "body" /\ Becomes(r, {At(req[r], "handler")})

Handle(r) == req[r].pc = "handler" /\ Becomes(r, Handled(req[r]))

\* The token is verified, then the session's row is looked up.
Authenticate(r) ==
    LET q == req[r] IN
    /\ q.pc = "auth"
    /\ Becomes(r, {Answered(q, 401)} \cup
                  IF Opened(q) THEN {Answered(q, 500)} \cup Authenticated(q) ELSE {Late(q, 500)})

CallStore(r) ==
    LET q == req[r] IN
    /\ q.pc = "call"
    /\ Becomes(r, IF Opened(q) THEN Called(q) ELSE {Late(q, 500)})

WriteStore(r) ==
    LET q == req[r] IN
    /\ q.pc = "write"
    /\ Becomes(r, IF Opened(q) THEN {Answered(q, 201), Answered(q, 500)} ELSE {Late(q, 500)})

\* readinessCheck: the store's health, which throws when it is closed, and index.html.
CheckReady(r) ==
    LET q == req[r] IN
    /\ q.pc = "ready"
    /\ Becomes(r, IF Opened(q) THEN {Answered(q, 200), Answered(q, 503)} ELSE {Late(q, 503)})

\* The race of executePlan: planRoutes settles, the time-out fires and aborts it, or the
\* client has gone.  In the last two cases planRoutes goes on until it notices.
PlanSettles(r) ==
    LET q == req[r] IN
    /\ q.pc = "plan" /\ q.conn
    /\ Becomes(r, {[Answered(q, s) EXCEPT !.planning = FALSE] : s \in PlanStatuses})

PlanTimesOut(r) == req[r].pc = "plan" /\ req[r].conn /\ Becomes(r, {Answered(req[r], 504)})

PlanAborted(r) == req[r].pc = "plan" /\ ~ req[r].conn /\ Becomes(r, {Answered(req[r], 408)})

PlanNotices(r) ==
    /\ req[r].planning /\ req[r].pc # "plan"
    /\ Becomes(r, {[req[r] EXCEPT !.planning = FALSE]})

\* The proxied service answers, or the fetch fails; it does once the client has gone.
UpstreamAnswers(r) ==
    req[r].pc = "upstream" /\ req[r].conn /\ Becomes(r, {Answered(req[r], s) : s \in {200, 502}})

UpstreamAborted(r) ==
    req[r].pc = "upstream" /\ ~ req[r].conn /\ Becomes(r, {Answered(req[r], 502)})

\* writeNodeResponse or writeTransportFailure.
Respond(r) ==
    LET q == req[r] IN
    /\ q.pc = "answer"
    /\ Becomes(r, {[Free EXCEPT !.pc = "done", !.proc = q.proc, !.conn = q.conn,
                                !.planning = q.planning]})

\* The connection of q is gone: a body that was awaited never comes; what else is awaited
\* goes on, with the request's signal aborted.
Cut(q) ==
    LET cut == [q EXCEPT !.conn = FALSE]
    IN  CASE q.pc = "connected" -> At(cut, "done")
          [] q.pc = "body" -> Answered(cut, 500)
          [] OTHER -> cut

Disconnect(r) == req[r].conn /\ Becomes(r, {Cut(req[r])})

-----------------------------------------------------------------------------
(* Processes. *)

Start(p) ==
    /\ phase[p] = "off" /\ starts < MaxStarts
    /\ OpenFile(p)
    /\ phase' = [phase EXCEPT ![p] = "starting"]
    /\ starts' = starts + 1 /\ UNCHANGED req

\* loadRuntimeConfig throws, before anything is opened.
Misconfigured(p) ==
    /\ phase[p] = "off" /\ starts < MaxStarts
    /\ starts' = starts + 1 /\ UNCHANGED <<migrationVars, phase, req>>

OpenStore(p) == phase[p] = "starting" /\ Upgrade(p) /\ UNCHANGED <<phase, req, starts>>

StartFails(p) ==
    /\ phase[p] = "starting" /\ OpenFails(p)
    /\ phase' = [phase EXCEPT ![p] = "off"]
    /\ UNCHANGED <<req, starts>>

\* After the first purge: the signal handlers are set and the port is taken, unless
\* another process has it; then the store is closed again and the process ends.
Listen(p) ==
    /\ phase[p] = "starting" /\ store[p] = "open"
    /\ IF \E q \in Processes : phase[q] = "listening"
       THEN CloseFile(p) /\ phase' = [phase EXCEPT ![p] = "off"]
       ELSE UNCHANGED migrationVars /\ phase' = [phase EXCEPT ![p] = "listening"]
    /\ UNCHANGED <<req, starts>>

ShutDownAtOnce(p) ==  \* mutant: the store is closed beside server.close, not after it
    /\ phase[p] = "listening"
    /\ phase' = [phase EXCEPT ![p] = "closing"]
    /\ CloseFile(p) /\ UNCHANGED <<req, starts>>

\* SIGTERM or SIGINT: close().  server.close frees the port and closes the connections
\* between two requests; those with a request, or yet without one, stay.
ShutDown(p) ==
    /\ phase[p] = "listening"
    /\ phase' = [phase EXCEPT ![p] = "closing"]
    /\ req' = [r \in Requests |-> IF r \in Of(p) /\ req[r].pc = "done" THEN Cut(req[r]) ELSE req[r]]
    /\ UNCHANGED <<migrationVars, starts>>

ForceCloseIdle(p) ==  \* mutant: closeIdleConnections in place of closeAllConnections
    /\ phase[p] = "closing" /\ \E r \in Of(p) : req[r].conn /\ req[r].pc = "done"
    /\ req' = [r \in Requests |-> IF r \in Of(p) /\ req[r].pc = "done" THEN Cut(req[r]) ELSE req[r]]
    /\ UNCHANGED <<migrationVars, phase, starts>>

\* forceTimer: closeAllConnections.
ForceClose(p) ==
    /\ phase[p] = "closing" /\ \E r \in Of(p) : req[r].conn
    /\ req' = [r \in Requests |-> IF r \in Of(p) /\ req[r].conn THEN Cut(req[r]) ELSE req[r]]
    /\ UNCHANGED <<migrationVars, phase, starts>>

\* server.close calls back when no connection is left; then the store is closed.
ServerClosed(p) ==
    /\ phase[p] = "closing" /\ \A r \in Of(p) : ~ req[r].conn
    /\ phase' = [phase EXCEPT ![p] = "closed"]
    /\ CloseFile(p) /\ UNCHANGED <<req, starts>>

\* Nothing is left to run: a handler or a plan may still have been.
Exit(p) ==
    /\ phase[p] = "closed" /\ \A r \in Of(p) : req[r].pc = "done" /\ ~ req[r].planning
    /\ phase' = [phase EXCEPT ![p] = "off"]
    /\ UNCHANGED <<migrationVars, req, starts>>

\* The process is killed, also by a second signal or a failing first purge.
Crash(p) ==
    /\ phase[p] # "off"
    /\ phase' = [phase EXCEPT ![p] = "off"]
    /\ req' = [r \in Requests |-> IF r \in Of(p) THEN [Free EXCEPT !.pc = "done"] ELSE req[r]]
    /\ IF store[p] = "closed" THEN UNCHANGED migrationVars ELSE CloseFile(p)
    /\ UNCHANGED starts

-----------------------------------------------------------------------------
\* What the event loop and its timers do with a request, whatever the clients and the
\* proxied service do.
Serve(r) ==
    \/ ReadFile(r) \/ Handle(r) \/ Authenticate(r) \/ CallStore(r) \/ WriteStore(r) \/ CheckReady(r)
    \/ PlanTimesOut(r) \/ PlanAborted(r) \/ PlanNotices(r) \/ UpstreamAborted(r) \/ Respond(r)

Outside(r) ==
    \/ (\E p \in Processes : Accept(r, p))
    \/ Receive(r) \/ ReadBody(r) \/ PlanSettles(r) \/ UpstreamAnswers(r) \/ Disconnect(r)

Close(p) == ForceClose(p) \/ ServerClosed(p) \/ Exit(p)

Operate(p) ==
    \/ Start(p) \/ Misconfigured(p) \/ OpenStore(p) \/ StartFails(p)
    \/ Listen(p) \/ ShutDown(p) \/ Crash(p)

AllOff == starts = MaxStarts /\ (\A p \in Processes : phase[p] = "off") /\ UNCHANGED vars

Next ==
    \/ \E r \in Requests : Serve(r) \/ Outside(r)
    \/ \E p \in Processes : Close(p) \/ Operate(p)
    \/ AllOff

\* The event loop runs what is due: continuations, expired timers, closed sockets.
\* Clients, the proxied service and operators owe nothing.
Fairness == WF_vars((\E r \in Requests : Serve(r)) \/ \E p \in Processes : Close(p))

Spec == Init /\ [][Next]_vars /\ Fairness
-----------------------------------------------------------------------------
(* Properties. *)

\* No client that is still connected gets an answer from a store that is closed already.
ClosedStoreUnseen == \A r \in Requests : req[r].late => ~ req[r].conn

\* The answers of the operations that openapi.json documents have documented statuses,
\* whatever fails on the way.
AnswersDocumented ==
    \A r \in Requests :
        LET q == req[r] IN
        q.pc = "answer" /\ q.conn /\ <<q.path, q.method>> \in Operations
          => q.status \in Documented(q.path, q.method)

\* A shutdown ends, whatever the clients do or fail to do: the process exits.
ShutdownEnds == \A p \in Processes : phase[p] = "closing" ~> phase[p] = "off"
=============================================================================
