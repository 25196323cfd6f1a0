---------------------------- MODULE RouteSearch ----------------------------
(***************************************************************************)
(* One POST /plan: executePlan of the handler races findScenicRoutes with  *)
(* its time-out and the caller's abort; findScenicRoutes resolves places,  *)
(* asks for scenic anchors, routes candidates with a pool of workers, may  *)
(* refine one candidate, has the routes analysed and selects.  Places and  *)
(* routes come from the AMap adapters: a task is one provider call, a      *)
(* sequence of GETs of which each may be retried, and every physical GET   *)
(* consumes the plan's budget.  An action is the code up to its next await.*)
(***************************************************************************)
EXTENDS Integers, FiniteSets, FiniteSetsExt

CONSTANTS
    StopCounts,            \* numbers of required stops of the requests considered
    PlaceQueries,          \* most GETs of a place look-up (name variants, geocode)
    MaxResults,            \* request.maxResults
    MaxCandidates,
    MaxRouteProviderCalls,
    MaxHttpAttempts,       \* the plan's physical call budget
    MaxConcurrent,         \* concurrent route requests
    MaxAttempts            \* attempts of a GET

ASSUME ConstantsAssumption ==
    /\ StopCounts \subseteq 0 .. 3
    /\ MaxResults \in 1 .. 5 /\ MaxAttempts \in 1 .. 3
    /\ {PlaceQueries, MaxCandidates, MaxRouteProviderCalls, MaxHttpAttempts, MaxConcurrent}
           \subseteq Nat \ {0}

VARIABLES
    stops,      \* request.requiredStops.length
    guided,     \* the candidates have guidance points besides the required stops
    stage,      \* what findScenicRoutes awaits
    task,       \* provider calls in progress, per slot
    remaining,  \* the plan's physical call budget
    next,       \* nextIndex of the worker pool; candidates are 1, 2, ...
    results,    \* per candidate: a quality of route or a failure; 0 is the refined one
    warnings,
    aborted,    \* the server's time-out passed or the caller went away
    selected,   \* the routes returned
    degraded,   \* routes without scenic features
    outcome,    \* how findScenicRoutes settled
    retried,    \* history: a leg was retried since the budget was last compared
    answered    \* history: the scenery calls whose answer came within their soft wait

request == <<stops, guided>>
history == <<retried, answered>>
vars == <<request, stage, task, remaining, next, results, warnings, aborted, selected,
          degraded, outcome, history>>

\* A route visits the required stops and its length is within 15% of the target,
\* within 25%, or neither; or it misses a stop.
Fitting   == {"primary", "relaxed"}
Qualities == Fitting \cup {"far", "misses"}

Retryable == {"TIMEOUT", "UNAVAILABLE"}
\* "UNAVAILABLE" also stands for INVALID_RESPONSE, and for a route's NOT_FOUND.
Fatal(kind) ==
    {"QUOTA_EXCEEDED", "UNAVAILABLE"} \cup IF kind = "place" THEN {"NOT_FOUND"} ELSE {}
Failures  == Retryable \cup Fatal("place") \cup {"ABORTED"}

PlaceErrors == {"PLACE_NOT_FOUND", "PLACE_PROVIDER_UNAVAILABLE"}
RouteErrors ==
    {"ROUTE_PROVIDER_QUOTA_EXCEEDED", "ROUTE_PROVIDER_TIMEOUT", "NO_SUITABLE_ROUTE"}
Successes   == {"complete", "partial"}
Outcomes    == {"pending", "REQUEST_ABORTED"} \cup PlaceErrors \cup RouteErrors \cup Successes

SceneryCalls == {"anchors", "analysis"}

Slots == 1 .. Max(StopCounts \cup {MaxConcurrent})

Idle == [kind |-> "none", job |-> 0, gets |-> 0, attempt |-> 0, pc |-> "idle", end |-> "none"]

Warnings == {"SCENERY_ANCHORS_UNAVAILABLE", "ROUTE_CANDIDATE_FAILED",
             "SCENERY_FEATURES_UNAVAILABLE", "RESULT_COUNT_REDUCED",
             "DISTANCE_TOLERANCE_RELAXED", "SCENERY_FEATURES_MISSING"}

\* Legs of every candidate: round trip over the stops and the two guidance points.
Legs == stops + 1 + (IF guided THEN 2 ELSE 0)

\* Upper bound of onlineCandidateBudget, whatever is left of the HTTP budget.
MostCandidates == Min({MaxCandidates, MaxRouteProviderCalls})

Task == [kind : {"none", "place", "route"}, job : 0 .. MostCandidates,
         gets : 0 .. Max({PlaceQueries, 6}), attempt : 0 .. MaxAttempts,
         pc : {"idle", "ready", "sent", "ended"},
         end : {"none", "ok"} \cup Qualities \cup Failures]

(***************************************************************************)
(* The type invariant.                                                     *)
(***************************************************************************)
TypeOK ==
    /\ stops \in StopCounts /\ guided \in BOOLEAN
    /\ stage \in {"start", "stops", "anchors", "route", "refine", "analyze", "done"}
    /\ task \in [Slots -> Task]
    /\ remaining \in 0 .. MaxHttpAttempts
    /\ next \in 1 .. MostCandidates + 1
    /\ \E n \in 0 .. MostCandidates :
          results \in [0 .. n -> {"none"} \cup Qualities \cup Failures]
    /\ warnings \subseteq Warnings
    /\ aborted \in BOOLEAN
    /\ selected \subseteq 0 .. MostCandidates /\ degraded \subseteq 0 .. MostCandidates
    /\ outcome \in Outcomes
    /\ retried \in BOOLEAN
    /\ answered \subseteq SceneryCalls

-----------------------------------------------------------------------------
(* Provider calls. *)

\* A call of n GETs; a place given as a point (n = 0) needs none.
Begin(kind, job, n) ==
    [kind |-> kind, job |-> job, gets |-> n, attempt |-> 1,
     pc |-> IF n = 0 THEN "ended" ELSE "ready", end |-> IF n = 0 THEN "ok" ELSE "none"]

End(t, e) == task' = [task EXCEPT ![t].pc = "ended", ![t].end = e]

NextGet(t) ==
    task' = [task EXCEPT ![t].pc = "ready", ![t].gets = @ - 1, ![t].attempt = 1]

SendUnchecked(t) ==  \* mutant: the signal is only handed to fetch
    /\ task[t].pc = "ready"
    /\ IF remaining = 0
       THEN End(t, "QUOTA_EXCEEDED") /\ UNCHANGED remaining
       ELSE remaining' = remaining - 1 /\ task' = [task EXCEPT ![t].pc = "sent"]
    /\ UNCHANGED <<request, stage, next, results, warnings, aborted, selected, degraded,
                   outcome, history>>

\* getJsonAttempt up to the fetch.
Send(t) ==
    /\ task[t].pc = "ready"
    /\ CASE aborted -> End(t, "ABORTED") /\ UNCHANGED remaining
         [] ~ aborted /\ remaining = 0 ->
              End(t, "QUOTA_EXCEEDED") /\ UNCHANGED remaining
         [] OTHER -> remaining' = remaining - 1 /\ task' = [task EXCEPT ![t].pc = "sent"]
    /\ UNCHANGED <<request, stage, next, results, warnings, aborted, selected, degraded,
                   outcome, history>>

\* The payload of a GET: a leg of the route, a place, or no match for the name.
Payload(t) ==
    /\ UNCHANGED retried
    /\ IF task[t].kind = "route"
       THEN IF task[t].gets > 1 THEN NextGet(t) ELSE \E q \in Qualities : End(t, q)
       ELSE \/ End(t, "ok")
            \/ IF task[t].gets > 1 THEN NextGet(t) ELSE End(t, "NOT_FOUND")

\* A failing attempt: retried after a delay, or the end of this GET.  A place
\* look-up goes on with the next name variant; a route fails.
AttemptFails(t) ==
    \/ \E e \in Fatal(task[t].kind) : End(t, e) /\ UNCHANGED retried
    \/ \E e \in Retryable :
         IF task[t].attempt < MaxAttempts
         THEN /\ task' = [task EXCEPT ![t].pc = "ready", ![t].attempt = @ + 1]
              /\ retried' = (retried \/ task[t].kind = "route")
         ELSE /\ IF task[t].kind = "place" /\ task[t].gets > 1
                 THEN NextGet(t) ELSE End(t, e)
              /\ UNCHANGED retried

\* The fetch and its body settle: by an answer, the attempt's time-out or the abort.
Respond(t) ==
    /\ task[t].pc = "sent"
    /\ \/ Payload(t)
       \/ AttemptFails(t)
       \/ aborted /\ End(t, "ABORTED") /\ UNCHANGED retried
    /\ UNCHANGED <<request, stage, remaining, next, results, warnings, aborted, selected,
                   degraded, outcome, answered>>

-----------------------------------------------------------------------------
(* findScenicRoutes, from one await to the next. *)

Settle(o) ==
    /\ stage' = "done"
    /\ outcome' = o

Await(s) == stage' = s /\ UNCHANGED outcome

PlaceError(e) ==
    CASE e = "NOT_FOUND" -> "PLACE_NOT_FOUND"
      [] e = "ABORTED" -> "REQUEST_ABORTED"
      [] OTHER -> "PLACE_PROVIDER_UNAVAILABLE"

StartResolved ==
    LET end == task[1].end IN
    /\ stage = "start" /\ task[1].pc = "ended"
    /\ CASE end # "ok" -> Settle(PlaceError(end)) /\ UNCHANGED task
         [] end = "ok" /\ aborted -> Settle("REQUEST_ABORTED") /\ UNCHANGED task
         [] OTHER ->
              /\ Await("stops")
              /\ \E n \in [1 .. stops -> 0 .. PlaceQueries] :
                   task' = [t \in Slots |-> IF t <= stops THEN Begin("place", 0, n[t]) ELSE Idle]
    /\ UNCHANGED <<request, remaining, next, results, warnings, aborted, selected, degraded,
                   history>>

\* Promise.all: the first failing look-up settles it, the others go on.
StopsResolved ==
    /\ stage = "stops"
    /\ \/ \E t \in 1 .. stops :
            /\ task[t].end \in Failures
            /\ Settle(PlaceError(task[t].end)) /\ UNCHANGED task
       \/ /\ \A t \in 1 .. stops : task[t].end = "ok"
          /\ IF aborted THEN Settle("REQUEST_ABORTED") ELSE Await("anchors")
          /\ task' = [t \in Slots |-> Idle]
    /\ UNCHANGED <<request, remaining, next, results, warnings, aborted, selected, degraded,
                   history>>

\* mutant: the length of the candidates is not accounted for
OnlineBudgetPerCall(rem) == Min({MaxCandidates, MaxRouteProviderCalls, Max({1, rem})})

OnlineCandidateBudget(rem) ==
    Min({MaxCandidates, MaxRouteProviderCalls, Max({1, rem \div Legs})})

\* Candidates without guidance points are all alike: one survives the preselection.
CandidateCount(anchored) ==
    Min({OnlineCandidateBudget(remaining),
         IF anchored THEN OnlineCandidateBudget(remaining)
         ELSE MaxResults + (IF stops > 0 THEN 1 ELSE 0),
         IF guided THEN Min({24, Max({12, MaxResults * 4})}) ELSE 1})

AnchorsMissedSilently ==  \* mutant: the anchors that did not come add no warning
    /\ stage = "anchors"
    /\ \E anchored \in BOOLEAN, arrived \in BOOLEAN :
         LET n == CandidateCount(anchored)
             w == Min({MaxConcurrent, n})
         IN  /\ anchored => arrived
             /\ IF aborted
                THEN Settle("REQUEST_ABORTED") /\ UNCHANGED <<task, next, results, answered>>
                ELSE /\ Await("route")
                     /\ answered' = IF arrived THEN {"anchors"} ELSE {}
                     /\ task' = [t \in Slots |->
                                   IF t <= w THEN Begin("route", t, Legs) ELSE Idle]
                     /\ next' = w + 1
                     /\ results' = [i \in 0 .. n |-> "none"]
    /\ UNCHANGED <<request, remaining, warnings, aborted, selected, degraded, retried>>

\* The anchors arrive, fail, or miss their soft wait; candidates are generated and
\* the workers claim the first of them.
AnchorsSettled ==
    /\ stage = "anchors"
    /\ \E anchored \in BOOLEAN, arrived \in BOOLEAN :
         LET n == CandidateCount(anchored)
             w == Min({MaxConcurrent, n})
         IN  /\ anchored => arrived
             /\ IF aborted
                THEN Settle("REQUEST_ABORTED") /\ UNCHANGED <<task, next, results, warnings, answered>>
                ELSE /\ Await("route")
                     /\ answered' = IF arrived THEN {"anchors"} ELSE {}
                     /\ warnings' = IF arrived THEN warnings
                                    ELSE warnings \cup {"SCENERY_ANCHORS_UNAVAILABLE"}
                     /\ task' = [t \in Slots |->
                                   IF t <= w THEN Begin("route", t, Legs) ELSE Idle]
                     /\ next' = w + 1
                     /\ results' = [i \in 0 .. n |-> "none"]
    /\ UNCHANGED <<request, remaining, aborted, selected, degraded, retried>>

Candidates == DOMAIN results \ {0}
Routed(res) == {i \in DOMAIN res : res[i] \in Qualities}
Suitable(res) == {i \in DOMAIN res : res[i] \in Fitting}

WorkerClaimsLate(t) ==  \* mutant: nextIndex is read, but advanced after the await
    /\ stage = "route"
    /\ task[t].kind = "route" /\ task[t].pc = "ended"
    /\ results' = [results EXCEPT ![task[t].job] = task[t].end]
    /\ next' = Min({task[t].job + 1, Max(Candidates) + 1})
    /\ IF next \in Candidates
       THEN task' = [task EXCEPT ![t] = Begin("route", next, Legs)]
       ELSE task' = [task EXCEPT ![t] = Idle]
    /\ UNCHANGED <<request, stage, remaining, warnings, aborted, selected, degraded, outcome, history>>

WorkerUncaught(t) ==  \* mutant: a failing candidate ends its worker
    /\ stage = "route"
    /\ task[t].kind = "route" /\ task[t].pc = "ended" /\ task[t].end \in Qualities
    /\ results' = [results EXCEPT ![task[t].job] = task[t].end]
    /\ IF next \in Candidates
       THEN task' = [task EXCEPT ![t] = Begin("route", next, Legs)] /\ next' = next + 1
       ELSE task' = [task EXCEPT ![t] = Idle] /\ UNCHANGED next
    /\ UNCHANGED <<request, stage, remaining, warnings, aborted, selected, degraded, outcome, history>>

\* A worker stores its result and claims the next candidate, or ends.
WorkerContinues(t) ==
    /\ stage = "route"
    /\ task[t].kind = "route" /\ task[t].pc = "ended"
    /\ results' = [results EXCEPT ![task[t].job] = task[t].end]
    /\ IF next \in Candidates
       THEN task' = [task EXCEPT ![t] = Begin("route", next, Legs)] /\ next' = next + 1
       ELSE task' = [task EXCEPT ![t] = Idle] /\ UNCHANGED next
    /\ UNCHANGED <<request, stage, remaining, warnings, aborted, selected, degraded, outcome, history>>

RouteFailure ==
    LET failures == {results[i] : i \in Candidates} IN
    CASE failures = {"QUOTA_EXCEEDED"} -> "ROUTE_PROVIDER_QUOTA_EXCEEDED"
      [] failures = {"TIMEOUT"} -> "ROUTE_PROVIDER_TIMEOUT"
      [] OTHER -> "NO_SUITABLE_ROUTE"

RefinableWithMore ==  \* mutant: > for >=
    guided /\ remaining > Legs /\ \E i \in Candidates : results[i] = "far"

\* One candidate that is only too long or too short is worth another call, if the
\* plan's budget still covers its legs.
Refinable == guided /\ remaining >= Legs /\ \E i \in Candidates : results[i] = "far"

\* The filter before the analysis.
Constrain(res) ==
    IF Suitable(res) = {} THEN Settle("NO_SUITABLE_ROUTE") ELSE Await("analyze")

RoutesSettledUnchecked ==  \* mutant: no throwIfAborted after the pool
    /\ stage = "route" /\ \A t \in Slots : task[t].pc = "idle"
    /\ warnings' = IF \E i \in Candidates : results[i] \in Failures
                   THEN warnings \cup {"ROUTE_CANDIDATE_FAILED"} ELSE warnings
    /\ CASE Routed(results) = {} -> Settle(RouteFailure) /\ UNCHANGED task
         [] Routed(results) # {} /\ Refinable ->
              Await("refine") /\ task' = [task EXCEPT ![1] = Begin("route", 0, Legs)]
         [] OTHER -> Constrain(results) /\ UNCHANGED task
    /\ retried' = FALSE
    /\ UNCHANGED <<request, remaining, next, results, aborted, selected, degraded, answered>>

RoutesSettled ==
    /\ stage = "route" /\ \A t \in Slots : task[t].pc = "idle"
    /\ warnings' = IF ~ aborted /\ \E i \in Candidates : results[i] \in Failures
                   THEN warnings \cup {"ROUTE_CANDIDATE_FAILED"} ELSE warnings
    /\ CASE aborted -> Settle("REQUEST_ABORTED") /\ UNCHANGED task
         [] ~ aborted /\ Routed(results) = {} -> Settle(RouteFailure) /\ UNCHANGED task
         [] ~ aborted /\ Routed(results) # {} /\ Refinable ->
              Await("refine") /\ task' = [task EXCEPT ![1] = Begin("route", 0, Legs)]
         [] OTHER -> Constrain(results) /\ UNCHANGED task
    /\ retried' = FALSE
    /\ UNCHANGED <<request, remaining, next, results, aborted, selected, degraded, answered>>

Refined ==
    LET res == [results EXCEPT ![0] = task[1].end] IN
    /\ stage = "refine" /\ task[1].pc = "ended"
    /\ results' = res
    /\ warnings' = IF res[0] \in Failures
                   THEN warnings \cup {"ROUTE_CANDIDATE_FAILED"} ELSE warnings
    /\ task' = [task EXCEPT ![1] = Idle]
    /\ IF aborted THEN Settle("REQUEST_ABORTED") ELSE Constrain(res)
    /\ UNCHANGED <<request, remaining, next, aborted, selected, degraded, history>>

\* The warnings a selection adds.
SelectionWarnings(chosen, poor) ==
    (IF Cardinality(chosen) < MaxResults THEN {"RESULT_COUNT_REDUCED"} ELSE {})
    \cup (IF \E i \in chosen : results[i] = "relaxed" THEN {"DISTANCE_TOLERANCE_RELAXED"} ELSE {})
    \cup (IF chosen \cap poor # {} THEN {"SCENERY_FEATURES_MISSING"} ELSE {})

\* The analysis arrives, with features of some routes, or fails, or misses its soft
\* wait; the routes are scored and selected.  How much routes overlap decides which
\* and how many the selection keeps; it keeps the best.
Analyzed ==
    /\ stage = "analyze"
    /\ \E arrived \in BOOLEAN, poor, chosen \in SUBSET Suitable(results) :
         LET late == IF arrived THEN {} ELSE {"SCENERY_FEATURES_UNAVAILABLE"}
             warned == warnings \cup late \cup SelectionWarnings(chosen, poor)
         IN  /\ chosen # {} /\ Cardinality(chosen) <= MaxResults
             /\ ~ arrived => poor = Suitable(results)
             /\ IF aborted
                THEN /\ Settle("REQUEST_ABORTED")
                     /\ UNCHANGED <<warnings, selected, degraded, answered>>
                ELSE /\ Settle(IF warned = {} THEN "complete" ELSE "partial")
                     /\ warnings' = warned /\ selected' = chosen /\ degraded' = poor
                     /\ answered' = IF arrived THEN answered \cup {"analysis"} ELSE answered
    /\ UNCHANGED <<request, task, remaining, next, results, aborted, retried>>

-----------------------------------------------------------------------------
(* executePlan. *)

\* The caller gets its 504 or 408 at once, while the plan goes on until it notices.
Abort ==
    /\ ~ aborted /\ outcome = "pending"
    /\ aborted' = TRUE
    /\ UNCHANGED <<request, stage, task, remaining, next, results, warnings, selected,
                   degraded, outcome, history>>

Quiet == outcome # "pending" /\ \A t \in Slots : task[t].pc \in {"idle", "ended"}

\* The plan is over and nothing of it runs any more.
Over == Quiet /\ UNCHANGED vars

Init ==
    /\ stops \in StopCounts
    /\ guided \in IF stops = 0 THEN {TRUE} ELSE BOOLEAN
    /\ stage = "start"
    /\ \E n \in 0 .. PlaceQueries :
          task = [t \in Slots |-> IF t = 1 THEN Begin("place", 0, n) ELSE Idle]
    /\ remaining = MaxHttpAttempts
    /\ next = 1
    /\ results = [i \in {0} |-> "none"]
    /\ warnings = {} /\ selected = {} /\ degraded = {}
    /\ aborted = FALSE /\ outcome = "pending"
    /\ retried = FALSE /\ answered = {}

Progress ==
    \/ \E t \in Slots : Send(t) \/ Respond(t) \/ WorkerContinues(t)
    \/ StartResolved \/ StopsResolved \/ AnchorsSettled
    \/ RoutesSettled \/ Refined \/ Analyzed

Next == Progress \/ Abort \/ Over

\* Every attempt ends by its time-out at the latest, the scenery waits are bounded,
\* and the rest is code of one process that nothing can suspend for ever.
Fairness == WF_vars(Progress)

Spec == Init /\ [][Next]_vars /\ Fairness

-----------------------------------------------------------------------------
(* Properties. *)

\* Every variable has its type; and the workers share nextIndex without a lock: no two
\* route the same candidate, no more than the limit run, and the pool is left only when
\* each candidate has its result, whichever order they end in.
PoolSound ==
    LET running == {t \in Slots : task[t].kind = "route"} IN
    /\ TypeOK
    /\ stage = "route" =>
         /\ Cardinality(running) <= MaxConcurrent
         /\ \A t \in running : results[task[t].job] = "none"
         /\ \A t, u \in running : t # u => task[t].job # task[u].job
    /\ stage \in {"refine", "analyze"} => \A i \in Candidates : results[i] # "none"

\* "complete" means that nothing was degraded on the way: every candidate and the
\* extra call were routed, both scenery calls answered in time, and the routes
\* returned are as many as asked for, within 15% of the distance and rated.  A
\* result is never empty and never holds a route outside the constraints.
CompleteIsComplete ==
    /\ outcome = "complete" =>
         /\ answered = SceneryCalls
         /\ \A i \in DOMAIN results : results[i] \notin Failures
         /\ Cardinality(selected) = MaxResults /\ selected \cap degraded = {}
         /\ \A i \in selected : results[i] = "primary"
    /\ outcome \in Successes =>
         selected # {} /\ \A i \in selected : results[i] \in {"primary", "relaxed"}

\* A plan fails only for the reason it gives: quota and time-out errors when every
\* candidate failed so; no suitable route when there is none, and then a route of
\* the wrong length only was refined once, or the budget no longer allowed it.
FailureJustified ==
    /\ outcome = "ROUTE_PROVIDER_QUOTA_EXCEEDED" =>
         \A i \in Candidates : results[i] = "QUOTA_EXCEEDED"
    /\ outcome = "ROUTE_PROVIDER_TIMEOUT" => \A i \in Candidates : results[i] = "TIMEOUT"
    /\ outcome = "NO_SUITABLE_ROUTE" =>
         /\ \A i \in DOMAIN results : results[i] \notin {"primary", "relaxed"}
         /\ guided /\ (\E i \in Candidates : results[i] = "far") =>
               results[0] # "none" \/ remaining < Legs

\* No GET is sent for a plan that was aborted, from whichever leg, retry or worker,
\* nor for one that has settled; only the other look-ups of a failing set of stops
\* are not called off.
AbandonedPlansSendNothing ==
    [][remaining' < remaining =>
          ~ aborted /\ (outcome = "pending" \/ outcome \in PlaceErrors)]_vars

\* The number of candidates fits the budget: unless a leg was retried, or the budget
\* did not even cover one candidate, no leg is refused for want of budget, neither
\* of the pool nor of the extra call.
RefusedOnlyAfterRetry ==
    [][\A t \in Slots :
          /\ task[t].kind = "route" /\ task[t].pc = "ready"
          /\ task'[t].end = "QUOTA_EXCEEDED"
          => retried \/ (stage = "route" /\ Candidates = {1})]_vars

\* However late an abort is noticed, the plan then ends as aborted: not as a result
\* and not as an error of the providers.  A place look-up that fails by itself before
\* it notices keeps its own error.
AbortedPlanReportsAbort ==
    [][outcome' # outcome /\ aborted =>
          \/ outcome' = "REQUEST_ABORTED"
          \/ stage \in {"start", "stops"} /\ outcome' \in PlaceErrors]_vars

\* Every plan settles and everything it started ends, aborted or not.
PlanEnds == <>[]Quiet
=============================================================================
