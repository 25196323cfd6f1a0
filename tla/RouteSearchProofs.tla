------------------------- MODULE RouteSearchProofs --------------------------
(***************************************************************************)
(* The search and its algorithms.  First one plan, for any numbers of stops, *)
(* candidates, workers, attempts and GETs: the workers share the candidates  *)
(* without a lock and without loss, a plan fails only for the reason it      *)
(* gives, a complete result is complete, an abandoned plan sends nothing, and *)
(* the budget covers every leg of the candidates until one is retried.       *)
(*                                                                           *)
(* Then two algorithms, for every input.  The summed-area table counts what  *)
(* it should: the count taken from four of its entries is the number of      *)
(* cells of the mask in reach, the windows that cross the grid's edges       *)
(* included.  And what is chosen is the best: no anchor and no route is left *)
(* out without a better one that clashes with it, or as many as were asked    *)
(* for, and the route that comes first is nowhere known to be worse.          *)
(***************************************************************************)
EXTENDS Recommendation, FiniteSetTheorems, WellFoundedInduction, TLAPS

(* The inductive invariant. *)

\* How a provider call may end.
Ends(kind) == Failures \cup IF kind = "route" THEN Qualities ELSE {"ok"}

TaskSound(t) ==
    /\ task[t].kind = "none" <=> task[t].pc = "idle"
    /\ task[t].pc # "ended" => task[t].end = "none"
    /\ task[t].pc = "ended" => task[t].end \in Ends(task[t].kind)
    /\ task[t].end = "ABORTED" => aborted

TasksInv == \A t \in Slots : TaskSound(t)

Running == {t \in Slots : task[t].kind = "route"}

\* A candidate without a result is yet unclaimed, or the one job of one worker; and while
\* candidates are unclaimed a worker is at work that will claim one.
PoolInv ==
    stage = "route" =>
      /\ \A t \in Running : t <= MaxConcurrent
      /\ \A t \in Running : /\ task[t].job \in Candidates /\ task[t].job < next
                            /\ results[task[t].job] = "none"
      /\ \A t, u \in Running : t # u => task[t].job # task[u].job
      /\ \A i \in Candidates : results[i] = "none" => i >= next \/ \E t \in Running : task[t].job = i
      /\ \A i \in Candidates : i >= next => results[i] = "none"
      /\ next \in Candidates => Running # {}

AllIdle == \A t \in Slots : task[t].pc = "idle"

\* What each stage has found and what it has running.
StageInv ==
    /\ outcome = "pending" <=> stage # "done"
    /\ stage \in {"start", "stops", "anchors"} =>
         results = [i \in {0} |-> "none"] /\ Running = {}
    /\ stage = "start" => \A t \in Slots : t # 1 => task[t].pc = "idle"
    /\ stage \in {"anchors", "analyze"} => AllIdle
    /\ stage \in {"route", "refine"} => results[0] = "none"
    /\ stage = "route" => \A t \in Slots : task[t].kind # "place"
    /\ stage = "refine" => /\ task[1].kind = "route" /\ task[1].job = 0
                           /\ \A t \in Slots : t # 1 => task[t].pc = "idle"
    /\ stage \in {"refine", "analyze"} =>
         /\ \A i \in Candidates : results[i] # "none"
         /\ "ROUTE_CANDIDATE_FAILED" \notin warnings =>
              \A i \in DOMAIN results : results[i] \notin Failures
    /\ stage \in {"route", "refine", "analyze"} =>
         "SCENERY_ANCHORS_UNAVAILABLE" \in warnings \/ "anchors" \in answered
    /\ outcome \in RouteErrors \cup Successes =>
         \A t \in Slots : task[t].pc \notin {"ready", "sent"}
    /\ outcome = "REQUEST_ABORTED" => aborted

IInv ==
    /\ TypeOK /\ TasksInv /\ PoolInv /\ StageInv
    /\ CompleteIsComplete /\ FailureJustified

-----------------------------------------------------------------------------
(* The constants. *)

LEMMA MinOfTwo ==
    ASSUME NEW a \in Int, NEW b \in Int
    PROVE  Min({a, b}) \in {a, b} /\ Min({a, b}) <= a /\ Min({a, b}) <= b
<1>1. \E x \in {a, b} : \A y \in {a, b} : x <= y
  OBVIOUS
<1> QED BY <1>1 DEF Min

LEMMA MinOfThree ==
    ASSUME NEW a \in Int, NEW b \in Int, NEW c \in Int
    PROVE  /\ Min({a, b, c}) \in {a, b, c}
           /\ Min({a, b, c}) <= a /\ Min({a, b, c}) <= b /\ Min({a, b, c}) <= c
<1>1. \E x \in {a, b, c} : \A y \in {a, b, c} : x <= y
  OBVIOUS
<1> QED BY <1>1 DEF Min

LEMMA MaxOfTwo ==
    ASSUME NEW a \in Int, NEW b \in Int
    PROVE  Max({a, b}) \in {a, b} /\ Max({a, b}) >= a /\ Max({a, b}) >= b
<1>1. \E x \in {a, b} : \A y \in {a, b} : x >= y
  OBVIOUS
<1> QED BY <1>1 DEF Max

LEMMA Constants ==
    /\ PlaceQueries \in Nat /\ PlaceQueries >= 1 /\ MaxCandidates \in Nat /\ MaxCandidates >= 1
    /\ MaxRouteProviderCalls \in Nat /\ MaxRouteProviderCalls >= 1
    /\ MaxHttpAttempts \in Nat /\ MaxHttpAttempts >= 1
    /\ MaxConcurrent \in Nat /\ MaxConcurrent >= 1
    /\ MaxResults \in 1 .. 5 /\ MaxAttempts \in 1 .. 3 /\ StopCounts \subseteq 0 .. 3
<1>1. /\ PlaceQueries \in Nat \ {0} /\ MaxCandidates \in Nat \ {0}
      /\ MaxRouteProviderCalls \in Nat \ {0} /\ MaxHttpAttempts \in Nat \ {0}
      /\ MaxConcurrent \in Nat \ {0}
  BY ConstantsAssumption, Zenon
<1>2. MaxResults \in 1 .. 5 /\ MaxAttempts \in 1 .. 3 /\ StopCounts \subseteq 0 .. 3
  BY ConstantsAssumption, Zenon
<1> QED BY <1>1, <1>2

LEMMA MostCandidatesFit ==
    /\ MostCandidates \in Nat /\ MostCandidates >= 1
    /\ MostCandidates \in {MaxCandidates, MaxRouteProviderCalls}
<1>1. MaxCandidates \in Int /\ MaxRouteProviderCalls \in Int
  BY Constants
<1>2. MostCandidates \in {MaxCandidates, MaxRouteProviderCalls}
  BY <1>1, MinOfTwo, Zenon DEF MostCandidates
<1> QED BY <1>2, Constants

\* Most GETs of a call.
LEMMA GetsFit == /\ Max({PlaceQueries, 6}) \in Nat
                 /\ Max({PlaceQueries, 6}) >= 6 /\ Max({PlaceQueries, 6}) >= PlaceQueries
<1>1. PlaceQueries \in Int /\ 6 \in Int
  BY Constants
<1>2. /\ Max({PlaceQueries, 6}) \in {PlaceQueries, 6}
      /\ Max({PlaceQueries, 6}) >= 6 /\ Max({PlaceQueries, 6}) >= PlaceQueries
  BY <1>1, MaxOfTwo, Zenon
<1> QED BY <1>2, Constants

\* The slots hold the workers and the look-ups of the stops.
LEMMA SlotsFit ==
    /\ Slots \subseteq Nat \ {0} /\ 1 \in Slots
    /\ \A t \in 1 .. MaxConcurrent : t \in Slots
    /\ \A n \in StopCounts : 1 .. n \subseteq Slots
<1> DEFINE sizes == StopCounts \cup {MaxConcurrent}
<1>1. sizes \subseteq Nat /\ MaxConcurrent \in sizes /\ MaxConcurrent >= 1
  BY Constants
<1>2. \E x \in sizes : \A y \in sizes : x >= y
  <2>1. CASE \A y \in StopCounts : MaxConcurrent >= y
    BY <1>1, <2>1
  <2>2. CASE ~ \A y \in StopCounts : MaxConcurrent >= y
    <3>1. CASE 3 \in StopCounts
      BY Constants, <2>2, <3>1
    <3>2. CASE 3 \notin StopCounts /\ 2 \in StopCounts
      BY Constants, <2>2, <3>2
    <3>3. CASE 3 \notin StopCounts /\ 2 \notin StopCounts
      BY Constants, <2>2, <3>3
    <3> QED BY <3>1, <3>2, <3>3
  <2> QED BY <2>1, <2>2
<1>3. Max(sizes) \in sizes /\ \A y \in sizes : Max(sizes) >= y
  BY <1>2 DEF Max
<1>4. Slots = 1 .. Max(sizes)
  BY DEF Slots
<1> HIDE DEF sizes
<1>5. Max(sizes) \in Nat /\ Max(sizes) >= 1 /\ Max(sizes) >= MaxConcurrent
  <2>1. Max(sizes) \in Nat /\ Max(sizes) >= MaxConcurrent
    BY <1>1, <1>3, Zenon
  <2> QED BY <2>1, Constants
<1>6. \A n \in StopCounts : n \in Nat /\ Max(sizes) >= n
  BY <1>1, <1>3 DEF sizes
<1> QED BY <1>4, <1>5, <1>6, Constants

LEMMA LegsFit ==
    ASSUME TypeOK
    PROVE  Legs \in 1 .. 6 /\ Legs \in 0 .. Max({PlaceQueries, 6})
<1>1. stops \in 0 .. 3
  BY Constants DEF TypeOK
<1>2. Legs \in 1 .. 6
  BY <1>1 DEF Legs
<1> QED BY <1>2, GetsFit

LEMMA CandidatesFit ==
    ASSUME TypeOK, NEW anchored \in BOOLEAN
    PROVE  CandidateCount(anchored) \in 1 .. MostCandidates
<1>1. /\ MaxCandidates \in Int /\ MaxRouteProviderCalls \in Int
      /\ MaxResults \in 1 .. 5 /\ remaining \in Nat /\ stops \in Nat /\ Legs \in 1 .. 6
  BY Constants, LegsFit DEF TypeOK
<1> DEFINE online == OnlineCandidateBudget(remaining)
           share == Max({1, remaining \div Legs})
           b == IF anchored THEN online ELSE MaxResults + (IF stops > 0 THEN 1 ELSE 0)
           inner == Max({12, MaxResults * 4})
           c == IF guided THEN Min({24, inner}) ELSE 1
<1>2. remaining \div Legs \in Int /\ 1 \in Int
  BY <1>1
<1>3. share \in Int /\ share >= 1
  <2>1. share \in {1, remaining \div Legs} /\ share >= 1
    BY <1>2, MaxOfTwo, Zenon
  <2> QED BY <1>2, <2>1
<1>4. online \in 1 .. MostCandidates
  <2> HIDE DEF share
  <2>1. /\ online \in {MaxCandidates, MaxRouteProviderCalls, share}
        /\ online <= MaxCandidates /\ online <= MaxRouteProviderCalls /\ online <= share
    BY <1>1, <1>3, MinOfThree, Zenon DEF OnlineCandidateBudget, share
  <2> HIDE DEF online
  <2> QED BY <1>3, <2>1, Constants, MostCandidatesFit
<1> HIDE DEF online, share
<1>5. b \in Int /\ b >= 1
  BY <1>1, <1>4, MostCandidatesFit
<1>6. inner \in Int /\ inner >= 1
  <2>1. 12 \in Int /\ MaxResults * 4 \in Int
    BY <1>1
  <2>2. inner \in {12, MaxResults * 4} /\ inner >= 12
    BY <2>1, MaxOfTwo, Zenon
  <2> QED BY <2>1, <2>2
<1>7. c \in Int /\ c >= 1
  <2> HIDE DEF inner
  <2>1. 24 \in Int
    OBVIOUS
  <2>2. Min({24, inner}) \in {24, inner}
    BY <1>6, <2>1, MinOfTwo, Zenon
  <2> QED BY <1>6, <2>2
<1>8. CandidateCount(anchored) = Min({online, b, c})
  BY DEF CandidateCount, online
<1> HIDE DEF b, c
<1>9. online \in Int
  BY <1>4, MostCandidatesFit
<1>10. Min({online, b, c}) \in {online, b, c} /\ Min({online, b, c}) <= online
  BY <1>5, <1>7, <1>9, MinOfThree, Zenon
<1> QED BY <1>4, <1>5, <1>7, <1>8, <1>9, <1>10, MostCandidatesFit

\* A call that begins: a place of n GETs, or the legs of a route.
LEMMA BegunPlace ==
    ASSUME NEW n \in 0 .. PlaceQueries
    PROVE  /\ Begin("place", 0, n) \in Task /\ Begin("place", 0, n).kind = "place"
           /\ Begin("place", 0, n).pc \in {"ready", "ended"}
           /\ Begin("place", 0, n).end = IF Begin("place", 0, n).pc = "ended" THEN "ok" ELSE "none"
<1>1. MaxAttempts \in 1 .. 3 /\ MostCandidates \in Nat
  BY Constants, MostCandidatesFit
<1>2. n \in 0 .. Max({PlaceQueries, 6})
  BY GetsFit, Constants
<1> QED BY <1>1, <1>2 DEF Begin, Task

LEMMA BegunRoute ==
    ASSUME TypeOK, NEW job \in 0 .. MostCandidates
    PROVE  /\ Begin("route", job, Legs) \in Task /\ Begin("route", job, Legs).kind = "route"
           /\ Begin("route", job, Legs).job = job
           /\ Begin("route", job, Legs).pc = "ready" /\ Begin("route", job, Legs).end = "none"
<1>1. MaxAttempts \in 1 .. 3
  BY Constants
<1> QED BY <1>1, LegsFit DEF Begin, Task

LEMMA IdleTask == /\ Idle \in Task /\ Idle.kind = "none" /\ Idle.pc = "idle" /\ Idle.end = "none"
<1> QED BY Constants, MostCandidatesFit, GetsFit DEF Idle, Task

-----------------------------------------------------------------------------
(* The first state. *)

LEMMA FirstState == Init => IInv
<1> SUFFICES ASSUME Init PROVE IInv
  OBVIOUS
<1>1. PICK n \in 0 .. PlaceQueries :
          task = [t \in Slots |-> IF t = 1 THEN Begin("place", 0, n) ELSE Idle]
  BY DEF Init
<1>2. /\ task \in [Slots -> Task]
      /\ \A t \in Slots : task[t] = IF t = 1 THEN Begin("place", 0, n) ELSE Idle
  BY <1>1, BegunPlace, IdleTask
<1>3. DOMAIN results = {0} /\ results[0] = "none" /\ results \in [0 .. 0 -> {"none"}]
  BY DEF Init
<1>4. TypeOK
  <2>1. MaxHttpAttempts \in Nat /\ MostCandidates \in Nat /\ 0 \in 0 .. MostCandidates
    BY Constants, MostCandidatesFit
  <2>2. \E k \in 0 .. MostCandidates : results \in [0 .. k -> {"none"} \cup Qualities \cup Failures]
    BY <1>3, <2>1
  <2>3. stops \in StopCounts /\ guided \in BOOLEAN
    BY DEF Init
  <2>4. remaining \in 0 .. MaxHttpAttempts /\ next \in 1 .. MostCandidates + 1
    BY <2>1 DEF Init
  <2> QED BY <1>2, <2>2, <2>3, <2>4 DEF Init, TypeOK, Outcomes
<1>5. TasksInv
  <2>1. ASSUME NEW t \in Slots PROVE TaskSound(t)
    BY <1>2, BegunPlace, IdleTask DEF TaskSound, Ends, Init, Failures, Retryable, Fatal
  <2> QED BY <2>1 DEF TasksInv
<1>6. PoolInv
  BY DEF PoolInv, Init
<1>7. StageInv
  BY <1>2, BegunPlace, IdleTask DEF StageInv, Init, Running, RouteErrors, Successes
<1>8. CompleteIsComplete /\ FailureJustified
  BY DEF CompleteIsComplete, FailureJustified, Init, Successes
<1> QED BY <1>4, <1>5, <1>6, <1>7, <1>8 DEF IInv

-----------------------------------------------------------------------------
(* A step of a provider call. *)

\* The call goes on or ends; nothing else changes but the budgets.
CallStep(t) ==
    /\ task' \in [Slots -> Task]
    /\ \A u \in Slots : u # t => task'[u] = task[u]
    /\ task[t].pc \in {"ready", "sent"}
    /\ task'[t].kind = task[t].kind /\ task'[t].job = task[t].job
    /\ \/ task'[t].pc \in {"ready", "sent"} /\ task'[t].end = "none"
       \/ /\ task'[t].pc = "ended" /\ task'[t].end \in Ends(task[t].kind)
          /\ task'[t].end = "ABORTED" => aborted
    /\ remaining' \in 0 .. MaxHttpAttempts /\ remaining' <= remaining
    /\ retried' \in BOOLEAN
    /\ UNCHANGED <<request, stage, next, results, warnings, aborted, selected, degraded, outcome,
                   answered>>

\* Names of the ends, apart from one another.
LEMMA EndsDiffer ==
    /\ Failures = {"TIMEOUT", "UNAVAILABLE", "QUOTA_EXCEEDED", "NOT_FOUND", "ABORTED"}
    /\ Qualities = {"primary", "relaxed", "far", "misses"}
  BY DEF Failures, Qualities, Retryable, Fatal, Fitting

LEMMA EndDoes ==
    ASSUME task \in [Slots -> Task], NEW t \in Slots, NEW e, e \in Ends(task[t].kind), End(t, e)
    PROVE  /\ task' \in [Slots -> Task] /\ \A u \in Slots : u # t => task'[u] = task[u]
           /\ task'[t].kind = task[t].kind /\ task'[t].job = task[t].job
           /\ task'[t].pc = "ended" /\ task'[t].end = e
<1> DEFINE x == [task[t] EXCEPT !.pc = "ended", !.end = e]
<1>1. e \in {"none", "ok"} \cup Qualities \cup Failures
  BY DEF Ends
<1>2. x \in Task /\ x.kind = task[t].kind /\ x.job = task[t].job /\ x.pc = "ended" /\ x.end = e
  BY <1>1 DEF Task
<1>3. task' = [task EXCEPT ![t] = x]
  BY DEF End
<1> HIDE DEF x
<1> QED BY <1>2, <1>3

LEMMA AgainDoes ==
    ASSUME task \in [Slots -> Task], NEW t \in Slots, NEW gets, NEW attempt,
           task[t].pc # "ended" => task[t].end = "none", task[t].pc # "ended",
           gets \in 0 .. Max({PlaceQueries, 6}), attempt \in 0 .. MaxAttempts,
           task' = [task EXCEPT ![t].pc = "ready", ![t].gets = gets, ![t].attempt = attempt]
    PROVE  /\ task' \in [Slots -> Task] /\ \A u \in Slots : u # t => task'[u] = task[u]
           /\ task'[t].kind = task[t].kind /\ task'[t].job = task[t].job
           /\ task'[t].pc = "ready" /\ task'[t].end = "none"
<1> DEFINE x == [task[t] EXCEPT !.pc = "ready", !.gets = gets, !.attempt = attempt]
<1>1. x \in Task /\ x.kind = task[t].kind /\ x.job = task[t].job /\ x.pc = "ready" /\ x.end = "none"
  BY DEF Task
<1>2. task' = [task EXCEPT ![t] = x]
  OBVIOUS
<1> HIDE DEF x
<1> QED BY <1>1, <1>2

LEMMA SendSteps ==
    ASSUME IInv, NEW t \in Slots, Send(t)
    PROVE  CallStep(t)
<1>1. /\ task \in [Slots -> Task] /\ remaining \in 0 .. MaxHttpAttempts /\ MaxHttpAttempts \in Nat
      /\ retried \in BOOLEAN /\ TaskSound(t) /\ task[t].pc = "ready"
      /\ retried' = retried
      /\ UNCHANGED <<request, stage, next, results, warnings, aborted, selected, degraded, outcome,
                     answered>>
  BY Constants DEF IInv, TypeOK, TasksInv, Send, history
<1>2. "ABORTED" \in Ends(task[t].kind) /\ "QUOTA_EXCEEDED" \in Ends(task[t].kind)
  BY EndsDiffer DEF Ends
<1>3. CASE aborted
  <2>1. End(t, "ABORTED") /\ remaining' = remaining
    BY <1>3 DEF Send
  <2>2. /\ task' \in [Slots -> Task] /\ \A u \in Slots : u # t => task'[u] = task[u]
        /\ task'[t].kind = task[t].kind /\ task'[t].job = task[t].job
        /\ task'[t].pc = "ended" /\ task'[t].end = "ABORTED"
    BY <1>1, <1>2, <2>1, EndDoes
  <2> QED BY <1>1, <1>2, <1>3, <2>1, <2>2 DEF CallStep
<1>4. CASE ~ aborted /\ remaining = 0
  <2>1. End(t, "QUOTA_EXCEEDED") /\ remaining' = remaining
    BY <1>4 DEF Send
  <2>2. /\ task' \in [Slots -> Task] /\ \A u \in Slots : u # t => task'[u] = task[u]
        /\ task'[t].kind = task[t].kind /\ task'[t].job = task[t].job
        /\ task'[t].pc = "ended" /\ task'[t].end = "QUOTA_EXCEEDED"
    BY <1>1, <1>2, <2>1, EndDoes
  <2> QED BY <1>1, <1>2, <2>1, <2>2 DEF CallStep
<1>5. CASE ~ aborted /\ remaining # 0
  <2> DEFINE x == [task[t] EXCEPT !.pc = "sent"]
  <2>1. remaining' = remaining - 1 /\ task' = [task EXCEPT ![t] = x]
    BY <1>5 DEF Send
  <2>2. /\ x \in Task /\ x.kind = task[t].kind /\ x.job = task[t].job /\ x.pc = "sent"
        /\ x.end = "none"
    BY <1>1 DEF Task, TaskSound
  <2> HIDE DEF x
  <2>3. /\ task' \in [Slots -> Task] /\ \A u \in Slots : u # t => task'[u] = task[u]
        /\ task'[t] = x
    BY <1>1, <2>1, <2>2
  <2>4. remaining' \in 0 .. MaxHttpAttempts /\ remaining' <= remaining
    BY <1>1, <1>5, <2>1
  <2> QED BY <1>1, <2>2, <2>3, <2>4 DEF CallStep
<1> QED BY <1>3, <1>4, <1>5

LEMMA RespondSteps ==
    ASSUME IInv, NEW t \in Slots, Respond(t)
    PROVE  CallStep(t)
<1>1. /\ task \in [Slots -> Task] /\ retried \in BOOLEAN /\ TaskSound(t) /\ task[t].pc = "sent"
      /\ remaining' = remaining /\ remaining \in 0 .. MaxHttpAttempts
      /\ UNCHANGED <<request, stage, next, results, warnings, aborted, selected, degraded, outcome,
                     answered>>
  BY DEF IInv, TypeOK, TasksInv, Respond
<1>2. /\ task[t] \in Task /\ task[t].kind \in {"route", "place"} /\ task[t].end = "none"
      /\ task[t].gets \in 0 .. Max({PlaceQueries, 6}) /\ task[t].attempt \in 0 .. MaxAttempts
  BY <1>1 DEF Task, TaskSound
<1>3. MaxAttempts \in 1 .. 3 /\ Max({PlaceQueries, 6}) \in Nat
  BY Constants, GetsFit
<1>4. remaining' \in 0 .. MaxHttpAttempts /\ remaining' <= remaining
  BY <1>1, Constants
<1>5. ASSUME NEW e, e \in Ends(task[t].kind), e = "ABORTED" => aborted, End(t, e), retried' = retried
      PROVE  CallStep(t)
  <2>1. /\ task' \in [Slots -> Task] /\ \A u \in Slots : u # t => task'[u] = task[u]
        /\ task'[t].kind = task[t].kind /\ task'[t].job = task[t].job
        /\ task'[t].pc = "ended" /\ task'[t].end = e
    BY <1>1, <1>5, EndDoes
  <2> QED BY <1>1, <1>4, <1>5, <2>1 DEF CallStep
<1>6. ASSUME NEW gets, NEW attempt, gets \in 0 .. Max({PlaceQueries, 6}),
             attempt \in 0 .. MaxAttempts, retried' \in BOOLEAN,
             task' = [task EXCEPT ![t].pc = "ready", ![t].gets = gets, ![t].attempt = attempt]
      PROVE  CallStep(t)
  <2>1. /\ task' \in [Slots -> Task] /\ \A u \in Slots : u # t => task'[u] = task[u]
        /\ task'[t].kind = task[t].kind /\ task'[t].job = task[t].job
        /\ task'[t].pc = "ready" /\ task'[t].end = "none"
    BY <1>1, <1>2, <1>6, AgainDoes
  <2> QED BY <1>1, <1>4, <1>6, <2>1 DEF CallStep
<1>7. ASSUME NextGet(t), task[t].gets > 1, retried' = retried PROVE CallStep(t)
  <2>1. task[t].gets - 1 \in 0 .. Max({PlaceQueries, 6}) /\ 1 \in 0 .. MaxAttempts
    BY <1>2, <1>3, <1>7
  <2>2. task' = [task EXCEPT ![t].pc = "ready", ![t].gets = task[t].gets - 1, ![t].attempt = 1]
    BY <1>1, <1>7 DEF NextGet
  <2> QED BY <1>1, <1>6, <1>7, <2>1, <2>2
<1>8. ASSUME Payload(t) PROVE CallStep(t)
  <2>1. retried' = retried
    BY <1>8 DEF Payload
  <2>2. CASE task[t].kind = "route" /\ task[t].gets > 1
    BY <1>7, <1>8, <2>1, <2>2 DEF Payload
  <2>3. CASE task[t].kind = "route" /\ ~ (task[t].gets > 1)
    <3>1. PICK q \in Qualities : End(t, q)
      BY <1>8, <2>3 DEF Payload
    <3>2. q \in Ends(task[t].kind) /\ q # "ABORTED"
      BY <2>3, EndsDiffer DEF Ends
    <3> QED BY <1>5, <2>1, <3>1, <3>2
  <2>4. CASE task[t].kind = "place"
    <3>1. "ok" \in Ends(task[t].kind) /\ "NOT_FOUND" \in Ends(task[t].kind)
      BY <2>4, EndsDiffer DEF Ends
    <3>2. End(t, "ok") \/ End(t, "NOT_FOUND") \/ (task[t].gets > 1 /\ NextGet(t))
      BY <1>8, <2>4 DEF Payload
    <3> QED BY <1>5, <1>7, <2>1, <3>1, <3>2
  <2> QED BY <1>2, <2>2, <2>3, <2>4
<1>9. ASSUME AttemptFails(t) PROVE CallStep(t)
  <2>1. CASE \E e \in Fatal(task[t].kind) : End(t, e) /\ UNCHANGED retried
    <3>1. PICK e \in Fatal(task[t].kind) : End(t, e) /\ UNCHANGED retried
      BY <2>1
    <3>2. e \in Ends(task[t].kind) /\ e # "ABORTED"
      BY EndsDiffer DEF Ends, Fatal
    <3> QED BY <1>5, <3>1, <3>2
  <2>2. CASE \E e \in Retryable :
               /\ task[t].attempt < MaxAttempts
               /\ task' = [task EXCEPT ![t].pc = "ready", ![t].attempt = @ + 1]
               /\ retried' = (retried \/ task[t].kind = "route")
    <3>1. task' = [task EXCEPT ![t].pc = "ready", ![t].gets = task[t].gets,
                               ![t].attempt = task[t].attempt + 1]
      BY <1>1, <1>2, <2>2 DEF Task
    <3>2. task[t].attempt + 1 \in 0 .. MaxAttempts /\ retried' \in BOOLEAN
      BY <1>2, <1>3, <2>2
    <3> QED BY <1>2, <1>6, <3>1, <3>2
  <2>3. CASE \E e \in Retryable : /\ IF task[t].kind = "place" /\ task[t].gets > 1
                                     THEN NextGet(t) ELSE End(t, e)
                                  /\ UNCHANGED retried
    <3>1. PICK e \in Retryable : /\ IF task[t].kind = "place" /\ task[t].gets > 1
                                    THEN NextGet(t) ELSE End(t, e)
                                 /\ UNCHANGED retried
      BY <2>3
    <3>2. e \in Ends(task[t].kind) /\ e # "ABORTED"
      BY EndsDiffer DEF Ends, Retryable
    <3> QED BY <1>5, <1>7, <3>1, <3>2
  <2> QED BY <1>9, <2>1, <2>2, <2>3 DEF AttemptFails
<1>10. ASSUME aborted, End(t, "ABORTED"), retried' = retried PROVE CallStep(t)
  <2>1. "ABORTED" \in Ends(task[t].kind)
    BY EndsDiffer DEF Ends
  <2> QED BY <1>5, <1>10, <2>1
<1> QED BY <1>8, <1>9, <1>10 DEF Respond

LEMMA CallKeeps ==
    ASSUME IInv, NEW t \in Slots, CallStep(t)
    PROVE  IInv'
<1>1. /\ stops' = stops /\ guided' = guided /\ stage' = stage /\ next' = next
      /\ results' = results /\ warnings' = warnings /\ aborted' = aborted
      /\ selected' = selected /\ degraded' = degraded /\ outcome' = outcome
      /\ answered' = answered
  BY DEF CallStep, request
<1>2. /\ task' \in [Slots -> Task] /\ \A u \in Slots : u # t => task'[u] = task[u]
      /\ task'[t].kind = task[t].kind /\ task'[t].job = task[t].job
      /\ task[t].pc \in {"ready", "sent"} /\ task'[t].pc \in {"ready", "sent", "ended"}
      /\ remaining' \in 0 .. MaxHttpAttempts /\ remaining' <= remaining /\ retried' \in BOOLEAN
  BY DEF CallStep
<1>3. TypeOK'
  BY <1>1, <1>2 DEF IInv, TypeOK
<1>4. TasksInv'
  <2>1. ASSUME NEW u \in Slots PROVE TaskSound(u)'
    <3>1. TaskSound(u)
      BY DEF IInv, TasksInv
    <3>2. CASE u # t
      BY <1>1, <1>2, <3>1, <3>2 DEF TaskSound
    <3>3. CASE u = t
      <4>1. task[t].kind # "none"
        BY <1>2, <3>1, <3>3 DEF TaskSound
      <4> QED BY <1>1, <1>2, <3>3, <4>1 DEF TaskSound, CallStep
    <3> QED BY <3>2, <3>3
  <2> QED BY <2>1 DEF TasksInv
<1>5. Running' = Running /\ \A u \in Slots : task'[u].job = task[u].job /\ task'[u].kind = task[u].kind
  BY <1>2 DEF Running
<1>6. Candidates' = Candidates
  BY <1>1 DEF Candidates
<1>7. PoolInv'
  <2>1. PoolInv /\ Running \subseteq Slots
    BY DEF IInv, Running
  <2> QED BY <1>1, <1>5, <1>6, <2>1 DEF PoolInv
<1>8. StageInv'
  <2>1. StageInv
    BY DEF IInv
  <2>2. outcome \notin RouteErrors \cup Successes /\ stage \notin {"anchors", "analyze"}
    BY <1>2, <2>1 DEF StageInv, AllIdle
  <2>3. \A u \in Slots : task[u].pc = "idle" => task'[u] = task[u]
    BY <1>2
  <2>4. 1 \in Slots
    BY SlotsFit
  <2> QED BY <1>1, <1>5, <1>6, <2>1, <2>2, <2>3, <2>4 DEF StageInv
<1>9. CompleteIsComplete'
  BY <1>1 DEF IInv, CompleteIsComplete
<1>10. FailureJustified'
  <2>1. outcome # "NO_SUITABLE_ROUTE"
    BY <1>2 DEF IInv, StageInv, RouteErrors
  <2> QED BY <1>1, <1>6, <2>1 DEF IInv, FailureJustified
<1> QED BY <1>3, <1>4, <1>7, <1>8, <1>9, <1>10 DEF IInv

-----------------------------------------------------------------------------
(* The steps of findScenicRoutes and executePlan. *)

\* What a call may end with, per kind; an error of a place look-up is that of the plan.
LEMMA PlaceErrorFits ==
    ASSUME NEW e \in Ends("place"), e # "ok"
    PROVE  /\ PlaceError(e) \in PlaceErrors \cup {"REQUEST_ABORTED"}
           /\ PlaceError(e) = "REQUEST_ABORTED" => e = "ABORTED"
  BY EndsDiffer DEF PlaceError, PlaceErrors, Ends

\* A plan that settles with an error of a place, or as aborted, keeps the invariant.
LEMMA SettledEarly ==
    ASSUME IInv, NEW o \in PlaceErrors \cup {"REQUEST_ABORTED"}, o = "REQUEST_ABORTED" => aborted,
           Settle(o), task' \in [Slots -> Task], TasksInv', results' = results, aborted' = aborted,
           next' = next, remaining' = remaining, retried' \in BOOLEAN, warnings' = warnings,
           answered' = answered, UNCHANGED <<request, selected, degraded>>
    PROVE  IInv'
<1>1. stage' = "done" /\ outcome' = o /\ stops' = stops /\ guided' = guided
  BY DEF Settle, request
<1>2. o \notin RouteErrors \cup Successes /\ o # "pending"
  BY DEF PlaceErrors, RouteErrors, Successes
<1>3. TypeOK'
  BY <1>1 DEF IInv, TypeOK, Outcomes
<1>4. PoolInv' /\ StageInv'
  BY <1>1, <1>2 DEF PoolInv, StageInv
<1>5. CompleteIsComplete' /\ FailureJustified'
  BY <1>1, <1>2 DEF CompleteIsComplete, FailureJustified, Successes, RouteErrors
<1> QED BY <1>3, <1>4, <1>5 DEF IInv

LEMMA StartKeeps ==
    ASSUME IInv, StartResolved
    PROVE  IInv'
<1>1. /\ stage = "start" /\ task[1].pc = "ended" /\ 1 \in Slots /\ TaskSound(1)
      /\ stops \in Nat /\ stops \in StopCounts /\ task[1] \in Task
      /\ stops' = stops /\ guided' = guided /\ remaining' = remaining /\ next' = next
      /\ results' = results /\ warnings' = warnings /\ aborted' = aborted
      /\ selected' = selected /\ degraded' = degraded /\ retried' = retried /\ answered' = answered
  BY SlotsFit, Constants DEF StartResolved, IInv, TypeOK, TasksInv, request, history
<1>2. /\ results = [i \in {0} |-> "none"] /\ Running = {}
  BY <1>1 DEF IInv, StageInv
<1>3. task[1].kind = "place" /\ task[1].end \in Ends("place")
  BY <1>1, <1>2 DEF TaskSound, Running, Task
<1>4. CASE task' = task /\ \E o \in PlaceErrors \cup {"REQUEST_ABORTED"} :
                            Settle(o) /\ (o = "REQUEST_ABORTED" => aborted)
  <2>1. task' \in [Slots -> Task] /\ TasksInv'
    BY <1>1, <1>4 DEF IInv, TypeOK, TasksInv, TaskSound
  <2>2. retried' \in BOOLEAN /\ UNCHANGED <<request, selected, degraded>>
    BY <1>1 DEF IInv, TypeOK, request
  <2> QED BY <1>1, <1>4, <2>1, <2>2, SettledEarly
<1>5. CASE task[1].end # "ok"
  <2>1. Settle(PlaceError(task[1].end)) /\ task' = task
    BY <1>5 DEF StartResolved
  <2>2. /\ PlaceError(task[1].end) \in PlaceErrors \cup {"REQUEST_ABORTED"}
        /\ PlaceError(task[1].end) = "REQUEST_ABORTED" => aborted
    BY <1>1, <1>3, <1>5, PlaceErrorFits DEF TaskSound
  <2> QED BY <1>4, <2>1, <2>2
<1>6. CASE task[1].end = "ok" /\ aborted
  <2>1. Settle("REQUEST_ABORTED") /\ task' = task
    BY <1>6 DEF StartResolved
  <2> QED BY <1>4, <1>6, <2>1
<1>7. CASE task[1].end = "ok" /\ ~ aborted
  <2>1. stage' = "stops" /\ outcome' = outcome
    BY <1>7 DEF StartResolved, Await
  <2>2. PICK n \in [1 .. stops -> 0 .. PlaceQueries] :
           task' = [t \in Slots |-> IF t <= stops THEN Begin("place", 0, n[t]) ELSE Idle]
    BY <1>7 DEF StartResolved
  <2>3. ASSUME NEW t \in Slots
        PROVE  \/ task'[t] = Idle
               \/ \E m \in 0 .. PlaceQueries : task'[t] = Begin("place", 0, m)
    <3>1. CASE t <= stops
      <4>1. t \in 1 .. stops
        BY <1>1, <3>1, SlotsFit
      <4> QED BY <2>2, <3>1, <4>1
    <3>2. CASE ~ (t <= stops)
      BY <2>2, <3>2
    <3> QED BY <3>1, <3>2
  <2>4. task' \in [Slots -> Task] /\ \A t \in Slots : task'[t].kind # "route"
    <3>1. ASSUME NEW t \in Slots PROVE task'[t] \in Task /\ task'[t].kind # "route"
      BY <2>3, BegunPlace, IdleTask
    <3>2. DOMAIN task' = Slots /\ task' = [t \in Slots |-> task'[t]]
      BY <2>2
    <3> QED BY <3>1, <3>2
  <2>5. TasksInv'
    <3>1. ASSUME NEW t \in Slots PROVE TaskSound(t)'
      BY <2>3, BegunPlace, IdleTask DEF TaskSound, Ends
    <3> QED BY <3>1 DEF TasksInv
  <2>6. TypeOK'
    BY <1>1, <2>1, <2>4 DEF IInv, TypeOK
  <2>7. Running' = {}
    BY <2>4 DEF Running
  <2>8. PoolInv' /\ StageInv'
    <3>1. outcome = "pending"
      BY <1>1 DEF IInv, StageInv
    <3> QED BY <1>1, <1>2, <2>1, <2>7, <3>1 DEF PoolInv, StageInv, RouteErrors, Successes
  <2>9. CompleteIsComplete' /\ FailureJustified'
    <3>1. outcome = "pending"
      BY <1>1 DEF IInv, StageInv
    <3> QED BY <2>1, <3>1 DEF CompleteIsComplete, FailureJustified, Successes
  <2> QED BY <2>5, <2>6, <2>8, <2>9 DEF IInv
<1> QED BY <1>5, <1>6, <1>7

\* All slots idle again.
LEMMA AllIdleAgain ==
    ASSUME task' = [t \in Slots |-> Idle]
    PROVE  /\ task' \in [Slots -> Task] /\ TasksInv' /\ AllIdle' /\ Running' = {}
<1>1. \A t \in Slots : task'[t] = Idle
  OBVIOUS
<1>2. task' \in [Slots -> Task] /\ AllIdle' /\ Running' = {}
  BY <1>1, IdleTask DEF AllIdle, Running
<1>3. ASSUME NEW t \in Slots PROVE TaskSound(t)'
  BY <1>1, IdleTask DEF TaskSound
<1> QED BY <1>2, <1>3 DEF TasksInv

LEMMA StopsKeep ==
    ASSUME IInv, StopsResolved
    PROVE  IInv'
<1>1. /\ stage = "stops" /\ 1 .. stops \subseteq Slots
      /\ stops' = stops /\ guided' = guided /\ remaining' = remaining /\ next' = next
      /\ results' = results /\ warnings' = warnings /\ aborted' = aborted
      /\ selected' = selected /\ degraded' = degraded /\ retried' = retried /\ answered' = answered
  BY SlotsFit DEF StopsResolved, IInv, TypeOK, request, history
<1>2. results = [i \in {0} |-> "none"] /\ Running = {} /\ outcome = "pending"
  BY <1>1 DEF IInv, StageInv
<1>3. retried' \in BOOLEAN /\ UNCHANGED <<request, selected, degraded>>
  BY <1>1 DEF IInv, TypeOK, request
<1>4. ASSUME NEW t \in 1 .. stops, task[t].end \in Failures, Settle(PlaceError(task[t].end)),
             task' = task
      PROVE  IInv'
  <2>1. t \in Slots /\ TaskSound(t) /\ task[t] \in Task
    BY <1>1 DEF IInv, TypeOK, TasksInv
  <2>2. task[t].pc = "ended" /\ task[t].kind = "place" /\ task[t].end # "ok"
    BY <1>2, <1>4, <2>1, EndsDiffer DEF TaskSound, Running, Task
  <2>3. /\ PlaceError(task[t].end) \in PlaceErrors \cup {"REQUEST_ABORTED"}
        /\ PlaceError(task[t].end) = "REQUEST_ABORTED" => aborted
    BY <2>1, <2>2, PlaceErrorFits DEF TaskSound
  <2>4. task' \in [Slots -> Task] /\ TasksInv'
    BY <1>1, <1>4 DEF IInv, TypeOK, TasksInv, TaskSound
  <2> QED BY <1>1, <1>3, <1>4, <2>3, <2>4, SettledEarly
<1>5. ASSUME task' = [t \in Slots |-> Idle], aborted, Settle("REQUEST_ABORTED") PROVE IInv'
  <2>1. task' \in [Slots -> Task] /\ TasksInv'
    BY <1>5, AllIdleAgain
  <2> QED BY <1>1, <1>3, <1>5, <2>1, SettledEarly
<1>6. ASSUME task' = [t \in Slots |-> Idle], stage' = "anchors", outcome' = outcome PROVE IInv'
  <2>1. task' \in [Slots -> Task] /\ TasksInv' /\ AllIdle' /\ Running' = {}
    BY <1>6, AllIdleAgain
  <2>2. TypeOK'
    BY <1>1, <1>6, <2>1 DEF IInv, TypeOK
  <2>3. PoolInv' /\ StageInv'
    BY <1>1, <1>2, <1>6, <2>1 DEF PoolInv, StageInv, RouteErrors, Successes
  <2>4. CompleteIsComplete' /\ FailureJustified'
    BY <1>2, <1>6 DEF CompleteIsComplete, FailureJustified, Successes
  <2> QED BY <2>1, <2>2, <2>3, <2>4 DEF IInv
<1> QED BY <1>4, <1>5, <1>6 DEF StopsResolved, Await

\* The candidates are 1 .. n.
LEMMA CandidatesCount ==
    ASSUME TypeOK
    PROVE  \E n \in 0 .. MostCandidates :
              /\ DOMAIN results = 0 .. n /\ Candidates = 1 .. n /\ n \in Nat
              /\ results \in [0 .. n -> {"none"} \cup Qualities \cup Failures]
<1>1. PICK n \in 0 .. MostCandidates :
         results \in [0 .. n -> {"none"} \cup Qualities \cup Failures]
  BY DEF TypeOK
<1>2. n \in Nat /\ DOMAIN results = 0 .. n
  BY <1>1, MostCandidatesFit
<1> QED BY <1>1, <1>2 DEF Candidates

LEMMA AnchorsKeep ==
    ASSUME IInv, AnchorsSettled
    PROVE  IInv'
<1>1. /\ stage = "anchors" /\ AllIdle /\ outcome = "pending"
      /\ stops' = stops /\ guided' = guided /\ remaining' = remaining /\ aborted' = aborted
      /\ selected' = selected /\ degraded' = degraded /\ retried' = retried
      /\ retried' \in BOOLEAN /\ warnings \subseteq Warnings
      /\ UNCHANGED <<request, selected, degraded>>
  BY DEF AnchorsSettled, IInv, TypeOK, StageInv, request
<1>2. CASE aborted
  <2>1. Settle("REQUEST_ABORTED") /\ UNCHANGED <<task, next, results, warnings, answered>>
    BY <1>2 DEF AnchorsSettled
  <2>2. task' \in [Slots -> Task] /\ TasksInv'
    BY <1>1, <2>1 DEF IInv, TypeOK, TasksInv, TaskSound
  <2> QED BY <1>1, <1>2, <2>1, <2>2, SettledEarly
<1>3. CASE ~ aborted
  <2>1. PICK anchored \in BOOLEAN, arrived \in BOOLEAN :
           LET n == CandidateCount(anchored)
               w == Min({MaxConcurrent, n})
           IN  /\ Await("route")
               /\ answered' = IF arrived THEN {"anchors"} ELSE {}
               /\ warnings' = IF arrived THEN warnings
                              ELSE warnings \cup {"SCENERY_ANCHORS_UNAVAILABLE"}
               /\ task' = [t \in Slots |-> IF t <= w THEN Begin("route", t, Legs) ELSE Idle]
               /\ next' = w + 1
               /\ results' = [i \in 0 .. n |-> "none"]
    BY <1>3 DEF AnchorsSettled
  <2> DEFINE n == CandidateCount(anchored)
             w == Min({MaxConcurrent, n})
  <2>2. /\ stage' = "route" /\ outcome' = outcome /\ warnings' \subseteq Warnings
        /\ task' = [t \in Slots |-> IF t <= w THEN Begin("route", t, Legs) ELSE Idle]
        /\ next' = w + 1 /\ results' = [i \in 0 .. n |-> "none"]
        /\ answered' \subseteq SceneryCalls
        /\ "SCENERY_ANCHORS_UNAVAILABLE" \in warnings' \/ "anchors" \in answered'
    BY <1>1, <2>1 DEF Await, Warnings, SceneryCalls
  <2>3. n \in 1 .. MostCandidates
    BY CandidatesFit DEF IInv
  <2> HIDE DEF n
  <2>4. w \in 1 .. n /\ w <= MaxConcurrent
    <3>1. n \in Int /\ MaxConcurrent \in Int
      BY <2>3, Constants, MostCandidatesFit
    <3>2. w \in {MaxConcurrent, n} /\ w <= MaxConcurrent /\ w <= n
      BY <3>1, MinOfTwo, Zenon
    <3> HIDE DEF w
    <3> QED BY <2>3, <3>2, Constants, MostCandidatesFit
  <2> HIDE DEF w
  <2>5. ASSUME NEW t \in Slots
        PROVE  /\ t \in Nat /\ t >= 1 /\ task'[t] \in Task
               /\ t <= w => /\ task'[t].kind = "route" /\ task'[t].job = t
                            /\ task'[t].pc = "ready" /\ task'[t].end = "none"
               /\ ~ (t <= w) => task'[t] = Idle
    <3>1. t \in Nat /\ t >= 1
      BY SlotsFit
    <3>2. CASE t <= w
      <4>1. t \in 0 .. MostCandidates
        BY <2>3, <2>4, <3>1, <3>2, MostCandidatesFit
      <4>2. task'[t] = Begin("route", t, Legs)
        BY <2>2, <3>2
      <4> QED BY <3>1, <3>2, <4>1, <4>2, BegunRoute DEF IInv
    <3>3. CASE ~ (t <= w)
      BY <2>2, <3>1, <3>3, IdleTask
    <3> QED BY <3>2, <3>3
  <2>6. task' \in [Slots -> Task]
    <3>1. task' = [t \in Slots |-> task'[t]]
      BY <2>2
    <3> QED BY <2>5, <3>1
  <2>7. TasksInv'
    <3>1. ASSUME NEW t \in Slots PROVE TaskSound(t)'
      BY <2>5, IdleTask DEF TaskSound
    <3> QED BY <3>1 DEF TasksInv
  <2>8. TypeOK'
    <3>1. next' \in 1 .. MostCandidates + 1
      BY <2>2, <2>3, <2>4, MostCandidatesFit
    <3>2. \E k \in 0 .. MostCandidates : results' \in [0 .. k -> {"none"} \cup Qualities \cup Failures]
      BY <2>2, <2>3, MostCandidatesFit
    <3> QED BY <1>1, <2>2, <2>6, <3>1, <3>2 DEF IInv, TypeOK
  <2>9. Running' = {t \in Slots : t <= w} /\ 1 \in Running'
    <3>1. ASSUME NEW t \in Slots PROVE task'[t].kind = "route" <=> t <= w
      BY <2>5, IdleTask
    <3>2. Running' = {t \in Slots : t <= w}
      BY <3>1 DEF Running
    <3>3. 1 \in Slots /\ 1 <= w
      BY <2>3, <2>4, SlotsFit, MostCandidatesFit
    <3> QED BY <3>2, <3>3
  <2>10. Candidates' = 1 .. n /\ \A i \in 0 .. n : results'[i] = "none"
    BY <2>2, <2>3, MostCandidatesFit DEF Candidates
  <2>11. \A t \in 1 .. w : t \in Slots
    BY <2>3, <2>4, SlotsFit, Constants, MostCandidatesFit
  <2>12. PoolInv'
    <3>1. \A t \in Running' : t \in 1 .. n /\ t < next' /\ t <= MaxConcurrent /\ task'[t].job = t
      BY <2>2, <2>3, <2>4, <2>5, <2>9, Constants, MostCandidatesFit
    <3>2. ASSUME NEW i \in 1 .. n
          PROVE  i >= next' \/ \E t \in Running' : task'[t].job = i
      <4>1. i >= next' \/ i \in 1 .. w
        BY <2>2, <2>3, <2>4, MostCandidatesFit
      <4> QED BY <2>5, <2>9, <2>11, <4>1
    <3>3. /\ \A t \in Running' : t <= MaxConcurrent
          /\ \A t \in Running' : task'[t].job \in Candidates' /\ task'[t].job < next'
                                 /\ results'[task'[t].job] = "none"
          /\ \A t, u \in Running' : t # u => task'[t].job # task'[u].job
      BY <2>3, <2>10, <3>1, MostCandidatesFit
    <3>4. \A i \in Candidates' : results'[i] = "none" /\ (i >= next' \/ \E t \in Running' : task'[t].job = i)
      BY <2>3, <2>10, <3>2, MostCandidatesFit
    <3> QED BY <2>9, <3>3, <3>4 DEF PoolInv
  <2>13. StageInv'
    <3>1. \A t \in Slots : task'[t].kind # "place"
      BY <2>5, IdleTask
    <3>2. results'[0] = "none"
      BY <2>3, <2>10, MostCandidatesFit
    <3> QED BY <1>1, <2>2, <3>1, <3>2 DEF StageInv, RouteErrors, Successes
  <2>14. CompleteIsComplete' /\ FailureJustified'
    BY <1>1, <2>2 DEF CompleteIsComplete, FailureJustified, Successes
  <2> QED BY <2>7, <2>8, <2>12, <2>13, <2>14 DEF IInv
<1> QED BY <1>2, <1>3

LEMMA WorkerKeeps ==
    ASSUME IInv, NEW t \in Slots, WorkerContinues(t)
    PROVE  IInv'
<1> DEFINE j == task[t].job
<1>1. /\ stage = "route" /\ outcome = "pending" /\ stage' = stage /\ outcome' = outcome
      /\ stops' = stops /\ guided' = guided /\ remaining' = remaining /\ aborted' = aborted
      /\ selected' = selected /\ degraded' = degraded /\ retried' = retried /\ answered' = answered
      /\ warnings' = warnings /\ results' = [results EXCEPT ![j] = task[t].end]
      /\ "SCENERY_ANCHORS_UNAVAILABLE" \in warnings \/ "anchors" \in answered
  BY DEF WorkerContinues, IInv, StageInv, request, history
<1>2. /\ t \in Running /\ t <= MaxConcurrent /\ j \in Candidates /\ j < next
      /\ task[t].pc = "ended" /\ task[t].kind = "route"
  BY <1>1 DEF WorkerContinues, IInv, PoolInv, Running
<1>3. task[t].end \in Qualities \cup Failures /\ task[t].end # "none"
  <2>1. TaskSound(t)
    BY DEF IInv, TasksInv
  <2> QED BY <1>2, <2>1, EndsDiffer DEF TaskSound, Ends
<1>4. PICK n \in 0 .. MostCandidates :
         /\ DOMAIN results = 0 .. n /\ Candidates = 1 .. n /\ n \in Nat
         /\ results \in [0 .. n -> {"none"} \cup Qualities \cup Failures]
  BY CandidatesCount DEF IInv
<1>5. /\ task \in [Slots -> Task] /\ next \in Nat /\ next >= 1
      /\ \A u \in Running : /\ u <= MaxConcurrent /\ task[u].job \in 1 .. n /\ task[u].job < next
                             /\ results[task[u].job] = "none"
      /\ \A u, v \in Running : u # v => task[u].job # task[v].job
      /\ \A i \in 1 .. n : results[i] = "none" => i >= next \/ \E u \in Running : task[u].job = i
      /\ \A i \in 1 .. n : i >= next => results[i] = "none"
      /\ results[0] = "none" /\ \A u \in Slots : task[u].kind # "place"
  BY <1>1, <1>4, MostCandidatesFit DEF IInv, TypeOK, PoolInv, StageInv
<1> HIDE DEF j
<1>6. /\ results' \in [0 .. n -> {"none"} \cup Qualities \cup Failures]
      /\ results'[j] # "none" /\ \A i \in 0 .. n : i # j => results'[i] = results[i]
      /\ j \in 1 .. n /\ j < next
  BY <1>1, <1>2, <1>3, <1>4
<1>7. Candidates' = 1 .. n
  BY <1>4, <1>6 DEF Candidates
<1>8. CASE next \in Candidates
  <2>1. task' = [task EXCEPT ![t] = Begin("route", next, Legs)] /\ next' = next + 1
    BY <1>8 DEF WorkerContinues
  <2>2. next \in 1 .. n /\ next \in 0 .. MostCandidates
    BY <1>4, <1>8, MostCandidatesFit
  <2>3. /\ task' \in [Slots -> Task] /\ \A u \in Slots : u # t => task'[u] = task[u]
        /\ task'[t].kind = "route" /\ task'[t].job = next
        /\ task'[t].pc = "ready" /\ task'[t].end = "none"
    <3>1. Begin("route", next, Legs) \in Task
      BY <2>2, BegunRoute DEF IInv
    <3>2. task'[t] = Begin("route", next, Legs)
      BY <1>5, <2>1
    <3>3. task' \in [Slots -> Task] /\ \A u \in Slots : u # t => task'[u] = task[u]
      BY <1>5, <2>1, <3>1
    <3> QED BY <2>2, <3>2, <3>3, BegunRoute DEF IInv
  <2>4. TypeOK'
    <3>1. next' \in 1 .. MostCandidates + 1
      BY <2>1, <2>2, MostCandidatesFit
    <3> QED BY <1>1, <1>6, <2>3, <3>1 DEF IInv, TypeOK
  <2>5. TasksInv'
    <3>1. ASSUME NEW u \in Slots PROVE TaskSound(u)'
      BY <1>1, <2>3 DEF TaskSound, IInv, TasksInv
    <3> QED BY <3>1 DEF TasksInv
  <2>6. Running' = Running /\ \A u \in Running : u # t => task'[u].job = task[u].job
    BY <1>2, <2>3 DEF Running
  <2>7. PoolInv'
    <3>1. ASSUME NEW u \in Running
          PROVE  u <= MaxConcurrent /\ task'[u].job \in 1 .. n /\ task'[u].job < next'
                 /\ results'[task'[u].job] = "none"
      <4>1. CASE u = t
        BY <1>2, <1>5, <1>6, <2>1, <2>2, <2>3, <4>1
      <4>2. CASE u # t
        <5>1. task'[u].job = task[u].job /\ task[u].job # j
          BY <1>2, <1>5, <2>6, <4>2 DEF j
        <5> QED BY <1>5, <1>6, <2>1, <5>1
      <4> QED BY <4>1, <4>2
    <3>2. ASSUME NEW u \in Running, NEW v \in Running, u # v PROVE task'[u].job # task'[v].job
      BY <1>5, <2>3, <2>6, <3>2
    <3>3. ASSUME NEW i \in 1 .. n, results'[i] = "none"
          PROVE  i >= next' \/ \E u \in Running : task'[u].job = i
      <4>1. i # j /\ results[i] = "none"
        BY <1>6, <3>3
      <4>2. CASE i >= next
        BY <1>2, <1>5, <2>1, <2>3, <4>2
      <4>3. CASE \E u \in Running : task[u].job = i
        <5>1. PICK u \in Running : task[u].job = i
          BY <4>3
        <5>2. u # t
          BY <4>1, <5>1 DEF j
        <5> QED BY <2>6, <5>1, <5>2
      <4> QED BY <1>5, <4>1, <4>2, <4>3
    <3>4. \A i \in 1 .. n : i >= next' => results'[i] = "none"
      BY <1>5, <1>6, <2>1
    <3> QED BY <1>2, <1>7, <2>6, <3>1, <3>2, <3>3, <3>4 DEF PoolInv
  <2>8. StageInv'
    <3>1. results'[0] = "none" /\ \A u \in Slots : task'[u].kind # "place"
      BY <1>4, <1>5, <1>6, <2>3
    <3> QED BY <1>1, <3>1 DEF StageInv, RouteErrors, Successes
  <2>9. CompleteIsComplete' /\ FailureJustified'
    BY <1>1 DEF CompleteIsComplete, FailureJustified, Successes
  <2> QED BY <2>4, <2>5, <2>7, <2>8, <2>9 DEF IInv
<1>9. CASE next \notin Candidates
  <2>1. task' = [task EXCEPT ![t] = Idle] /\ next' = next
    BY <1>9 DEF WorkerContinues
  <2>2. /\ task' \in [Slots -> Task] /\ \A u \in Slots : u # t => task'[u] = task[u]
        /\ task'[t] = Idle
    BY <1>5, <2>1, IdleTask
  <2>3. TypeOK'
    BY <1>1, <1>6, <2>1, <2>2 DEF IInv, TypeOK
  <2>4. TasksInv'
    <3>1. ASSUME NEW u \in Slots PROVE TaskSound(u)'
      BY <1>1, <2>2, IdleTask DEF TaskSound, IInv, TasksInv
    <3> QED BY <3>1 DEF TasksInv
  <2>5. Running' = Running \ {t} /\ \A u \in Running' : task'[u].job = task[u].job
    BY <1>2, <2>2, IdleTask DEF Running
  <2>6. PoolInv'
    <3>1. ASSUME NEW u \in Running'
          PROVE  u <= MaxConcurrent /\ task'[u].job \in 1 .. n /\ task'[u].job < next'
                 /\ results'[task'[u].job] = "none"
      <4>1. u \in Running /\ task'[u].job = task[u].job /\ task[u].job # j
        BY <1>2, <1>5, <2>5 DEF j
      <4> QED BY <1>5, <1>6, <2>1, <4>1
    <3>2. ASSUME NEW i \in 1 .. n, results'[i] = "none"
          PROVE  i >= next' \/ \E u \in Running' : task'[u].job = i
      <4>1. i # j /\ results[i] = "none"
        BY <1>6, <3>2
      <4>2. CASE i >= next
        BY <2>1, <4>2
      <4>3. CASE \E u \in Running : task[u].job = i
        BY <2>5, <4>1, <4>3 DEF j
      <4> QED BY <1>5, <4>1, <4>2, <4>3
    <3>3. \A i \in 1 .. n : i >= next' => results'[i] = "none"
      BY <1>5, <1>6, <2>1
    <3>4. next' \notin 1 .. n
      BY <1>4, <1>9, <2>1
    <3> QED BY <1>5, <1>7, <2>5, <3>1, <3>2, <3>3, <3>4 DEF PoolInv
  <2>7. StageInv'
    <3>1. results'[0] = "none" /\ \A u \in Slots : task'[u].kind # "place"
      BY <1>4, <1>5, <1>6, <2>2, IdleTask
    <3> QED BY <1>1, <3>1 DEF StageInv, RouteErrors, Successes
  <2>8. CompleteIsComplete' /\ FailureJustified'
    BY <1>1 DEF CompleteIsComplete, FailureJustified, Successes
  <2> QED BY <2>3, <2>4, <2>6, <2>7, <2>8 DEF IInv
<1> QED BY <1>8, <1>9

\* When every worker has ended, every candidate has its result.
LEMMA PoolOver ==
    ASSUME IInv, stage = "route", AllIdle
    PROVE  /\ Running = {} /\ \A i \in Candidates : results[i] # "none"
           /\ results[0] = "none" /\ outcome = "pending"
<1>1. PICK n \in 0 .. MostCandidates :
         /\ DOMAIN results = 0 .. n /\ Candidates = 1 .. n /\ n \in Nat
         /\ results \in [0 .. n -> {"none"} \cup Qualities \cup Failures]
  BY CandidatesCount DEF IInv
<1>2. Running = {}
  BY IdleTask DEF IInv, TasksInv, TaskSound, Running, AllIdle
<1>3. next \in Nat /\ next >= 1 /\ next \notin 1 .. n
  BY <1>1, <1>2, MostCandidatesFit DEF IInv, TypeOK, PoolInv
<1>4. \A i \in 1 .. n : results[i] = "none" => i >= next
  BY <1>1, <1>2 DEF IInv, PoolInv
<1> QED BY <1>1, <1>2, <1>3, <1>4 DEF IInv, StageInv

LEMMA RoutesKeep ==
    ASSUME IInv, RoutesSettled
    PROVE  IInv'
<1>1. /\ stage = "route" /\ AllIdle /\ Running = {} /\ outcome = "pending"
      /\ stops' = stops /\ guided' = guided /\ remaining' = remaining /\ aborted' = aborted
      /\ next' = next /\ results' = results
      /\ selected' = selected /\ degraded' = degraded /\ retried' = FALSE /\ answered' = answered
      /\ UNCHANGED <<request, selected, degraded>>
  BY PoolOver DEF RoutesSettled, AllIdle, request
<1>2. /\ \A i \in Candidates : results[i] # "none"
      /\ results[0] = "none"
  BY <1>1, PoolOver
<1>3. PICK n \in 0 .. MostCandidates :
         /\ DOMAIN results = 0 .. n /\ Candidates = 1 .. n /\ n \in Nat
         /\ results \in [0 .. n -> {"none"} \cup Qualities \cup Failures]
  BY CandidatesCount DEF IInv
<1>4. /\ warnings' \subseteq Warnings
      /\ "SCENERY_ANCHORS_UNAVAILABLE" \in warnings' \/ "anchors" \in answered'
  BY <1>1 DEF RoutesSettled, IInv, TypeOK, StageInv, Warnings
<1>5. Candidates' = Candidates /\ Legs' = Legs
  BY <1>1 DEF Candidates, Legs
<1>6. ASSUME task' = task PROVE task' \in [Slots -> Task] /\ TasksInv' /\ AllIdle'
  BY <1>1, <1>6 DEF IInv, TypeOK, TasksInv, TaskSound, AllIdle
<1>7. ASSUME task' = task, NEW o \in RouteErrors, Settle(o), FailureJustified'
      PROVE  IInv'
  <2>1. stage' = "done" /\ outcome' = o
    BY <1>7 DEF Settle
  <2>2. o \notin Successes /\ o # "pending" /\ o # "REQUEST_ABORTED"
    BY DEF RouteErrors, Successes
  <2>3. TypeOK'
    BY <1>1, <1>4, <1>6, <1>7, <2>1 DEF IInv, TypeOK, Outcomes
  <2>4. PoolInv' /\ StageInv'
    BY <1>6, <1>7, <2>1, <2>2 DEF PoolInv, StageInv, AllIdle
  <2>5. CompleteIsComplete'
    BY <2>1, <2>2 DEF CompleteIsComplete, Successes
  <2> QED BY <1>6, <1>7, <2>3, <2>4, <2>5 DEF IInv
<1>8. CASE aborted
  <2>1. Settle("REQUEST_ABORTED") /\ task' = task /\ warnings' = warnings
    BY <1>8 DEF RoutesSettled
  <2>2. retried' \in BOOLEAN
    BY <1>1
  <2> QED BY <1>1, <1>6, <1>8, <2>1, <2>2, SettledEarly
<1>9. CASE ~ aborted /\ Routed(results) = {}
  <2>1. Settle(RouteFailure) /\ task' = task
    BY <1>9 DEF RoutesSettled
  <2>2. \A i \in DOMAIN results : results[i] \notin Qualities
    BY <1>9 DEF Routed
  <2>3. RouteFailure \in RouteErrors
    BY DEF RouteFailure, RouteErrors
  <2>4. FailureJustified'
    <3>1. /\ RouteFailure = "ROUTE_PROVIDER_QUOTA_EXCEEDED" =>
               \A i \in Candidates : results[i] = "QUOTA_EXCEEDED"
          /\ RouteFailure = "ROUTE_PROVIDER_TIMEOUT" => \A i \in Candidates : results[i] = "TIMEOUT"
      <4> DEFINE failures == {results[i] : i \in Candidates}
      <4>1. \A i \in Candidates : results[i] \in failures
        OBVIOUS
      <4>2. RouteFailure = CASE failures = {"QUOTA_EXCEEDED"} -> "ROUTE_PROVIDER_QUOTA_EXCEEDED"
                             [] failures = {"TIMEOUT"} -> "ROUTE_PROVIDER_TIMEOUT"
                             [] OTHER -> "NO_SUITABLE_ROUTE"
        BY DEF RouteFailure
      <4> HIDE DEF failures
      <4>3. failures = {"QUOTA_EXCEEDED"} => failures # {"TIMEOUT"}
        OBVIOUS
      <4> QED BY <4>1, <4>2, <4>3
    <3>2. \A i \in DOMAIN results : results[i] \notin {"primary", "relaxed", "far"}
      BY <2>2, EndsDiffer
    <3>3. outcome' = RouteFailure
      BY <2>1 DEF Settle
    <3>4. \A i \in Candidates : i \in DOMAIN results
      BY DEF Candidates
    <3> QED BY <1>1, <1>5, <3>1, <3>2, <3>3, <3>4 DEF FailureJustified
  <2> QED BY <1>7, <2>1, <2>3, <2>4
<1>10. CASE ~ aborted /\ Routed(results) # {} /\ Refinable
  <2> DEFINE x == Begin("route", 0, Legs)
  <2>1. stage' = "refine" /\ outcome' = outcome /\ task' = [task EXCEPT ![1] = x]
    BY <1>8, <1>10 DEF RoutesSettled, Await
  <2>2. /\ x \in Task /\ x.kind = "route" /\ x.job = 0 /\ x.pc = "ready" /\ x.end = "none"
    BY BegunRoute, MostCandidatesFit DEF IInv
  <2> HIDE DEF x
  <2>3. /\ task' \in [Slots -> Task] /\ task'[1] = x /\ 1 \in Slots
        /\ \A t \in Slots : t # 1 => task'[t] = task[t]
    BY <2>1, <2>2, SlotsFit DEF IInv, TypeOK
  <2>4. TypeOK'
    BY <1>1, <1>4, <2>1, <2>3 DEF IInv, TypeOK
  <2>5. TasksInv'
    <3>1. ASSUME NEW t \in Slots PROVE TaskSound(t)'
      BY <1>1, <2>2, <2>3 DEF TaskSound, IInv, TasksInv
    <3> QED BY <3>1 DEF TasksInv
  <2>6. "ROUTE_CANDIDATE_FAILED" \notin warnings' => \A i \in DOMAIN results : results[i] \notin Failures
    <3>1. (\E i \in Candidates : results[i] \in Failures) => "ROUTE_CANDIDATE_FAILED" \in warnings'
      BY <1>10 DEF RoutesSettled
    <3>2. \A i \in DOMAIN results : i = 0 \/ i \in Candidates
      BY DEF Candidates
    <3>3. "none" \notin Failures
      BY EndsDiffer
    <3> QED BY <1>2, <3>1, <3>2, <3>3
  <2>7. PoolInv' /\ StageInv'
    BY <1>1, <1>2, <1>4, <1>5, <2>1, <2>2, <2>3, <2>6
       DEF PoolInv, StageInv, AllIdle, RouteErrors, Successes
  <2>8. CompleteIsComplete' /\ FailureJustified'
    BY <1>1, <2>1 DEF CompleteIsComplete, FailureJustified, Successes
  <2> QED BY <2>4, <2>5, <2>7, <2>8 DEF IInv
<1>11. CASE ~ aborted /\ Routed(results) # {} /\ ~ Refinable
  <2>1. Constrain(results) /\ task' = task
    BY <1>11 DEF RoutesSettled
  <2>2. CASE Suitable(results) = {}
    <3>1. Settle("NO_SUITABLE_ROUTE") /\ "NO_SUITABLE_ROUTE" \in RouteErrors
      BY <2>1, <2>2 DEF Constrain, RouteErrors
    <3>2. \A i \in DOMAIN results : results[i] \notin {"primary", "relaxed"}
      BY <2>2 DEF Suitable, Fitting
    <3>3. guided /\ (\E i \in Candidates : results[i] = "far") => remaining < Legs
      <4>1. Legs \in Int /\ remaining \in Int
        BY LegsFit, Constants DEF IInv, TypeOK
      <4> QED BY <1>11, <4>1 DEF Refinable
    <3>4. outcome' = "NO_SUITABLE_ROUTE"
      BY <3>1 DEF Settle
    <3>5. FailureJustified'
      BY <1>1, <1>5, <3>2, <3>3, <3>4 DEF FailureJustified
    <3> QED BY <1>7, <2>1, <3>1, <3>5
  <2>3. CASE Suitable(results) # {}
    <3>1. stage' = "analyze" /\ outcome' = outcome
      BY <2>1, <2>3 DEF Constrain, Await
    <3>2. TypeOK'
      BY <1>1, <1>4, <1>6, <2>1, <3>1 DEF IInv, TypeOK
    <3>3. "ROUTE_CANDIDATE_FAILED" \notin warnings' => \A i \in DOMAIN results : results[i] \notin Failures
      <4>1. (\E i \in Candidates : results[i] \in Failures) => "ROUTE_CANDIDATE_FAILED" \in warnings'
        BY <1>11 DEF RoutesSettled
      <4>2. \A i \in DOMAIN results : i = 0 \/ i \in Candidates
        BY DEF Candidates
      <4>3. "none" \notin Failures
        BY EndsDiffer
      <4> QED BY <1>2, <4>1, <4>2, <4>3
    <3>4. PoolInv' /\ StageInv'
      BY <1>1, <1>2, <1>4, <1>5, <1>6, <2>1, <3>1, <3>3 DEF PoolInv, StageInv, RouteErrors, Successes
    <3>5. CompleteIsComplete' /\ FailureJustified'
      BY <1>1, <3>1 DEF CompleteIsComplete, FailureJustified, Successes
    <3> QED BY <1>6, <2>1, <3>2, <3>4, <3>5 DEF IInv
  <2> QED BY <2>2, <2>3
<1> QED BY <1>8, <1>9, <1>10, <1>11

LEMMA RefinedKeeps ==
    ASSUME IInv, Refined
    PROVE  IInv'
<1> DEFINE e == task[1].end
           res == [results EXCEPT ![0] = e]
<1>1. /\ stage = "refine" /\ outcome = "pending" /\ task[1].pc = "ended" /\ 1 \in Slots
      /\ stops' = stops /\ guided' = guided /\ remaining' = remaining /\ aborted' = aborted
      /\ next' = next /\ results' = res /\ task' = [task EXCEPT ![1] = Idle]
      /\ selected' = selected /\ degraded' = degraded /\ retried' = retried /\ answered' = answered
      /\ retried' \in BOOLEAN
  BY SlotsFit DEF Refined, IInv, TypeOK, StageInv, request, history
<1>2. /\ task[1].kind = "route" /\ \A t \in Slots : t # 1 => task[t].pc = "idle"
      /\ \A i \in Candidates : results[i] # "none"
      /\ "ROUTE_CANDIDATE_FAILED" \notin warnings => \A i \in DOMAIN results : results[i] \notin Failures
  BY <1>1 DEF IInv, StageInv
<1>3. e \in Qualities \cup Failures /\ e # "none"
  <2>1. TaskSound(1)
    BY <1>1 DEF IInv, TasksInv
  <2> QED BY <1>1, <1>2, <2>1, EndsDiffer DEF TaskSound, Ends
<1>4. PICK n \in 0 .. MostCandidates :
         /\ DOMAIN results = 0 .. n /\ Candidates = 1 .. n /\ n \in Nat
         /\ results \in [0 .. n -> {"none"} \cup Qualities \cup Failures]
  BY CandidatesCount DEF IInv
<1> HIDE DEF e
<1>5. /\ results' \in [0 .. n -> {"none"} \cup Qualities \cup Failures]
      /\ results'[0] = e /\ \A i \in 1 .. n : results'[i] = results[i]
  BY <1>1, <1>3, <1>4
<1>6. Candidates' = Candidates /\ Legs' = Legs
  BY <1>1, <1>4, <1>5 DEF Candidates, Legs
<1>7. /\ warnings' \subseteq Warnings
      /\ "ROUTE_CANDIDATE_FAILED" \notin warnings' =>
           /\ "ROUTE_CANDIDATE_FAILED" \notin warnings /\ results'[0] \notin Failures
      /\ "SCENERY_ANCHORS_UNAVAILABLE" \in warnings' \/ "anchors" \in answered'
  BY <1>1 DEF Refined, IInv, TypeOK, StageInv, Warnings
<1>8. /\ task' \in [Slots -> Task] /\ task'[1] = Idle
      /\ \A t \in Slots : t # 1 => task'[t] = task[t]
  BY <1>1, IdleTask DEF IInv, TypeOK
<1>9. AllIdle'
  BY <1>2, <1>8, IdleTask DEF AllIdle
<1>10. TasksInv'
  <2>1. ASSUME NEW t \in Slots PROVE TaskSound(t)'
    BY <1>1, <1>8, IdleTask DEF TaskSound, IInv, TasksInv
  <2> QED BY <2>1 DEF TasksInv
<1>11. ASSUME NEW o \in RouteErrors \cup {"REQUEST_ABORTED"}, Settle(o), FailureJustified',
              o = "REQUEST_ABORTED" => aborted
       PROVE  IInv'
  <2>1. stage' = "done" /\ outcome' = o
    BY <1>11 DEF Settle
  <2>2. o \notin Successes /\ o # "pending" /\ "REQUEST_ABORTED" \notin RouteErrors
    BY <1>11 DEF RouteErrors, Successes
  <2>3. TypeOK'
    BY <1>1, <1>4, <1>5, <1>7, <1>8, <1>11, <2>1 DEF IInv, TypeOK, Outcomes
  <2>4. PoolInv' /\ StageInv'
    BY <1>1, <1>9, <1>11, <2>1, <2>2 DEF PoolInv, StageInv, AllIdle
  <2>5. CompleteIsComplete'
    BY <2>1, <2>2 DEF CompleteIsComplete, Successes
  <2> QED BY <1>10, <1>11, <2>3, <2>4, <2>5 DEF IInv
<1>12. CASE aborted
  <2>1. Settle("REQUEST_ABORTED")
    BY <1>12 DEF Refined
  <2>2. outcome' = "REQUEST_ABORTED"
    BY <2>1 DEF Settle
  <2>3. FailureJustified'
    BY <2>2 DEF FailureJustified
  <2> QED BY <1>11, <1>12, <2>1, <2>3
<1>13. CASE ~ aborted
  <2>1. Constrain(res)
    BY <1>13 DEF Refined, e
  <2>2. CASE Suitable(res) = {}
    <3>1. Settle("NO_SUITABLE_ROUTE") /\ "NO_SUITABLE_ROUTE" \in RouteErrors
      BY <2>1, <2>2 DEF Constrain, RouteErrors
    <3>2. \A i \in DOMAIN res : res[i] \notin {"primary", "relaxed"}
      BY <2>2 DEF Suitable, Fitting
    <3>3. outcome' = "NO_SUITABLE_ROUTE"
      BY <3>1 DEF Settle
    <3>4. FailureJustified'
      BY <1>1, <1>3, <1>5, <3>2, <3>3 DEF FailureJustified
    <3> QED BY <1>11, <3>1, <3>4
  <2>3. CASE Suitable(res) # {}
    <3>1. stage' = "analyze" /\ outcome' = outcome
      BY <2>1, <2>3 DEF Constrain, Await
    <3>2. TypeOK'
      BY <1>1, <1>4, <1>5, <1>7, <1>8, <3>1 DEF IInv, TypeOK
    <3>3. \A i \in Candidates' : results'[i] # "none"
      BY <1>2, <1>4, <1>5, <1>6
    <3>4. "ROUTE_CANDIDATE_FAILED" \notin warnings' => \A i \in DOMAIN results' : results'[i] \notin Failures
      <4>1. \A i \in DOMAIN results' : i = 0 \/ (i \in 1 .. n /\ i \in DOMAIN results)
        BY <1>4, <1>5
      <4> QED BY <1>2, <1>5, <1>7, <4>1
    <3>5. PoolInv' /\ StageInv'
      BY <1>1, <1>7, <1>9, <3>1, <3>3, <3>4 DEF PoolInv, StageInv, RouteErrors, Successes
    <3>6. CompleteIsComplete' /\ FailureJustified'
      BY <1>1, <3>1 DEF CompleteIsComplete, FailureJustified, Successes
    <3> QED BY <1>10, <3>2, <3>5, <3>6 DEF IInv
  <2> QED BY <2>2, <2>3
<1> QED BY <1>12, <1>13

LEMMA AnalyzedKeeps ==
    ASSUME IInv, Analyzed
    PROVE  IInv'
<1>1. /\ stage = "analyze" /\ outcome = "pending" /\ AllIdle
      /\ stops' = stops /\ guided' = guided /\ remaining' = remaining /\ aborted' = aborted
      /\ next' = next /\ results' = results /\ task' = task /\ retried' = retried
      /\ retried' \in BOOLEAN /\ UNCHANGED request
  BY DEF Analyzed, IInv, TypeOK, StageInv, request
<1>2. /\ "ROUTE_CANDIDATE_FAILED" \notin warnings => \A i \in DOMAIN results : results[i] \notin Failures
      /\ "SCENERY_ANCHORS_UNAVAILABLE" \in warnings \/ "anchors" \in answered
      /\ answered \subseteq SceneryCalls
  BY <1>1 DEF IInv, StageInv, TypeOK
<1>3. task' \in [Slots -> Task] /\ TasksInv' /\ AllIdle'
  BY <1>1 DEF IInv, TypeOK, TasksInv, TaskSound, AllIdle
<1>4. PICK arrived \in BOOLEAN, poor \in SUBSET Suitable(results), chosen \in SUBSET Suitable(results) :
         LET late == IF arrived THEN {} ELSE {"SCENERY_FEATURES_UNAVAILABLE"}
             warned == warnings \cup late \cup SelectionWarnings(chosen, poor)
         IN  /\ chosen # {} /\ Cardinality(chosen) <= MaxResults
             /\ ~ arrived => poor = Suitable(results)
             /\ IF aborted
                THEN /\ Settle("REQUEST_ABORTED")
                     /\ UNCHANGED <<warnings, selected, degraded, answered>>
                ELSE /\ Settle(IF warned = {} THEN "complete" ELSE "partial")
                     /\ warnings' = warned /\ selected' = chosen /\ degraded' = poor
                     /\ answered' = IF arrived THEN answered \cup {"analysis"} ELSE answered
  BY DEF Analyzed
<1>5. CASE aborted
  <2>1. Settle("REQUEST_ABORTED") /\ UNCHANGED <<warnings, selected, degraded, answered>>
    BY <1>4, <1>5
  <2> QED BY <1>1, <1>3, <1>5, <2>1, SettledEarly
<1>6. CASE ~ aborted
  <2> DEFINE late == IF arrived THEN {} ELSE {"SCENERY_FEATURES_UNAVAILABLE"}
             extra == SelectionWarnings(chosen, poor)
             warned == warnings \cup late \cup extra
  <2>1. /\ chosen # {} /\ Cardinality(chosen) <= MaxResults
        /\ Settle(IF warned = {} THEN "complete" ELSE "partial")
        /\ warnings' = warned /\ selected' = chosen /\ degraded' = poor
        /\ answered' = IF arrived THEN answered \cup {"analysis"} ELSE answered
    BY <1>4, <1>6
  <2>2. PICK n \in 0 .. MostCandidates : n \in Nat /\ DOMAIN results = 0 .. n
    BY CandidatesCount DEF IInv
  <2>3. /\ \A i \in Suitable(results) : i \in 0 .. MostCandidates /\ results[i] \in Fitting
        /\ IsFiniteSet(0 .. n) /\ Suitable(results) \subseteq 0 .. n
    <3>1. IsFiniteSet(0 .. n)
      BY <2>2, FS_Interval
    <3> QED BY <2>2, <3>1, MostCandidatesFit DEF Suitable
  <2>4. Cardinality(chosen) \in Nat
    <3>1. IsFiniteSet(chosen)
      BY <2>3, FS_Subset
    <3> QED BY <3>1, FS_CardinalityType
  <2>5. extra \subseteq Warnings /\ late \subseteq Warnings /\ (late = {} => arrived)
    BY DEF SelectionWarnings, Warnings
  <2>6. extra = {} => /\ ~ (Cardinality(chosen) < MaxResults)
                     /\ \A i \in chosen : results[i] # "relaxed"
                     /\ chosen \cap poor = {}
    BY DEF SelectionWarnings
  <2> HIDE DEF extra, late
  <2>7. stage' = "done" /\ outcome' \in Successes /\ (outcome' = "complete" => warned = {})
    BY <2>1 DEF Settle, Successes
  <2> HIDE DEF warned
  <2>8. warned \subseteq Warnings /\ (warned = {} => warnings = {} /\ extra = {} /\ arrived)
    BY <2>5 DEF warned, IInv, TypeOK
  <2>9. outcome' \notin RouteErrors /\ outcome' # "pending" /\ outcome' # "REQUEST_ABORTED"
    BY <2>7 DEF Successes, RouteErrors
  <2>10. TypeOK'
    <3>1. answered' \subseteq SceneryCalls
      BY <1>2, <2>1 DEF SceneryCalls
    <3> QED BY <1>1, <1>3, <2>1, <2>3, <2>7, <2>8, <3>1 DEF IInv, TypeOK, Outcomes
  <2>11. PoolInv' /\ StageInv'
    BY <1>3, <2>7, <2>9 DEF PoolInv, StageInv, AllIdle
  <2>12. CompleteIsComplete'
    <3>1. \A i \in chosen : results[i] \in {"primary", "relaxed"}
      BY <2>3 DEF Fitting
    <3>2. outcome' = "complete" => /\ \A i \in DOMAIN results : results[i] \notin Failures
                                  /\ Cardinality(chosen) = MaxResults /\ chosen \cap poor = {}
                                  /\ \A i \in chosen : results[i] = "primary"
      BY <1>2, <2>1, <2>4, <2>6, <2>7, <2>8, <3>1, Constants
    <3>3. outcome' = "complete" => answered' = SceneryCalls
      BY <1>2, <2>1, <2>7, <2>8 DEF SceneryCalls
    <3> QED BY <1>1, <2>1, <3>1, <3>2, <3>3 DEF CompleteIsComplete
  <2>13. FailureJustified'
    BY <2>7 DEF FailureJustified, Successes
  <2> QED BY <1>3, <2>10, <2>11, <2>12, <2>13 DEF IInv
<1> QED BY <1>5, <1>6

LEMMA AbortKeeps ==
    ASSUME IInv, Abort
    PROVE  IInv'
<1>1. /\ stops' = stops /\ guided' = guided /\ stage' = stage /\ task' = task
      /\ remaining' = remaining /\ next' = next /\ results' = results /\ warnings' = warnings
      /\ selected' = selected /\ degraded' = degraded /\ outcome' = outcome
      /\ retried' = retried /\ aborted' = TRUE /\ answered' = answered
  BY DEF Abort, request, history
<1>2. Running' = Running /\ Candidates' = Candidates /\ Legs' = Legs /\ (AllIdle' <=> AllIdle)
  BY <1>1 DEF Running, Candidates, Legs, AllIdle
<1>3. TypeOK'
  BY <1>1 DEF IInv, TypeOK
<1>4. TasksInv'
  BY <1>1 DEF IInv, TasksInv, TaskSound
<1>5. PoolInv'
  BY <1>1, <1>2 DEF IInv, PoolInv
<1>6. StageInv'
  BY <1>1, <1>2 DEF IInv, StageInv
<1>7. CompleteIsComplete' /\ FailureJustified'
  BY <1>1, <1>2 DEF IInv, CompleteIsComplete, FailureJustified
<1> QED BY <1>3, <1>4, <1>5, <1>6, <1>7 DEF IInv

LEMMA NothingKeeps ==
    ASSUME IInv, UNCHANGED vars
    PROVE  IInv'
<1>1. /\ stops' = stops /\ guided' = guided /\ stage' = stage /\ task' = task
      /\ remaining' = remaining /\ next' = next /\ results' = results /\ warnings' = warnings
      /\ selected' = selected /\ degraded' = degraded /\ outcome' = outcome
      /\ retried' = retried /\ aborted' = aborted /\ answered' = answered
  BY DEF vars, request, history
<1>2. Running' = Running /\ Candidates' = Candidates /\ Legs' = Legs /\ (AllIdle' <=> AllIdle)
  BY <1>1 DEF Running, Candidates, Legs, AllIdle
<1>3. TypeOK' /\ TasksInv'
  BY <1>1 DEF IInv, TypeOK, TasksInv, TaskSound
<1>4. PoolInv' /\ StageInv'
  BY <1>1, <1>2 DEF IInv, PoolInv, StageInv
<1>5. CompleteIsComplete' /\ FailureJustified'
  BY <1>1, <1>2 DEF IInv, CompleteIsComplete, FailureJustified
<1> QED BY <1>3, <1>4, <1>5 DEF IInv

-----------------------------------------------------------------------------
(* The theorems. *)

LEMMA StepKeeps ==
    ASSUME IInv, [Next]_vars
    PROVE  IInv'
<1>1. ASSUME NEW t \in Slots, Send(t) \/ Respond(t) PROVE IInv'
  BY <1>1, SendSteps, RespondSteps, CallKeeps
<1>2. ASSUME NEW t \in Slots, WorkerContinues(t) PROVE IInv'
  BY <1>2, WorkerKeeps
<1>3. CASE UNCHANGED vars
  BY <1>3, NothingKeeps
<1>4. CASE Progress
  BY <1>1, <1>2, <1>4, StartKeeps, StopsKeep, AnchorsKeep, RoutesKeep, RefinedKeeps, AnalyzedKeeps
     DEF Progress
<1> QED BY <1>3, <1>4, AbortKeeps DEF Next, Over

\* The inductive invariant holds throughout every plan.
THEOREM Invariant == Spec => []IInv
<1> QED BY FirstState, StepKeeps, PTL DEF Spec

\* What IInv says of the pool bounds the calls that run.
LEMMA InvariantGivesPoolSound == IInv => PoolSound
<1> SUFFICES ASSUME IInv PROVE PoolSound
  OBVIOUS
<1>1. stage = "route" => Cardinality(Running) <= MaxConcurrent
  <2> SUFFICES ASSUME stage = "route" PROVE Cardinality(Running) <= MaxConcurrent
    OBVIOUS
  <2>1. Running \subseteq 1 .. MaxConcurrent
    <3>1. ASSUME NEW t \in Running PROVE t \in 1 .. MaxConcurrent
      <4>1. t \in Slots /\ t <= MaxConcurrent
        BY DEF IInv, PoolInv, Running
      <4> QED BY <4>1, SlotsFit, Constants
    <3> QED BY <3>1
  <2>2. IsFiniteSet(1 .. MaxConcurrent) /\ Cardinality(1 .. MaxConcurrent) = MaxConcurrent
    <3>1. MaxConcurrent \in Nat /\ MaxConcurrent >= 1
      BY Constants
    <3>2. /\ IsFiniteSet(1 .. MaxConcurrent)
          /\ Cardinality(1 .. MaxConcurrent) = IF 1 > MaxConcurrent THEN 0 ELSE MaxConcurrent - 1 + 1
      BY <3>1, FS_Interval
    <3> QED BY <3>1, <3>2
  <2> QED BY <2>1, <2>2, FS_Subset
<1>2. stage = "route" =>
        /\ \A t \in Running : results[task[t].job] = "none"
        /\ \A t, u \in Running : t # u => task[t].job # task[u].job
  BY DEF IInv, PoolInv
<1>3. stage \in {"refine", "analyze"} => \A i \in Candidates : results[i] # "none"
  BY DEF IInv, StageInv
<1> QED BY <1>1, <1>2, <1>3 DEF IInv, PoolSound, Running

\* The workers share nextIndex without a lock: no two route the same candidate, no more than
\* the limit run, and the pool is left only when each candidate has its result.
THEOREM PoolIsSound == Spec => []PoolSound
<1> QED BY Invariant, InvariantGivesPoolSound, PTL

\* A result called complete is one: nothing failed or was left out on the way.
THEOREM CompleteResultIsComplete == Spec => []CompleteIsComplete
<1>1. IInv => CompleteIsComplete
  BY DEF IInv
<1> QED BY <1>1, Invariant, PTL

\* A plan fails only for the reason it gives.
THEOREM FailureIsJustified == Spec => []FailureJustified
<1>1. IInv => FailureJustified
  BY DEF IInv
<1> QED BY <1>1, Invariant, PTL

\* No GET is sent for an aborted plan, nor for one that has settled.
THEOREM AbandonedPlanIsSilent == Spec => AbandonedPlansSendNothing
<1>1. ASSUME IInv, [Next]_vars
      PROVE  [remaining' < remaining => ~ aborted /\ (outcome = "pending" \/ outcome \in PlaceErrors)]_vars
  <2> SUFFICES ASSUME remaining' < remaining
               PROVE  ~ aborted /\ (outcome = "pending" \/ outcome \in PlaceErrors)
    OBVIOUS
  <2>1. remaining \in Nat
    BY <1>1, Constants DEF IInv, TypeOK
  <2>2. remaining' # remaining
    BY <2>1
  <2>3. PICK t \in Slots : Send(t)
    BY <1>1, <2>2 DEF Next, Progress, Abort, Over, Respond, WorkerContinues, StartResolved, StopsResolved,
                AnchorsSettled, RoutesSettled, Refined, Analyzed, vars
  <2>4. ~ aborted /\ task[t].pc = "ready"
    BY <2>2, <2>3 DEF Send
  <2>5. outcome \notin RouteErrors \cup Successes /\ outcome # "REQUEST_ABORTED"
    BY <1>1, <2>4 DEF IInv, StageInv
  <2>6. outcome \in Outcomes
    BY <1>1 DEF IInv, TypeOK
  <2> QED BY <2>4, <2>5, <2>6 DEF Outcomes
<1> QED BY <1>1, Invariant, PTL DEF Spec, AbandonedPlansSendNothing

\* However late an abort is noticed, the plan ends as aborted.
THEOREM AbortIsReported == Spec => AbortedPlanReportsAbort
<1>1. ASSUME IInv, [Next]_vars
      PROVE  [outcome' # outcome /\ aborted =>
                \/ outcome' = "REQUEST_ABORTED"
                \/ stage \in {"start", "stops"} /\ outcome' \in PlaceErrors]_vars
  <2> SUFFICES ASSUME outcome' # outcome, aborted
               PROVE  \/ outcome' = "REQUEST_ABORTED"
                      \/ stage \in {"start", "stops"} /\ outcome' \in PlaceErrors
    OBVIOUS
  <2>1. \A e : PlaceError(e) \in PlaceErrors \cup {"REQUEST_ABORTED"}
    BY DEF PlaceError, PlaceErrors
  <2>2. CASE StartResolved
    BY <2>1, <2>2 DEF StartResolved, Settle, Await
  <2>3. CASE StopsResolved
    BY <2>1, <2>3 DEF StopsResolved, Settle, Await
  <2>4. CASE AnchorsSettled
    BY <2>4 DEF AnchorsSettled, Settle
  <2>5. CASE RoutesSettled
    BY <2>5 DEF RoutesSettled, Settle
  <2>6. CASE Refined
    BY <2>6 DEF Refined, Settle
  <2>7. CASE Analyzed
    BY <2>7 DEF Analyzed, Settle
  <2>8. StartResolved \/ StopsResolved \/ AnchorsSettled \/ RoutesSettled \/ Refined \/ Analyzed
    BY <1>1 DEF Next, Progress, Abort, Over, Send, Respond, WorkerContinues, vars
  <2> QED BY <2>2, <2>3, <2>4, <2>5, <2>6, <2>7, <2>8
<1> QED BY <1>1, Invariant, PTL DEF Spec, AbortedPlanReportsAbort

-----------------------------------------------------------------------------
(* The budget.  What the routes still owe are pairs of a candidate and one of its legs: the  *)
(* GETs that the workers' calls have before them, and all legs of the unclaimed candidates.  *)
(* As a set it is counted without a sum, and a step of a call takes one pair away.           *)

\* GETs a call has yet to send, if none is retried.
Need(t) == CASE task[t].pc = "ready" -> task[t].gets
             [] task[t].pc = "sent" -> task[t].gets - 1
             [] OTHER -> 0

Owed == {x \in Candidates \X (1 .. Legs) :
            x[1] >= next \/ \E t \in Running : task[t].job = x[1] /\ x[2] <= Need(t)}

\* Until a leg is retried the budget covers what is owed, by the pool and by the extra call.
BudgetInv ==
    /\ \A t \in Running : task[t].pc \in {"ready", "sent"} => task[t].gets \in 1 .. Legs
    /\ stage \notin {"route", "refine"} => Running = {}
    /\ stage = "route" /\ ~ retried /\ Candidates # {1} => Cardinality(Owed) <= remaining
    /\ stage = "refine" /\ ~ retried => Need(1) <= remaining

\* A product of two intervals is finite, and as large as it should be.
LEMMA PairsCount ==
    ASSUME NEW n \in Nat, NEW m \in Nat
    PROVE  /\ IsFiniteSet((1 .. n) \X (1 .. m))
           /\ Cardinality((1 .. n) \X (1 .. m)) = n * m
<1>1. IsFiniteSet(1 .. n) /\ Cardinality(1 .. n) = n
  <2>1. Cardinality(1 .. n) = IF 1 > n THEN 0 ELSE n - 1 + 1
    BY FS_Interval
  <2> QED BY <2>1, FS_Interval
<1>2. IsFiniteSet(1 .. m) /\ Cardinality(1 .. m) = m
  <2>1. Cardinality(1 .. m) = IF 1 > m THEN 0 ELSE m - 1 + 1
    BY FS_Interval
  <2> QED BY <2>1, FS_Interval
<1>3. /\ IsFiniteSet((1 .. n) \X (1 .. m))
      /\ Cardinality((1 .. n) \X (1 .. m)) = Cardinality(1 .. n) * Cardinality(1 .. m)
  BY <1>1, <1>2, FS_Product, Zenon
<1> QED BY <1>1, <1>2, <1>3

LEMMA OwedFinite ==
    ASSUME IInv
    PROVE  IsFiniteSet(Owed)
<1>1. PICK n \in 0 .. MostCandidates : Candidates = 1 .. n /\ n \in Nat
  BY CandidatesCount DEF IInv
<1>2. Legs \in Nat
  BY LegsFit DEF IInv
<1>3. IsFiniteSet(Candidates \X (1 .. Legs))
  BY <1>1, <1>2, PairsCount
<1>4. Owed \subseteq Candidates \X (1 .. Legs)
  BY DEF Owed
<1> QED BY <1>3, <1>4, FS_Subset

\* Two candidates or more are only tried if the budget covers all their legs.
LEMMA CandidatesAffordable ==
    ASSUME TypeOK, NEW anchored \in BOOLEAN, CandidateCount(anchored) >= 2
    PROVE  CandidateCount(anchored) * Legs <= remaining
<1>1. /\ MaxCandidates \in Int /\ MaxRouteProviderCalls \in Int
      /\ MaxResults \in 1 .. 5 /\ remaining \in Nat /\ stops \in Nat /\ Legs \in 1 .. 6
  BY Constants, LegsFit DEF TypeOK
<1> DEFINE n == CandidateCount(anchored)
           online == OnlineCandidateBudget(remaining)
           each == remaining \div Legs
           share == Max({1, each})
           b == IF anchored THEN online ELSE MaxResults + (IF stops > 0 THEN 1 ELSE 0)
           c == IF guided THEN Min({24, Max({12, MaxResults * 4})}) ELSE 1
<1>2. each \in Int /\ each * Legs <= remaining
  BY <1>1
<1>3. share \in {1, each} /\ share \in Int
  <2> HIDE DEF each
  <2>1. 1 \in Int
    OBVIOUS
  <2>2. share \in {1, each}
    BY <1>2, <2>1, MaxOfTwo, Zenon
  <2> QED BY <1>2, <2>2
<1>4. online \in Int /\ online <= share
  <2> HIDE DEF share
  <2>1. /\ online \in {MaxCandidates, MaxRouteProviderCalls, share} /\ online <= share
    BY <1>1, <1>3, MinOfThree, Zenon DEF OnlineCandidateBudget, share, each
  <2> HIDE DEF online
  <2> QED BY <1>1, <1>3, <2>1
<1>5. b \in Int /\ c \in Int
  <2>1. b \in Int
    <3> HIDE DEF online
    <3> QED BY <1>1, <1>4
  <2>2. 12 \in Int /\ MaxResults * 4 \in Int /\ 24 \in Int
    BY <1>1
  <2>3. Max({12, MaxResults * 4}) \in {12, MaxResults * 4}
    BY <2>2, MaxOfTwo, Zenon
  <2> DEFINE inner == Max({12, MaxResults * 4})
  <2>4. inner \in Int
    BY <2>2, <2>3
  <2> HIDE DEF inner
  <2>5. Min({24, inner}) \in {24, inner}
    BY <2>2, <2>4, MinOfTwo, Zenon
  <2>6. c \in {1, 24, inner}
    BY <2>5 DEF inner
  <2> HIDE DEF c
  <2>7. c \in Int
    BY <2>4, <2>6
  <2> QED BY <2>1, <2>7
<1>6. n = Min({online, b, c})
  BY DEF CandidateCount
<1> HIDE DEF online, b, c
<1>7. n \in {online, b, c} /\ n <= online
  <2>1. Min({online, b, c}) \in {online, b, c} /\ Min({online, b, c}) <= online
    BY <1>4, <1>5, MinOfThree, Zenon
  <2> QED BY <1>6, <2>1
<1>8. n \in Int /\ n >= 2
  <2>1. n >= 2
    OBVIOUS
  <2> HIDE DEF n
  <2> QED BY <1>4, <1>5, <1>7, <2>1
<1> HIDE DEF n, share, each
<1>9. n <= each
  BY <1>2, <1>3, <1>4, <1>7, <1>8
<1>10. n * Legs <= each * Legs
  BY <1>1, <1>2, <1>8, <1>9
<1>11. n * Legs <= remaining
  <2>1. n * Legs \in Int /\ each * Legs \in Int
    BY <1>1, <1>2, <1>8
  <2> QED BY <1>1, <1>2, <1>10, <2>1
<1> QED BY <1>11 DEF n

-----------------------------------------------------------------------------
\* What a step of a call does to the budget: it retries a leg, or the call needs no more than
\* before and no budget is used, or one GET less for one unit of the budget.
BudgetStep(t) ==
    /\ task[t].kind = "route" /\ task'[t].pc \in {"ready", "sent"} => task'[t].gets \in 1 .. Legs
    /\ retried => retried'
    /\ \/ retried'
       \/ Need(t)' <= Need(t) /\ remaining' = remaining
       \/ Need(t) >= 1 /\ Need(t)' = Need(t) - 1 /\ remaining' = remaining - 1

LEMMA SendSpends ==
    ASSUME IInv, BudgetInv, NEW t \in Slots, task[t].kind = "route", Send(t)
    PROVE  BudgetStep(t)
<1>1. /\ task \in [Slots -> Task] /\ task[t] \in Task /\ task[t].pc = "ready" /\ retried' = retried
      /\ t \in Running /\ Legs \in 1 .. 6
  BY LegsFit DEF IInv, TypeOK, Send, Running, history
<1>2. task[t].gets \in 1 .. Legs /\ Need(t) = task[t].gets
  BY <1>1 DEF BudgetInv, Need
<1>3. ASSUME NEW e \in {"ABORTED", "QUOTA_EXCEEDED"}, End(t, e), remaining' = remaining
      PROVE  BudgetStep(t)
  <2>1. e \in Ends(task[t].kind)
    BY EndsDiffer DEF Ends
  <2>2. task'[t].pc = "ended"
    BY <1>1, <1>3, <2>1, EndDoes
  <2>3. Need(t)' = 0
    BY <2>2 DEF Need
  <2> QED BY <1>1, <1>2, <1>3, <2>2, <2>3 DEF BudgetStep
<1>4. ASSUME remaining' = remaining - 1, task' = [task EXCEPT ![t].pc = "sent"]
      PROVE  BudgetStep(t)
  <2> DEFINE x == [task[t] EXCEPT !.pc = "sent"]
  <2>1. x.pc = "sent" /\ x.gets = task[t].gets /\ task' = [task EXCEPT ![t] = x]
    BY <1>1, <1>4 DEF Task
  <2> HIDE DEF x
  <2>2. task'[t] = x
    BY <1>1, <2>1
  <2>3. Need(t)' = task[t].gets - 1
    BY <2>1, <2>2 DEF Need
  <2> QED BY <1>1, <1>2, <1>4, <2>1, <2>2, <2>3 DEF BudgetStep
<1> QED BY <1>3, <1>4 DEF Send

LEMMA RespondSpendsNothing ==
    ASSUME IInv, BudgetInv, NEW t \in Slots, task[t].kind = "route", Respond(t)
    PROVE  BudgetStep(t)
<1>1. /\ task \in [Slots -> Task] /\ task[t] \in Task /\ task[t].pc = "sent" /\ remaining' = remaining
      /\ t \in Running /\ Legs \in 1 .. 6 /\ retried \in BOOLEAN
  BY LegsFit DEF IInv, TypeOK, Respond, Running
<1>2. task[t].gets \in 1 .. Legs /\ Need(t) = task[t].gets - 1
  BY <1>1 DEF BudgetInv, Need
<1>3. ASSUME NEW e, e \in Ends(task[t].kind), End(t, e), retried' = retried
      PROVE  BudgetStep(t)
  <2>1. task'[t].pc = "ended"
    BY <1>1, <1>3, EndDoes
  <2>2. Need(t)' = 0
    BY <2>1 DEF Need
  <2> QED BY <1>1, <1>2, <1>3, <2>1, <2>2 DEF BudgetStep
<1>4. ASSUME Payload(t) PROVE BudgetStep(t)
  <2>1. CASE task[t].gets > 1
    <3> DEFINE x == [task[t] EXCEPT !.pc = "ready", !.gets = task[t].gets - 1, !.attempt = 1]
    <3>1. /\ x.pc = "ready" /\ x.gets = task[t].gets - 1 /\ task' = [task EXCEPT ![t] = x]
          /\ retried' = retried
      BY <1>1, <1>4, <2>1 DEF Payload, NextGet, Task
    <3> HIDE DEF x
    <3>2. task'[t] = x
      BY <1>1, <3>1
    <3>3. Need(t)' = task[t].gets - 1
      BY <3>1, <3>2 DEF Need
    <3> QED BY <1>1, <1>2, <2>1, <3>1, <3>2, <3>3 DEF BudgetStep
  <2>2. CASE ~ (task[t].gets > 1)
    <3>1. PICK q \in Qualities : End(t, q) /\ retried' = retried
      BY <1>4, <2>2 DEF Payload
    <3>2. q \in Ends(task[t].kind)
      BY DEF Ends
    <3> QED BY <1>3, <3>1, <3>2
  <2> QED BY <2>1, <2>2
<1>5. ASSUME AttemptFails(t) PROVE BudgetStep(t)
  <2>1. CASE \E e \in Fatal(task[t].kind) \cup Retryable : End(t, e) /\ retried' = retried
    <3>1. PICK e \in Fatal(task[t].kind) \cup Retryable : End(t, e) /\ retried' = retried
      BY <2>1
    <3>2. e \in Ends(task[t].kind)
      BY EndsDiffer DEF Ends, Fatal, Retryable
    <3> QED BY <1>3, <3>1, <3>2
  <2>2. CASE /\ task' = [task EXCEPT ![t].pc = "ready", ![t].attempt = @ + 1]
             /\ retried' = (retried \/ task[t].kind = "route")
    <3> DEFINE x == [task[t] EXCEPT !.pc = "ready", !.attempt = task[t].attempt + 1]
    <3>1. x.pc = "ready" /\ x.gets = task[t].gets /\ task' = [task EXCEPT ![t] = x]
      BY <1>1, <2>2 DEF Task
    <3> HIDE DEF x
    <3>2. task'[t] = x
      BY <1>1, <3>1
    <3>3. retried' = TRUE
      BY <2>2
    <3> QED BY <1>2, <3>1, <3>2, <3>3 DEF BudgetStep
  <2> QED BY <1>5, <2>1, <2>2 DEF AttemptFails
<1>6. ASSUME End(t, "ABORTED"), retried' = retried PROVE BudgetStep(t)
  <2>1. "ABORTED" \in Ends(task[t].kind)
    BY EndsDiffer DEF Ends
  <2> QED BY <1>3, <1>6, <2>1
<1> QED BY <1>4, <1>5, <1>6 DEF Respond

\* A step of a call keeps the budget above what is owed.
LEMMA CallKeepsBudget ==
    ASSUME IInv, BudgetInv, NEW t \in Slots, CallStep(t), task[t].kind = "route" => BudgetStep(t)
    PROVE  BudgetInv'
<1>1. /\ stops' = stops /\ guided' = guided /\ stage' = stage /\ next' = next
      /\ results' = results
  BY DEF CallStep, request
<1>2. /\ \A u \in Slots : u # t => task'[u] = task[u]
      /\ task'[t].kind = task[t].kind /\ task'[t].job = task[t].job
      /\ task[t].pc \in {"ready", "sent"} /\ remaining \in Nat
  BY Constants DEF CallStep, IInv, TypeOK
<1>3. Running' = Running /\ Candidates' = Candidates /\ Legs' = Legs
      /\ \A u \in Slots : task'[u].job = task[u].job
  BY <1>1, <1>2 DEF Running, Candidates, Legs
<1>4. \A u \in Slots : u # t => Need(u)' = Need(u)
  BY <1>2 DEF Need
<1>5. \A u \in Running : task'[u].pc \in {"ready", "sent"} => task'[u].gets \in 1 .. Legs
  BY <1>2 DEF BudgetInv, BudgetStep, Running
<1>6. CASE stage \notin {"route", "refine"}
  BY <1>1, <1>3, <1>5, <1>6 DEF BudgetInv
<1>7. CASE stage \in {"route", "refine"}
  <2>1. /\ task[t].kind = "route" /\ t \in Running
    BY <1>2, <1>7 DEF IInv, TasksInv, TaskSound, StageInv, Running, TypeOK, Task
  <2>2. BudgetStep(t)
    BY <2>1
  <2>3. Need(t)' \in Int
    <3>1. task'[t].pc \in {"ready", "sent", "ended"}
      BY DEF CallStep
    <3>2. (task'[t].pc \in {"ready", "sent"} => task'[t].gets \in 1 .. Legs) /\ Legs \in 1 .. 6
      BY <1>5, <2>1, LegsFit DEF IInv
    <3> QED BY <3>1, <3>2 DEF Need
  <2>4. CASE retried'
    BY <1>1, <1>3, <1>5, <1>7, <2>4 DEF BudgetInv
  <2>5. CASE ~ retried' /\ stage = "refine"
    <3>1. t = 1 /\ Need(1) <= remaining /\ Need(1) \in Int
      <4>1. t = 1
        BY <1>2, <2>1, <2>5 DEF IInv, StageInv
      <4>2. task[t].gets \in Nat
        BY <1>2, <2>1, LegsFit DEF BudgetInv, IInv
      <4> QED BY <1>2, <2>2, <2>5, <4>1, <4>2 DEF BudgetInv, BudgetStep, Need
    <3>2. Need(t)' <= remaining'
      <4>1. Need(t) <= remaining /\ Need(t) \in Int
        BY <3>1
      <4>2. \/ Need(t)' <= Need(t) /\ remaining' = remaining
            \/ Need(t)' = Need(t) - 1 /\ remaining' = remaining - 1
        BY <2>2, <2>5 DEF BudgetStep
      <4> QED BY <1>2, <2>3, <4>1, <4>2
    <3>3. Need(1)' <= remaining'
      BY <3>1, <3>2 DEF Need
    <3> QED BY <1>1, <1>3, <1>5, <2>5, <3>3 DEF BudgetInv
  <2>6. CASE ~ retried' /\ stage = "route" /\ Candidates # {1}
    <3>1. Cardinality(Owed) <= remaining /\ IsFiniteSet(Owed) /\ Cardinality(Owed) \in Nat
      <4>1. ~ retried
        BY <2>2, <2>6 DEF BudgetStep
      <4> QED BY <2>6, <4>1, OwedFinite, FS_CardinalityType DEF BudgetInv
    <3>2. task[t].gets \in 1 .. Legs /\ Legs \in 1 .. 6
      BY <1>2, <2>1, LegsFit DEF BudgetInv, IInv
    <3>3. /\ task[t].job \in Candidates /\ task[t].job < next
          /\ \A u \in Running : u # t => task[u].job # task[t].job
          /\ Candidates \subseteq Int /\ next \in Int
      <4>1. PICK n \in 0 .. MostCandidates : Candidates = 1 .. n /\ n \in Nat
        BY CandidatesCount DEF IInv
      <4> QED BY <2>1, <2>6, <4>1, MostCandidatesFit DEF IInv, PoolInv, TypeOK
    <3>4. Owed' = {x \in Candidates \X (1 .. Legs) :
                      x[1] >= next \/ \E u \in Running : task[u].job = x[1] /\ x[2] <= Need(u)'}
      <4>1. Owed' = {x \in Candidates' \X (1 .. Legs') :
                      x[1] >= next' \/ \E u \in Running' : task'[u].job = x[1] /\ x[2] <= Need(u)'}
        BY DEF Owed
      <4>2. \A x : (\E u \in Running : task'[u].job = x[1] /\ x[2] <= Need(u)')
                   <=> (\E u \in Running : task[u].job = x[1] /\ x[2] <= Need(u)')
        BY <1>3 DEF Running
      <4> QED BY <1>1, <1>3, <4>1, <4>2
    <3>5. Need(t) \in Int /\ Need(t)' <= Need(t) /\ Need(t)' \in Int
      <4>1. Need(t) \in Int
        BY <1>2, <3>2 DEF Need
      <4> QED BY <2>2, <2>6, <2>3, <4>1 DEF BudgetStep
    <3>6. Owed' \subseteq Owed
      <4>1. ASSUME NEW x \in Candidates \X (1 .. Legs), NEW u \in Running,
                   task[u].job = x[1], x[2] <= Need(u)'
            PROVE  x[2] <= Need(u)
        <5>1. CASE u = t
          <6>1. x[2] \in Int
            BY <3>2
          <6> QED BY <3>5, <4>1, <5>1, <6>1
        <5>2. CASE u # t
          BY <1>4, <4>1, <5>2 DEF Running
        <5> QED BY <5>1, <5>2
      <4> QED BY <3>4, <4>1 DEF Owed
    <3>7. CASE remaining' = remaining
      <4>1. Cardinality(Owed') <= Cardinality(Owed) /\ IsFiniteSet(Owed')
        BY <3>1, <3>6, FS_Subset
      <4>2. Cardinality(Owed') \in Nat
        BY <4>1, FS_CardinalityType
      <4>3. Cardinality(Owed') <= remaining'
        BY <1>2, <3>1, <3>7, <4>1, <4>2
      <4>4. Cardinality(Owed)' <= remaining'
        BY <4>3
      <4> QED BY <1>1, <1>3, <1>5, <2>6, <4>4 DEF BudgetInv
    <3>8. CASE ~ (remaining' = remaining)
      <4>1. Need(t) >= 1 /\ Need(t)' = Need(t) - 1 /\ remaining' = remaining - 1
        BY <2>2, <2>6, <3>8 DEF BudgetStep
      <4> DEFINE leg == <<task[t].job, Need(t)>>
      <4>2. leg \in Owed
        <5>1. Need(t) <= task[t].gets
          BY <1>2, <3>2 DEF Need
        <5>2. leg \in Candidates \X (1 .. Legs)
          BY <3>2, <3>3, <3>5, <4>1, <5>1
        <5>3. \E u \in Running : task[u].job = leg[1] /\ leg[2] <= Need(u)
          BY <2>1, <3>5
        <5> HIDE DEF leg
        <5> QED BY <5>2, <5>3 DEF Owed
      <4>3. leg \notin Owed'
        <5>1. leg[1] = task[t].job /\ leg[2] = Need(t) /\ ~ (leg[1] >= next)
          <6>1. leg[1] = task[t].job /\ leg[2] = Need(t)
            OBVIOUS
          <6>2. task[t].job \in Int /\ next \in Int /\ task[t].job < next
            BY <3>3
          <6> HIDE DEF leg
          <6> QED BY <6>1, <6>2
        <5>2. ASSUME NEW u \in Running, task[u].job = leg[1], leg[2] <= Need(u)' PROVE FALSE
          <6>1. u = t
            BY <3>3, <5>1, <5>2
          <6>2. Need(t) <= Need(t)'
            BY <5>1, <5>2, <6>1
          <6> QED BY <3>5, <4>1, <6>2
        <5> HIDE DEF leg
        <5> QED BY <3>4, <5>1, <5>2
      <4> HIDE DEF leg
      <4>4. Owed' \subseteq Owed \ {leg}
        BY <3>6, <4>3
      <4>5. IsFiniteSet(Owed \ {leg}) /\ Cardinality(Owed \ {leg}) = Cardinality(Owed) - 1
        BY <3>1, <4>2, FS_RemoveElement
      <4>6. Cardinality(Owed') <= Cardinality(Owed \ {leg}) /\ IsFiniteSet(Owed')
        BY <4>4, <4>5, FS_Subset
      <4>7. Cardinality(Owed') \in Nat
        BY <4>6, FS_CardinalityType
      <4>8. Cardinality(Owed') <= remaining'
        BY <1>2, <3>1, <4>1, <4>5, <4>6, <4>7
      <4>9. Cardinality(Owed)' <= remaining'
        BY <4>8
      <4> QED BY <1>1, <1>3, <1>5, <2>6, <4>9 DEF BudgetInv
    <3> QED BY <3>7, <3>8
  <2>7. CASE stage = "route" /\ Candidates = {1}
    BY <1>1, <1>3, <1>5, <2>7 DEF BudgetInv
  <2> QED BY <1>7, <2>4, <2>5, <2>6, <2>7
<1> QED BY <1>6, <1>7

-----------------------------------------------------------------------------
\* In a stage without the pool or the extra call the invariant says only that no route runs.
LEMMA NoRoutes ==
    ASSUME stage' \notin {"route", "refine"}, Running' = {}
    PROVE  BudgetInv'
  BY DEF BudgetInv

LEMMA FirstBudget == Init => BudgetInv
<1> SUFFICES ASSUME Init PROVE BudgetInv
  OBVIOUS
<1>1. Running = {} /\ stage = "start"
  BY FirstState DEF IInv, StageInv, Init
<1> QED BY <1>1 DEF BudgetInv

\* The places are looked up, or the plan ends with its last result, and no route runs.
LEMMA PlacesKeepBudget ==
    ASSUME IInv, IInv', StartResolved \/ StopsResolved \/ Analyzed
    PROVE  BudgetInv'
<1>1. Running = {}
  <2>1. stage \in {"start", "stops", "analyze"}
    BY DEF StartResolved, StopsResolved, Analyzed
  <2>2. CASE stage = "analyze"
    BY <2>2 DEF IInv, StageInv, AllIdle, TasksInv, TaskSound, Running
  <2> QED BY <2>1, <2>2 DEF IInv, StageInv
<1>2. \/ stage' \in {"stops", "anchors"}
      \/ stage' = "done" /\ task' = task
      \/ stage' = "done" /\ task' = [t \in Slots |-> Idle]
  BY DEF StartResolved, StopsResolved, Analyzed, Settle, Await
<1>3. Running' = {}
  <2>1. CASE stage' \in {"stops", "anchors"}
    BY <2>1 DEF IInv, StageInv
  <2>2. CASE task' = task
    BY <1>1, <2>2 DEF Running
  <2>3. CASE task' = [t \in Slots |-> Idle]
    BY <2>3, AllIdleAgain
  <2> QED BY <1>2, <2>1, <2>2, <2>3
<1> QED BY <1>2, <1>3, NoRoutes

\* The pool begins with what the budget covers, or with one candidate.
LEMMA AnchorsKeepBudget ==
    ASSUME IInv, IInv', AnchorsSettled
    PROVE  BudgetInv'
<1>1. /\ stage = "anchors" /\ AllIdle /\ remaining' = remaining /\ stops' = stops /\ guided' = guided
      /\ retried' = retried
  BY DEF AnchorsSettled, IInv, StageInv, request
<1>2. CASE aborted
  <2>1. stage' = "done" /\ task' = task
    BY <1>2 DEF AnchorsSettled, Settle
  <2>2. Running' = {}
    BY <1>1, <2>1 DEF IInv, StageInv, Running
  <2> QED BY <2>1, <2>2, NoRoutes
<1>3. CASE ~ aborted
  <2>1. PICK anchored \in BOOLEAN :
           LET n == CandidateCount(anchored)
               w == Min({MaxConcurrent, n})
           IN  /\ Await("route")
               /\ task' = [t \in Slots |-> IF t <= w THEN Begin("route", t, Legs) ELSE Idle]
               /\ results' = [i \in 0 .. n |-> "none"]
    BY <1>3 DEF AnchorsSettled
  <2> DEFINE n == CandidateCount(anchored)
             w == Min({MaxConcurrent, n})
  <2>2. /\ stage' = "route" /\ results' = [i \in 0 .. n |-> "none"]
        /\ task' = [t \in Slots |-> IF t <= w THEN Begin("route", t, Legs) ELSE Idle]
    BY <2>1 DEF Await
  <2>3. n \in 1 .. MostCandidates /\ (n >= 2 => n * Legs <= remaining)
    BY CandidatesFit, CandidatesAffordable DEF IInv
  <2> HIDE DEF n, w
  <2>4. n \in Nat /\ Candidates' = 1 .. n /\ Legs' = Legs /\ Legs \in 1 .. 6
    BY <1>1, <2>2, <2>3, LegsFit, MostCandidatesFit DEF Candidates, Legs, IInv
  <2>5. ASSUME NEW t \in Running'
        PROVE  task'[t].gets \in 1 .. Legs'
    <3>1. t \in Slots /\ task'[t].kind = "route"
      BY DEF Running
    <3>2. task'[t] = IF t <= w THEN Begin("route", t, Legs) ELSE Idle
      BY <2>2, <3>1
    <3>3. task'[t] = Begin("route", t, Legs)
      BY <3>1, <3>2, IdleTask
    <3> QED BY <2>4, <3>3 DEF Begin
  <2>6. Candidates' # {1} => Cardinality(Owed') <= remaining
    <3> SUFFICES ASSUME Candidates' # {1} PROVE Cardinality(Owed') <= remaining
      OBVIOUS
    <3>1. n >= 2
      BY <2>3, <2>4, MostCandidatesFit
    <3>2. Owed' \subseteq Candidates' \X (1 .. Legs')
      BY DEF Owed
    <3>3. Owed' \subseteq (1 .. n) \X (1 .. Legs)
      BY <2>4, <3>2
    <3>4. Legs \in Nat
      BY <2>4
    <3>5. /\ IsFiniteSet((1 .. n) \X (1 .. Legs))
          /\ Cardinality((1 .. n) \X (1 .. Legs)) = n * Legs
      BY <2>4, <3>4, PairsCount
    <3>6. IsFiniteSet(Owed') /\ Cardinality(Owed') <= n * Legs
      BY <3>3, <3>5, FS_Subset
    <3> DEFINE owed == Cardinality(Owed')
               all == n * Legs
    <3>7. owed \in Nat /\ all \in Int /\ remaining \in Int /\ owed <= all /\ all <= remaining
      <4>1. owed \in Nat
        BY <3>6, FS_CardinalityType
      <4>2. remaining \in Int
        BY Constants DEF IInv, TypeOK
      <4> QED BY <2>3, <2>4, <3>1, <3>4, <3>6, <4>1, <4>2
    <3>8. owed <= remaining
      <4> HIDE DEF owed, all
      <4> QED BY <3>7
    <3> QED BY <3>8
  <2>7. Cardinality(Owed)' = Cardinality(Owed')
    OBVIOUS
  <2> QED BY <1>1, <2>2, <2>5, <2>6, <2>7 DEF BudgetInv
<1> QED BY <1>2, <1>3

\* A worker that claims a candidate owes what the unclaimed candidate owed.
LEMMA WorkerKeepsBudget ==
    ASSUME IInv, BudgetInv, NEW t \in Slots, WorkerContinues(t)
    PROVE  BudgetInv'
<1>1. /\ stage = "route" /\ stage' = stage /\ remaining' = remaining /\ retried' = retried
      /\ stops' = stops /\ guided' = guided /\ results' = [results EXCEPT ![task[t].job] = task[t].end]
      /\ task[t].kind = "route" /\ task[t].pc = "ended" /\ task \in [Slots -> Task]
      /\ next \in Int /\ remaining \in Int
  BY Constants, MostCandidatesFit DEF WorkerContinues, request, history, IInv, TypeOK
<1>2. Candidates' = Candidates /\ Legs' = Legs /\ Legs \in 1 .. 6 /\ Candidates \subseteq Int
  <2>1. PICK n \in 0 .. MostCandidates : Candidates = 1 .. n /\ n \in Nat
    BY CandidatesCount DEF IInv
  <2> QED BY <1>1, <2>1, LegsFit DEF Candidates, Legs, IInv
<1> DEFINE fresh == Begin("route", next, Legs)
<1>3. /\ \A u \in Slots : u # t => task'[u] = task[u]
      /\ \/ next \in Candidates /\ next' = next + 1 /\ task'[t] = fresh
         \/ next' = next /\ task'[t] = Idle
  BY <1>1 DEF WorkerContinues
<1>4. fresh.job = next /\ fresh.gets = Legs
  BY DEF Begin
<1>5. Idle.kind = "none"
  BY DEF Idle
<1> HIDE DEF fresh
<1>6. \A u \in Running' : task'[u].pc \in {"ready", "sent"} => task'[u].gets \in 1 .. Legs'
  <2>1. ASSUME NEW u \in Running', task'[u].pc \in {"ready", "sent"}
        PROVE  task'[u].gets \in 1 .. Legs
    <3>1. u \in Slots /\ task'[u].kind = "route"
      BY DEF Running
    <3>2. CASE u = t
      BY <1>2, <1>3, <1>4, <1>5, <3>1, <3>2
    <3>3. CASE u # t
      BY <1>3, <2>1, <3>1, <3>3 DEF Running, BudgetInv
    <3> QED BY <3>2, <3>3
  <2> QED BY <1>2, <2>1
<1>7. Owed' \subseteq Owed
  <2>1. ASSUME NEW x \in Candidates \X (1 .. Legs),
               x[1] >= next' \/ \E u \in Running' : task'[u].job = x[1] /\ x[2] <= Need(u)'
        PROVE  x[1] >= next \/ \E u \in Running : task[u].job = x[1] /\ x[2] <= Need(u)
    <3>1. x[1] \in Int
      BY <1>2
    <3>2. CASE x[1] >= next'
      BY <1>1, <1>3, <3>1, <3>2
    <3>3. CASE \E u \in Running' : task'[u].job = x[1] /\ x[2] <= Need(u)'
      <4>1. PICK u \in Running' : task'[u].job = x[1] /\ x[2] <= Need(u)'
        BY <3>3
      <4>2. u \in Slots /\ task'[u].kind = "route"
        BY DEF Running
      <4>3. CASE u = t
        BY <1>1, <1>3, <1>4, <1>5, <3>1, <4>1, <4>2, <4>3
      <4>4. CASE u # t
        <5>1. task'[u] = task[u]
          BY <1>3, <4>2, <4>4
        <5>2. u \in Running /\ Need(u)' = Need(u)
          BY <4>2, <5>1 DEF Running, Need
        <5> QED BY <4>1, <5>1, <5>2
      <4> QED BY <4>3, <4>4
    <3> QED BY <2>1, <3>2, <3>3
  <2>2. Owed' = {x \in Candidates' \X (1 .. Legs') :
                    x[1] >= next' \/ \E u \in Running' : task'[u].job = x[1] /\ x[2] <= Need(u)'}
    BY DEF Owed
  <2> QED BY <1>2, <2>1, <2>2 DEF Owed
<1>8. Candidates # {1} /\ ~ retried => Cardinality(Owed') <= remaining
  <2> SUFFICES ASSUME Candidates # {1}, ~ retried PROVE Cardinality(Owed') <= remaining
    OBVIOUS
  <2>1. IsFiniteSet(Owed) /\ Cardinality(Owed) <= remaining
    BY <1>1, OwedFinite DEF BudgetInv
  <2>2. IsFiniteSet(Owed') /\ Cardinality(Owed') <= Cardinality(Owed)
    BY <1>7, <2>1, FS_Subset
  <2>3. Cardinality(Owed) \in Nat /\ Cardinality(Owed') \in Nat
    BY <2>1, <2>2, FS_CardinalityType
  <2> QED BY <1>1, <2>1, <2>2, <2>3
<1>9. Cardinality(Owed)' = Cardinality(Owed')
  OBVIOUS
<1> QED BY <1>1, <1>2, <1>6, <1>8, <1>9 DEF BudgetInv

\* The extra call is begun only if the budget covers its legs.
LEMMA RoutesKeepBudget ==
    ASSUME IInv, RoutesSettled
    PROVE  BudgetInv'
<1>1. /\ stage = "route" /\ AllIdle /\ Running = {} /\ remaining' = remaining
      /\ stops' = stops /\ guided' = guided /\ task \in [Slots -> Task] /\ 1 \in Slots
  BY PoolOver, SlotsFit DEF RoutesSettled, AllIdle, request, IInv, TypeOK
<1>2. \/ stage' \in {"done", "analyze"} /\ task' = task
      \/ stage' = "refine" /\ Refinable /\ task' = [task EXCEPT ![1] = Begin("route", 0, Legs)]
  BY DEF RoutesSettled, Constrain, Settle, Await
<1>3. CASE stage' \in {"done", "analyze"} /\ task' = task
  <2>1. Running' = {}
    BY <1>1, <1>3 DEF Running
  <2> QED BY <1>3, <2>1, NoRoutes
<1>4. CASE stage' = "refine" /\ Refinable /\ task' = [task EXCEPT ![1] = Begin("route", 0, Legs)]
  <2>1. Legs' = Legs /\ Legs \in 1 .. 6 /\ Legs <= remaining
    BY <1>1, <1>4, LegsFit, Constants DEF Legs, Refinable, IInv, TypeOK
  <2>2. task'[1] = Begin("route", 0, Legs) /\ \A u \in Slots : u # 1 => task'[u] = task[u]
    BY <1>1, <1>4
  <2>3. task'[1].gets = Legs /\ task'[1].pc = "ready"
    BY <2>1, <2>2 DEF Begin
  <2>4. Need(1)' = Legs
    BY <2>3 DEF Need
  <2>5. \A u \in Running' : task'[u].pc \in {"ready", "sent"} => task'[u].gets \in 1 .. Legs'
    <3>1. \A u \in Running' : u = 1
      BY <1>1, <2>2 DEF Running
    <3> QED BY <2>1, <2>3, <3>1
  <2> QED BY <1>1, <1>4, <2>1, <2>4, <2>5 DEF BudgetInv
<1> QED BY <1>2, <1>3, <1>4

LEMMA RefinedKeepsBudget ==
    ASSUME IInv, Refined
    PROVE  BudgetInv'
<1>1. /\ stage = "refine" /\ task' = [task EXCEPT ![1] = Idle] /\ task \in [Slots -> Task]
      /\ \A u \in Slots : u # 1 => task[u].pc = "idle"
  BY DEF Refined, IInv, TypeOK, StageInv
<1>2. stage' \in {"done", "analyze"}
  BY DEF Refined, Constrain, Settle, Await
<1>3. ASSUME NEW u \in Slots PROVE task'[u].kind # "route"
  BY <1>1, IdleTask DEF IInv, TasksInv, TaskSound
<1>4. Running' = {}
  BY <1>3 DEF Running
<1> QED BY <1>2, <1>4, NoRoutes

LEMMA OthersKeepBudget ==
    ASSUME BudgetInv, Abort \/ UNCHANGED vars
    PROVE  BudgetInv'
<1>1. /\ stops' = stops /\ guided' = guided /\ stage' = stage /\ task' = task
      /\ remaining' = remaining /\ next' = next /\ results' = results /\ retried' = retried
  BY DEF Abort, vars, request, history
<1>2. /\ Running' = Running /\ Candidates' = Candidates /\ Legs' = Legs /\ Need(1)' = Need(1)
      /\ \A u \in Slots : Need(u)' = Need(u)
  BY <1>1 DEF Running, Candidates, Legs, Need
<1>3. Owed' = Owed
  BY <1>1, <1>2 DEF Owed, Running
<1> QED BY <1>1, <1>2, <1>3 DEF BudgetInv

LEMMA StepKeepsBudget ==
    ASSUME IInv, BudgetInv, [Next]_vars
    PROVE  BudgetInv'
<1>1. IInv'
  BY StepKeeps
<1>2. ASSUME NEW t \in Slots, Send(t) \/ Respond(t) PROVE BudgetInv'
  BY <1>2, SendSteps, RespondSteps, SendSpends, RespondSpendsNothing, CallKeepsBudget
<1>3. ASSUME NEW t \in Slots, WorkerContinues(t) PROVE BudgetInv'
  BY <1>3, WorkerKeepsBudget
<1>4. CASE Progress
  BY <1>1, <1>2, <1>3, <1>4, PlacesKeepBudget, AnchorsKeepBudget, RoutesKeepBudget,
     RefinedKeepsBudget DEF Progress
<1> QED BY <1>4, OthersKeepBudget DEF Next, Over

\* The number of candidates fits the budget: unless a leg was retried, or the budget did not
\* cover even one candidate, no leg is refused for want of budget.
THEOREM LegsAreAffordable == Spec => RefusedOnlyAfterRetry
<1>1. Spec => [](IInv /\ BudgetInv)
  BY FirstState, FirstBudget, StepKeeps, StepKeepsBudget, PTL DEF Spec
<1>2. ASSUME IInv, BudgetInv, [Next]_vars
      PROVE  [\A t \in Slots :
                 /\ task[t].kind = "route" /\ task[t].pc = "ready"
                 /\ task'[t].end = "QUOTA_EXCEEDED"
                 => retried \/ (stage = "route" /\ Candidates = {1})]_vars
  <2> SUFFICES ASSUME NEW t \in Slots, task[t].kind = "route", task[t].pc = "ready",
                      task'[t].end = "QUOTA_EXCEEDED", ~ retried
               PROVE  stage = "route" /\ Candidates = {1}
    BY Zenon
  <2>1. t \in Running /\ task[t].end = "none" /\ task \in [Slots -> Task] /\ stage \in {"route", "refine"}
    BY <1>2 DEF Running, IInv, TypeOK, TasksInv, TaskSound, BudgetInv
  <2>2. Send(t)
    <3>1. task'[t] # task[t]
      BY <2>1
    <3>2. ASSUME NEW u \in Slots, Send(u) PROVE u = t
      <4>1. \A v \in Slots : v # u => task'[v] = task[v]
        BY <1>2, <3>2, SendSteps DEF CallStep
      <4> QED BY <3>1, <4>1
    <3>3. ASSUME NEW u \in Slots, Respond(u) PROVE FALSE
      <4>1. task[u].pc = "sent" /\ \A v \in Slots : v # u => task'[v] = task[v]
        BY <1>2, <3>3, RespondSteps DEF CallStep, Respond
      <4> QED BY <3>1, <4>1
    <3>4. ASSUME NEW u \in Slots, WorkerContinues(u) PROVE FALSE
      <4>1. task[u].pc = "ended" /\ \A v \in Slots : v # u => task'[v] = task[v]
        BY <2>1, <3>4 DEF WorkerContinues
      <4> QED BY <3>1, <4>1
    <3>5. ~ (StartResolved \/ StopsResolved \/ AnchorsSettled \/ RoutesSettled \/ Analyzed)
      BY <2>1 DEF StartResolved, StopsResolved, AnchorsSettled, RoutesSettled, Analyzed
    <3>6. ~ Refined
      <4>1. stage = "refine" => t = 1
        BY <1>2 DEF IInv, StageInv
      <4> QED BY <4>1 DEF Refined
    <3>7. ~ (Abort \/ UNCHANGED vars)
      BY <3>1 DEF Abort, vars
    <3> QED BY <1>2, <3>2, <3>3, <3>4, <3>5, <3>6, <3>7 DEF Next, Progress, Over
  <2>3. remaining = 0
    <3>1. ASSUME NEW e, e \in Ends(task[t].kind), End(t, e) PROVE e = "QUOTA_EXCEEDED"
      BY <2>1, <3>1, EndDoes
    <3>2. ~ End(t, "ABORTED")
      <4>1. "ABORTED" \in Ends(task[t].kind)
        BY EndsDiffer DEF Ends
      <4> QED BY <3>1, <4>1
    <3>3. task' # [task EXCEPT ![t].pc = "sent"]
      <4>1. [task EXCEPT ![t].pc = "sent"][t].end = task[t].end
        BY <2>1 DEF Task
      <4> QED BY <2>1, <4>1
    <3> QED BY <2>2, <3>2, <3>3 DEF Send
  <2>4. task[t].gets \in 1 .. Legs /\ Legs \in 1 .. 6 /\ Need(t) = task[t].gets
    BY <1>2, <2>1, LegsFit DEF BudgetInv, IInv, Need
  <2>5. CASE stage = "refine"
    <3>1. t = 1 /\ Need(1) <= remaining
      BY <1>2, <2>5 DEF BudgetInv, IInv, StageInv
    <3> QED BY <2>3, <2>4, <3>1
  <2>6. CASE stage = "route" /\ Candidates # {1}
    <3>1. Cardinality(Owed) <= 0 /\ IsFiniteSet(Owed)
      BY <1>2, <2>3, <2>6, OwedFinite DEF BudgetInv
    <3>2. Owed = {}
      <4>1. Cardinality(Owed) \in Nat
        BY <3>1, FS_CardinalityType
      <4>2. Cardinality(Owed) = 0
        BY <3>1, <4>1
      <4> QED BY <3>1, <4>2, FS_EmptySet
    <3>3. <<task[t].job, task[t].gets>> \in Owed
      <4> DEFINE leg == <<task[t].job, task[t].gets>>
      <4>1. leg[1] = task[t].job /\ leg[2] = task[t].gets
        OBVIOUS
      <4>2. leg \in Candidates \X (1 .. Legs)
        BY <1>2, <2>1, <2>4, <2>6 DEF IInv, PoolInv
      <4>3. leg[2] <= Need(t)
        BY <2>4, <4>1
      <4> HIDE DEF leg
      <4>4. leg \in Owed
        BY <2>1, <4>1, <4>2, <4>3 DEF Owed
      <4> QED BY <4>4 DEF leg
    <3> QED BY <3>2, <3>3
  <2> QED BY <2>1, <2>5, <2>6
<1> QED BY <1>1, <1>2, PTL DEF Spec, RefusedOnlyAfterRetry

-----------------------------------------------------------------------------
(* The algorithms. *)

\* Natural numbers are well-founded: the form in which inductions below use it.
LEMMA LeastNatural ==
    ASSUME NEW B, B \subseteq Nat, B # {}
    PROVE  \E n \in B : \A m \in B : n <= m
<1> DEFINE Below == {p \in Nat \X Nat : p[1] < p[2]}
<1>1. Below = OpToRel(<, Nat)
  BY DEF OpToRel
<1>2. IsWellFoundedOn(Below, Nat)
  BY <1>1, NatLessThanWellFounded
<1>3. \A m, n \in Nat : m < n => <<m, n>> \in Below
  OBVIOUS
<1> HIDE DEF Below
<1>4. PICK n \in B : \A m \in B : ~ (<<m, n>> \in Below)
  BY <1>2, WFMin
<1>5. ASSUME NEW m \in B PROVE n <= m
  <2>1. m \in Nat /\ n \in Nat
    OBVIOUS
  <2>2. ~ (<<m, n>> \in Below)
    BY <1>4
  <2>3. ~ (m < n)
    BY <1>3, <2>1, <2>2, Zenon
  <2> QED BY <2>1, <2>3
<1> QED BY <1>5

\* What holds at 0 and is handed on from each number to the next holds up to any bound.
LEMMA UpTo ==
    ASSUME NEW n \in Nat, NEW G \in SUBSET (0 .. n), 0 \in G,
           \A k \in 1 .. n : k - 1 \in G => k \in G
    PROVE  G = 0 .. n
<1> DEFINE B == (0 .. n) \ G
<1> SUFFICES ASSUME B # {} PROVE FALSE
  OBVIOUS
<1>1. PICK k \in B : \A m \in B : k <= m
  <2>1. B \subseteq Nat
    OBVIOUS
  <2> QED BY <2>1, LeastNatural
<1>2. k \in 1 .. n /\ k - 1 \in 0 .. n
  OBVIOUS
<1>3. k - 1 \notin B
  BY <1>1, <1>2
<1> QED BY <1>2, <1>3

\* The cells of the mask left of c in its row, and those left of and above the corner c.
RowBefore(mask, c) == {d \in mask : d[1] < c[1] /\ d[2] = c[2]}
Corner(mask, c)    == {d \in mask : d[1] < c[1] /\ d[2] < c[2]}

\* The cells in reach of c.
Window(c, radius) ==
    {d \in Cells : /\ c[1] - radius <= d[1] /\ d[1] <= c[1] + radius
                   /\ c[2] - radius <= d[2] /\ d[2] <= c[2] + radius}

LEMMA GridSize == Width \in Nat \ {0} /\ Height \in Nat \ {0}
BY GridAssumption

LEMMA CellsFinite == IsFiniteSet(Cells)
<1>1. IsFiniteSet(0 .. Width - 1) /\ IsFiniteSet(0 .. Height - 1)
  BY GridSize, FS_Interval
<1> QED BY <1>1, FS_Product DEF Cells

\* The counts satisfy the recursion by which the table is filled ...
LEMMA RowCounts ==
    ASSUME NEW mask, mask \subseteq Cells, NEW c \in (0 .. Width) \X (0 .. Height - 1)
    PROVE  Cardinality(RowBefore(mask, c)) =
             IF c[1] = 0 THEN 0
             ELSE Cardinality(RowBefore(mask, <<c[1] - 1, c[2]>>))
                  + (IF <<c[1] - 1, c[2]>> \in mask THEN 1 ELSE 0)
<1>1. IsFiniteSet(mask) /\ Width \in Nat /\ Height \in Nat
  BY CellsFinite, FS_Subset, GridSize
<1>2. c[1] \in 0 .. Width /\ c[2] \in 0 .. Height - 1
  OBVIOUS
<1>3. \A d \in mask : d[1] \in Nat /\ d[2] \in Nat /\ d = <<d[1], d[2]>>
  BY <1>1 DEF Cells
<1>4. CASE c[1] = 0
  <2>1. RowBefore(mask, c) = {}
    BY <1>3, <1>4 DEF RowBefore
  <2> QED BY <1>4, <2>1, FS_EmptySet
<1>5. CASE c[1] # 0
  <2> DEFINE b == <<c[1] - 1, c[2]>>
  <2>1. IsFiniteSet(RowBefore(mask, b)) /\ b \notin RowBefore(mask, b)
    <3>1. RowBefore(mask, b) \in SUBSET mask
      BY DEF RowBefore
    <3>2. b \notin RowBefore(mask, b)
      BY <1>2 DEF RowBefore
    <3> QED BY <1>1, <3>1, <3>2, FS_Subset
  <2>2. RowBefore(mask, c) = RowBefore(mask, b) \cup (IF b \in mask THEN {b} ELSE {})
    <3>1. \A d \in mask : d[1] < c[1] <=> d[1] < c[1] - 1 \/ d[1] = c[1] - 1
      BY <1>2, <1>3
    <3>2. \A d \in mask : d[1] = c[1] - 1 /\ d[2] = c[2] <=> d = b
      BY <1>3
    <3>3. \A d \in mask : d[1] < c[1] /\ d[2] = c[2] <=> (d[1] < b[1] /\ d[2] = b[2]) \/ d = b
      BY <3>1, <3>2
    <3> HIDE DEF b
    <3> QED BY <3>3 DEF RowBefore
  <2> HIDE DEF b
  <2>3. Cardinality(RowBefore(mask, c)) =
            Cardinality(RowBefore(mask, b)) + (IF b \in mask THEN 1 ELSE 0)
    <3>1. CASE b \in mask
      BY <2>1, <2>2, <3>1, FS_AddElement
    <3>2. CASE b \notin mask
      <4>1. RowBefore(mask, c) = RowBefore(mask, b)
        BY <2>2, <3>2
      <4>2. Cardinality(RowBefore(mask, b)) \in Nat
        BY <2>1, FS_CardinalityType
      <4> QED BY <3>2, <4>1, <4>2
    <3> QED BY <3>1, <3>2
  <2> QED BY <1>5, <2>3 DEF b
<1> QED BY <1>4, <1>5

\* ... so that the table, defined as one that satisfies it, holds the counts.
LEMMA RowTotalCounts ==
    ASSUME NEW mask, mask \subseteq Cells
    PROVE  \A c \in (0 .. Width) \X (0 .. Height - 1) :
              RowTotal(mask)[c] = Cardinality(RowBefore(mask, c))
<1> DEFINE D == (0 .. Width) \X (0 .. Height - 1)
           Filled(f) == f = [c \in D |->
               IF c[1] = 0 THEN 0
               ELSE f[<<c[1] - 1, c[2]>>] + (IF <<c[1] - 1, c[2]>> \in mask THEN 1 ELSE 0)]
           count == [c \in D |-> Cardinality(RowBefore(mask, c))]
           table == RowTotal(mask)
<1>1. Width \in Nat /\ Height \in Nat
  BY GridSize
<1>2. \A c \in D : c[1] \in 0 .. Width /\ c[2] \in 0 .. Height - 1 /\ c = <<c[1], c[2]>>
                  /\ (c[1] # 0 => <<c[1] - 1, c[2]>> \in D)
  BY <1>1
<1>3. Filled(count)
  BY <1>2, RowCounts
<1>4. table = CHOOSE f : Filled(f)
  BY DEF RowTotal
<1>5. Filled(table)
  <2> HIDE DEF Filled, table, count
  <2> QED BY <1>3, <1>4
<1>6. \A c \in D : table[c] = IF c[1] = 0 THEN 0
                ELSE table[<<c[1] - 1, c[2]>>] + (IF <<c[1] - 1, c[2]>> \in mask THEN 1 ELSE 0)
  BY <1>5, Zenon
<1>7. \A c \in D : count[c] = IF c[1] = 0 THEN 0
                ELSE count[<<c[1] - 1, c[2]>>] + (IF <<c[1] - 1, c[2]>> \in mask THEN 1 ELSE 0)
  BY <1>3, Zenon
<1> DEFINE G == {k \in 0 .. Width : \A c \in D : c[1] = k => table[c] = count[c]}
<1>8. 0 \in G
  <2>1. ASSUME NEW c \in D, c[1] = 0 PROVE table[c] = count[c]
    <3>1. table[c] = 0 /\ count[c] = 0
      BY <1>6, <1>7, <2>1, Zenon
    <3> QED BY <3>1, Zenon
  <2> HIDE DEF table, count, D
  <2> QED BY <1>1, <2>1
<1>9. ASSUME NEW k \in 1 .. Width, k - 1 \in G PROVE k \in G
  <2>1. ASSUME NEW c \in D, c[1] = k PROVE table[c] = count[c]
    <3> DEFINE b == <<c[1] - 1, c[2]>>
    <3>1. b \in D /\ b[1] = k - 1 /\ c[1] # 0
      BY <1>2, <2>1
    <3>2. table[b] = count[b]
      <4>1. \A d \in D : d[1] = k - 1 => table[d] = count[d]
        BY <1>9, Zenon
      <4> HIDE DEF table, count, D, b
      <4> QED BY <3>1, <4>1
    <3> HIDE DEF table, count
    <3> QED BY <1>6, <1>7, <3>1, <3>2
  <2> HIDE DEF table, count, D
  <2> QED BY <1>1, <2>1
<1>10. G = 0 .. Width
  <2>1. G \in SUBSET (0 .. Width)
    OBVIOUS
  <2> HIDE DEF G
  <2> QED BY <1>1, <1>8, <1>9, <2>1, UpTo
<1>11. \A c \in D : table[c] = count[c]
  <2> HIDE DEF table, count
  <2> QED BY <1>2, <1>10
<1> QED BY <1>11

\* The same for the table of corners: each is the one above with the row between added.
LEMMA CornerCounts ==
    ASSUME NEW mask, mask \subseteq Cells, NEW c \in (0 .. Width) \X (0 .. Height)
    PROVE  Cardinality(Corner(mask, c)) =
             IF c[1] = 0 \/ c[2] = 0 THEN 0
             ELSE Cardinality(Corner(mask, <<c[1], c[2] - 1>>))
                  + Cardinality(RowBefore(mask, <<c[1], c[2] - 1>>))
<1>1. IsFiniteSet(mask) /\ Width \in Nat /\ Height \in Nat
  BY CellsFinite, FS_Subset, GridSize
<1>2. c[1] \in 0 .. Width /\ c[2] \in 0 .. Height
  OBVIOUS
<1>3. \A d \in mask : d[1] \in Nat /\ d[2] \in Nat
  BY <1>1 DEF Cells
<1>4. CASE c[1] = 0 \/ c[2] = 0
  <2>1. Corner(mask, c) = {}
    BY <1>3, <1>4 DEF Corner
  <2> QED BY <1>4, <2>1, FS_EmptySet
<1>5. CASE ~ (c[1] = 0 \/ c[2] = 0)
  <2> DEFINE b == <<c[1], c[2] - 1>>
  <2>1. \A d \in mask : d[2] < c[2] <=> d[2] < b[2] \/ d[2] = b[2]
    BY <1>2, <1>3
  <2>2. b[1] = c[1] /\ b[2] \in Nat
    BY <1>2, <1>5
  <2> HIDE DEF b
  <2>3. Corner(mask, c) = Corner(mask, b) \cup RowBefore(mask, b)
    BY <2>1, <2>2 DEF Corner, RowBefore
  <2>4. Corner(mask, b) \cap RowBefore(mask, b) = {}
    BY <1>3, <2>2 DEF Corner, RowBefore
  <2>5. Corner(mask, b) \in SUBSET mask /\ RowBefore(mask, b) \in SUBSET mask
    BY DEF Corner, RowBefore
  <2>6. IsFiniteSet(Corner(mask, b)) /\ IsFiniteSet(RowBefore(mask, b))
    BY <1>1, <2>5, FS_Subset
  <2>7. Cardinality(Corner(mask, b)) \in Nat /\ Cardinality(RowBefore(mask, b)) \in Nat
    BY <2>6, FS_CardinalityType
  <2>8. Cardinality(Corner(mask, c)) =
            Cardinality(Corner(mask, b)) + Cardinality(RowBefore(mask, b))
    BY <2>3, <2>4, <2>6, <2>7, FS_Union, FS_EmptySet
  <2> QED BY <1>5, <2>8 DEF b
<1> QED BY <1>4, <1>5

LEMMA MaskIntegralCounts ==
    ASSUME NEW mask, mask \subseteq Cells
    PROVE  \A c \in (0 .. Width) \X (0 .. Height) :
              MaskIntegral(mask)[c] = Cardinality(Corner(mask, c))
<1> DEFINE D == (0 .. Width) \X (0 .. Height)
           Filled(f) == f = [c \in D |->
               IF c[1] = 0 \/ c[2] = 0 THEN 0
               ELSE f[<<c[1], c[2] - 1>>] + RowTotal(mask)[<<c[1], c[2] - 1>>]]
           count == [c \in D |-> Cardinality(Corner(mask, c))]
           table == MaskIntegral(mask)
<1>1. Width \in Nat /\ Height \in Nat
  BY GridSize
<1>2. \A c \in D :
         /\ c[1] \in 0 .. Width /\ c[2] \in 0 .. Height
         /\ c[2] # 0 => /\ <<c[1], c[2] - 1>> \in D
                        /\ <<c[1], c[2] - 1>> \in (0 .. Width) \X (0 .. Height - 1)
  BY <1>1
<1>3. Filled(count)
  BY <1>2, CornerCounts, RowTotalCounts
<1>4. table = CHOOSE f : Filled(f)
  BY DEF MaskIntegral
<1>5. Filled(table)
  <2> HIDE DEF Filled, table, count
  <2> QED BY <1>3, <1>4
<1>6. \A c \in D : table[c] = IF c[1] = 0 \/ c[2] = 0 THEN 0
                ELSE table[<<c[1], c[2] - 1>>] + RowTotal(mask)[<<c[1], c[2] - 1>>]
  BY <1>5, Zenon
<1>7. \A c \in D : count[c] = IF c[1] = 0 \/ c[2] = 0 THEN 0
                ELSE count[<<c[1], c[2] - 1>>] + RowTotal(mask)[<<c[1], c[2] - 1>>]
  BY <1>3, Zenon
<1> DEFINE G == {k \in 0 .. Height : \A c \in D : c[2] = k => table[c] = count[c]}
<1>8. 0 \in G
  <2>1. ASSUME NEW c \in D, c[2] = 0 PROVE table[c] = count[c]
    <3>1. table[c] = 0 /\ count[c] = 0
      BY <1>6, <1>7, <2>1, Zenon
    <3> QED BY <3>1, Zenon
  <2> HIDE DEF table, count, D
  <2> QED BY <1>1, <2>1
<1>9. ASSUME NEW k \in 1 .. Height, k - 1 \in G PROVE k \in G
  <2>1. ASSUME NEW c \in D, c[2] = k PROVE table[c] = count[c]
    <3> DEFINE b == <<c[1], c[2] - 1>>
    <3>1. b \in D /\ b[2] = k - 1
      BY <1>2, <2>1
    <3>2. table[b] = count[b]
      <4>1. \A d \in D : d[2] = k - 1 => table[d] = count[d]
        BY <1>9, Zenon
      <4> HIDE DEF table, count, D, b
      <4> QED BY <3>1, <4>1
    <3> HIDE DEF table, count
    <3> QED BY <1>6, <1>7, <3>1, <3>2
  <2> HIDE DEF table, count, D
  <2> QED BY <1>1, <2>1
<1>10. G = 0 .. Height
  <2>1. G \in SUBSET (0 .. Height)
    OBVIOUS
  <2> HIDE DEF G
  <2> QED BY <1>1, <1>8, <1>9, <2>1, UpTo
<1>11. \A c \in D : table[c] = count[c]
  <2> HIDE DEF table, count
  <2> QED BY <1>2, <1>10
<1> QED BY <1>11

\* maskHasValueNear and maskRatioNear count right: four entries of the table of a mask give
\* the number of its cells in reach of c, wherever on the grid c lies.
THEOREM CountNearIsExact ==
    ASSUME NEW mask, mask \subseteq Cells, NEW c \in Cells, NEW radius \in Nat
    PROVE  CountNear(MaskIntegral(mask), c, radius) = Cardinality(mask \cap Window(c, radius))
<1> DEFINE l == Left(c, radius)        r == Right(c, radius) + 1
           t == Top(c, radius)         b == Bottom(c, radius) + 1
           A == Corner(mask, <<r, b>>) B == Corner(mask, <<r, t>>)
           C == Corner(mask, <<l, b>>) E == Corner(mask, <<l, t>>)
<1>1. IsFiniteSet(mask) /\ Width \in Nat \ {0} /\ Height \in Nat \ {0}
  BY CellsFinite, FS_Subset, GridSize
<1>2. c[1] \in 0 .. Width - 1 /\ c[2] \in 0 .. Height - 1
  BY DEF Cells
<1>3. /\ l \in 0 .. Width /\ r \in 0 .. Width /\ t \in 0 .. Height /\ b \in 0 .. Height
      /\ l < r /\ t < b
  BY <1>1, <1>2 DEF Left, Right, Top, Bottom, AtLeast, AtMost
<1>4. \A d \in mask :
         /\ d[1] \in 0 .. Width - 1 /\ d[2] \in 0 .. Height - 1
         /\ d[1] < r <=> d[1] <= c[1] + radius
         /\ d[1] < l <=> d[1] < c[1] - radius
         /\ d[2] < b <=> d[2] <= c[2] + radius
         /\ d[2] < t <=> d[2] < c[2] - radius
  <2>1. \A d \in mask : d[1] \in 0 .. Width - 1 /\ d[2] \in 0 .. Height - 1
    BY DEF Cells
  <2> QED BY <1>1, <1>2, <2>1 DEF Left, Right, Top, Bottom, AtLeast, AtMost
<1> HIDE DEF l, r, t, b
<1>5. mask \cap Window(c, radius) = A \ (B \cup C)
  BY <1>2, <1>3, <1>4 DEF Window, Corner
<1>6. B \cap C = E /\ B \cup C \subseteq A /\ A \subseteq mask
  BY <1>3, <1>4 DEF Corner
<1>7. CountNear(MaskIntegral(mask), c, radius) =
          Cardinality(A) - Cardinality(B) - Cardinality(C) + Cardinality(E)
  <2>1. \A p \in {<<r, b>>, <<r, t>>, <<l, b>>, <<l, t>>} :
           MaskIntegral(mask)[p] = Cardinality(Corner(mask, p))
    BY <1>3, MaskIntegralCounts
  <2> QED BY <2>1 DEF CountNear, l, r, t, b
<1> HIDE DEF A, B, C, E
<1>8. IsFiniteSet(A) /\ IsFiniteSet(B) /\ IsFiniteSet(C) /\ IsFiniteSet(E) /\ IsFiniteSet(B \cup C)
  BY <1>1, <1>6, FS_Subset
<1>9. Cardinality(B \cup C) = Cardinality(B) + Cardinality(C) - Cardinality(E)
  BY <1>6, <1>8, FS_Union
<1>10. Cardinality(A \ (B \cup C)) = Cardinality(A) - Cardinality(B \cup C)
  <2>1. Cardinality(A \ (B \cup C)) = Cardinality(A) - Cardinality(A \cap (B \cup C))
    BY <1>8, FS_Difference
  <2> QED BY <1>6, <2>1
<1>11. /\ Cardinality(A) \in Nat /\ Cardinality(B) \in Nat
       /\ Cardinality(C) \in Nat /\ Cardinality(E) \in Nat
  BY <1>8, FS_CardinalityType
<1>12. CountNear(MaskIntegral(mask), c, radius) = Cardinality(A \ (B \cup C))
  BY <1>7, <1>9, <1>10, <1>11
<1> QED BY <1>5, <1>12, Zenon

\* Hence a cell has one of the mask near it as the table says.
THEOREM HasValueNearIsExact ==
    ASSUME NEW mask, mask \subseteq Cells, NEW c \in Cells, NEW radius \in Nat
    PROVE  HasValueNear(MaskIntegral(mask), c, radius) <=>
              \E d \in mask : Abs(c[1] - d[1]) <= radius /\ Abs(c[2] - d[2]) <= radius
<1> DEFINE near == mask \cap Window(c, radius)
<1>1. IsFiniteSet(near)
  BY CellsFinite, FS_Subset
<1>2. \A d \in Cells : d[1] \in Int /\ d[2] \in Int
  BY DEF Cells
<1>3. \A d \in mask : d \in Window(c, radius) <=>
          Abs(c[1] - d[1]) <= radius /\ Abs(c[2] - d[2]) <= radius
  BY <1>2 DEF Window, Abs, AtLeast
<1>4. HasValueNear(MaskIntegral(mask), c, radius) <=> Cardinality(near) > 0
  BY CountNearIsExact DEF HasValueNear
<1>5. Cardinality(near) > 0 <=> near # {}
  <2> HIDE DEF near
  <2> QED BY <1>1, FS_EmptySet, FS_CardinalityType
<1> QED BY <1>3, <1>4, <1>5

-----------------------------------------------------------------------------
(* Choices. *)

\* f is what has been chosen after each of the ranking, and `Chosen' the last of it.
Unfolding(f, before, ranked, limit, clashes) ==
    /\ f[0] = before
    /\ \A n \in 1 .. Len(ranked) : f[n] = Extended(f[n - 1], ranked[n], limit, clashes)
    /\ Chosen(before, ranked, limit, clashes) = f[Len(ranked)]

\* The recursion by which a choice is made has a solution, so that it is one.
LEMMA ChosenUnfolds ==
    ASSUME NEW before, NEW ranked, Len(ranked) \in Nat, NEW limit, NEW clashes
    PROVE  \E f : Unfolding(f, before, ranked, limit, clashes)
<1> DEFINE last == Len(ranked)
           Ext(so, n) == Extended(so, ranked[n], limit, clashes)
           Filled(f, m) == f = [n \in 0 .. m |-> IF n = 0 THEN before ELSE Ext(f[n - 1], n)]
           G == {k \in 0 .. last : \E f : Filled(f, k)}
<1>1. 0 \in G
  <2> DEFINE f == [n \in 0 .. 0 |-> before]
  <2>1. Filled(f, 0)
    <3> HIDE DEF Ext
    <3> QED OBVIOUS
  <2> HIDE DEF Filled, f
  <2> QED BY <2>1
<1>2. ASSUME NEW k \in 1 .. last, k - 1 \in G PROVE k \in G
  <2>1. PICK f : Filled(f, k - 1)
    BY <1>2
  <2> DEFINE g == [n \in 0 .. k |-> IF n < k THEN f[n] ELSE Ext(f[k - 1], k)]
  <2>2. Filled(g, k)
    <3> HIDE DEF Ext
    <3>1. \A n \in 0 .. k - 1 : f[n] = IF n = 0 THEN before ELSE Ext(f[n - 1], n)
      BY <2>1
    <3>2. ASSUME NEW n \in 0 .. k PROVE g[n] = IF n = 0 THEN before ELSE Ext(g[n - 1], n)
      <4>1. CASE n = 0
        BY <3>1, <4>1
      <4>2. CASE n # 0 /\ n < k
        <5>1. g[n] = f[n] /\ g[n - 1] = f[n - 1] /\ n \in 0 .. k - 1
          BY <4>2
        <5> HIDE DEF g
        <5> QED BY <3>1, <4>2, <5>1
      <4>3. CASE n = k
        <5>1. g[n] = Ext(f[k - 1], k) /\ g[n - 1] = f[k - 1] /\ n # 0
          BY <4>3
        <5> HIDE DEF g
        <5> QED BY <4>3, <5>1
      <4> QED BY <4>1, <4>2, <4>3
    <3> QED BY <3>2
  <2> HIDE DEF Filled, g
  <2> QED BY <2>2
<1>3. G = 0 .. last
  <2>1. G \in SUBSET (0 .. last)
    OBVIOUS
  <2> HIDE DEF G
  <2> QED BY <1>1, <1>2, <2>1, UpTo
<1>4. \E f : Filled(f, last)
  <2> HIDE DEF Filled
  <2> QED BY <1>3
<1> DEFINE after == CHOOSE f : Filled(f, last)
<1>5. Chosen(before, ranked, limit, clashes) = after[last]
  BY DEF Chosen
<1>6. Filled(after, last)
  <2> HIDE DEF Filled
  <2> QED BY <1>4
<1>7. after[0] = before /\ \A n \in 1 .. last : after[n] = Ext(after[n - 1], n)
  <2> HIDE DEF after, Ext
  <2> QED BY <1>6
<1> HIDE DEF after
<1>8. Unfolding(after, before, ranked, limit, clashes)
  BY <1>5, <1>7 DEF Unfolding
<1> QED BY <1>8

\* No two of what is chosen are the same or clash.
Clean(so, clashes) ==
    \A i, j \in 1 .. Len(so) : i < j => so[i] # so[j] /\ <<so[i], so[j]>> \notin clashes

\* The first n of a ranking.
First(ranked, n) == {ranked[m] : m \in 1 .. n}

\* What so far holds of a choice, after n of the ranking: it goes on from `before' with some
\* of these, and each that is left out clashes with one of higher rank or from before, or
\* found the limit reached by such.
SoFar(so, n, before, ranked, limit, clashes) ==
    /\ Len(before) <= Len(so) /\ Len(so) <= limit
    /\ \A i \in 1 .. Len(before) : so[i] = before[i]
    /\ \A i \in Len(before) + 1 .. Len(so) : so[i] \in First(ranked, n)
    /\ Clean(so, clashes)
    /\ \A m \in 1 .. n :
          \/ \E i \in 1 .. Len(so) : so[i] = ranked[m]
          \/ \E i \in 1 .. Len(so) : /\ <<so[i], ranked[m]>> \in clashes
                                     /\ i <= Len(before) \/ so[i] \in First(ranked, m)
          \/ /\ Len(so) = limit
             /\ \A i \in Len(before) + 1 .. Len(so) : so[i] \in First(ranked, m)

LEMMA ExtendedSoFar ==
    ASSUME NEW S, NEW before \in Seq(S), NEW ranked \in Seq(S), NEW limit \in Nat, NEW clashes,
           NEW so \in Seq(S), NEW n \in 1 .. Len(ranked),
           SoFar(so, n - 1, before, ranked, limit, clashes)
    PROVE  LET e == Extended(so, ranked[n], limit, clashes)
           IN  e \in Seq(S) /\ SoFar(e, n, before, ranked, limit, clashes)
<1> DEFINE x == ranked[n]
           e == Extended(so, x, limit, clashes)
<1>1. x \in S /\ Len(so) \in Nat /\ Len(before) \in Nat /\ DOMAIN so = 1 .. Len(so)
  OBVIOUS
<1>2. \A m \in 1 .. n : First(ranked, m) \subseteq First(ranked, n)
  BY DEF First
<1>3. First(ranked, n - 1) \subseteq First(ranked, n) /\ x \in First(ranked, n)
  BY DEF First
<1>4. Len(before) <= Len(so) /\ Len(so) <= limit /\ Clean(so, clashes)
  BY DEF SoFar
<1>5. \A i \in 1 .. Len(before) : so[i] = before[i]
  BY DEF SoFar
<1>6. \A i \in Len(before) + 1 .. Len(so) : so[i] \in First(ranked, n - 1)
  BY DEF SoFar
<1> HIDE DEF x
<1>7. CASE Len(so) < limit /\ \A k \in 1 .. Len(so) : so[k] # x /\ <<so[k], x>> \notin clashes
  <2> DEFINE a == Append(so, x)
  <2>1. e = a
    BY <1>1, <1>7 DEF Extended
  <2>2. /\ a \in Seq(S) /\ Len(a) = Len(so) + 1 /\ a[Len(so) + 1] = x
        /\ \A i \in 1 .. Len(so) : a[i] = so[i]
    BY <1>1
  <2> HIDE DEF a
  <2>3. Clean(a, clashes)
    <3>1. ASSUME NEW i \in 1 .. Len(a), NEW j \in 1 .. Len(a), i < j
          PROVE  a[i] # a[j] /\ <<a[i], a[j]>> \notin clashes
      <4>1. CASE j = Len(so) + 1
        BY <1>1, <1>7, <2>2, <3>1, <4>1
      <4>2. CASE j # Len(so) + 1
        <5>1. i \in 1 .. Len(so) /\ j \in 1 .. Len(so)
          BY <1>1, <2>2, <3>1, <4>2, SMTT(60)
        <5> QED BY <2>2, <3>1, <5>1 DEF SoFar, Clean
      <4> QED BY <4>1, <4>2
    <3> QED BY <3>1 DEF Clean
  <2>4. \A i \in 1 .. Len(before) : a[i] = before[i]
    BY <1>1, <1>4, <1>5, <2>2, SMTT(30)
  <2>5. ASSUME NEW i \in Len(before) + 1 .. Len(a) PROVE a[i] \in First(ranked, n)
    <3>1. i = Len(so) + 1 \/ i \in Len(before) + 1 .. Len(so)
      BY <1>1, <1>4, <2>2, SMTT(30)
    <3>2. i \in 1 .. Len(so) \/ i = Len(so) + 1
      BY <1>1, <3>1
    <3> QED BY <1>3, <1>6, <2>2, <3>1, <3>2, Zenon
  <2>6. ASSUME NEW m \in 1 .. n
        PROVE  \/ \E i \in 1 .. Len(a) : a[i] = ranked[m]
               \/ \E i \in 1 .. Len(a) : /\ <<a[i], ranked[m]>> \in clashes
                                         /\ i <= Len(before) \/ a[i] \in First(ranked, m)
    <3>1. CASE m = n
      BY <1>1, <2>2, <3>1 DEF x
    <3>2. CASE m # n
      <4>1. \/ \E i \in 1 .. Len(so) : so[i] = ranked[m]
            \/ \E i \in 1 .. Len(so) : /\ <<so[i], ranked[m]>> \in clashes
                                       /\ i <= Len(before) \/ so[i] \in First(ranked, m)
        BY <1>7, <3>2 DEF SoFar
      <4>2. \A i \in 1 .. Len(so) : i \in 1 .. Len(a) /\ a[i] = so[i]
        BY <1>1, <2>2
      <4> QED BY <4>1, <4>2
    <3> QED BY <3>1, <3>2
  <2>7. Len(before) <= Len(a) /\ Len(a) <= limit
    BY <1>1, <1>7, <1>4, <2>2, SMTT(30)
  <2>8. SoFar(a, n, before, ranked, limit, clashes)
    BY <2>3, <2>4, <2>5, <2>6, <2>7 DEF SoFar
  <2> QED BY <2>1, <2>2, <2>8 DEF x
<1>8. CASE ~ (Len(so) < limit /\ \A k \in 1 .. Len(so) : so[k] # x /\ <<so[k], x>> \notin clashes)
  <2>1. e = so
    BY <1>1, <1>8 DEF Extended
  <2>2. \A i \in Len(before) + 1 .. Len(so) : so[i] \in First(ranked, n)
    BY <1>3, <1>6
  <2>3. \/ \E i \in 1 .. Len(so) : so[i] = x
        \/ \E i \in 1 .. Len(so) : /\ <<so[i], x>> \in clashes
                                   /\ i <= Len(before) \/ so[i] \in First(ranked, n)
        \/ /\ Len(so) = limit
           /\ \A i \in Len(before) + 1 .. Len(so) : so[i] \in First(ranked, n)
    <3>1. Len(so) = limit \/ \E k \in 1 .. Len(so) : so[k] = x \/ <<so[k], x>> \in clashes
      <4>1. Len(so) < limit \/ Len(so) = limit
        <5>1. Len(so) \in Nat /\ Len(so) <= limit
          BY <1>1, <1>4, Zenon
        <5> QED BY <5>1
      <4> QED BY <1>8, <4>1, Zenon
    <3>2. \A i \in 1 .. Len(so) : i <= Len(before) \/ so[i] \in First(ranked, n)
      BY <1>1, <2>2
    <3> QED BY <2>2, <3>1, <3>2
  <2>4. SoFar(so, n, before, ranked, limit, clashes)
    <3>1. \A m \in 1 .. n : m \in 1 .. n - 1 \/ m = n
      OBVIOUS
    <3> QED BY <2>2, <2>3, <3>1 DEF SoFar, x
  <2> QED BY <2>1, <2>4 DEF x
<1> QED BY <1>7, <1>8 DEF x

\* A choice from a ranking: what it is, and why a candidate is not in it.
LEMMA ChosenSoFar ==
    ASSUME NEW S, NEW before \in Seq(S), NEW ranked \in Seq(S), NEW limit \in Nat, NEW clashes,
           Len(before) <= limit, Clean(before, clashes)
    PROVE  /\ Chosen(before, ranked, limit, clashes) \in Seq(S)
           /\ SoFar(Chosen(before, ranked, limit, clashes), Len(ranked),
                    before, ranked, limit, clashes)
<1> PICK f : Unfolding(f, before, ranked, limit, clashes)
  <2>1. Len(ranked) \in Nat
    OBVIOUS
  <2> QED BY <2>1, ChosenUnfolds
<1>1. /\ f[0] = before
      /\ \A n \in 1 .. Len(ranked) : f[n] = Extended(f[n - 1], ranked[n], limit, clashes)
      /\ Chosen(before, ranked, limit, clashes) = f[Len(ranked)]
  BY DEF Unfolding
<1> DEFINE last == Len(ranked)
           G == {n \in 0 .. last :
                    f[n] \in Seq(S) /\ SoFar(f[n], n, before, ranked, limit, clashes)}
<1>2. last \in Nat
  OBVIOUS
<1>3. 0 \in G
  <2>1. SoFar(before, 0, before, ranked, limit, clashes)
    <3>1. Len(before) \in Nat
      OBVIOUS
    <3>2. (\A m \in 1 .. 0 : FALSE) /\ (\A i \in Len(before) + 1 .. Len(before) : FALSE)
      BY <3>1
    <3> QED BY <3>1, <3>2 DEF SoFar
  <2> QED BY <1>1, <1>2, <2>1
<1>4. ASSUME NEW k \in 1 .. last, k - 1 \in G PROVE k \in G
  <2>1. f[k - 1] \in Seq(S) /\ SoFar(f[k - 1], k - 1, before, ranked, limit, clashes)
    BY <1>4
  <2>2. f[k] = Extended(f[k - 1], ranked[k], limit, clashes)
    BY <1>1
  <2>3. f[k] \in Seq(S) /\ SoFar(f[k], k, before, ranked, limit, clashes)
    BY <2>1, <2>2, ExtendedSoFar
  <2> QED BY <1>2, <2>3
<1>5. G = 0 .. last
  <2>1. G \in SUBSET (0 .. last)
    OBVIOUS
  <2> HIDE DEF G
  <2> QED BY <1>2, <1>3, <1>4, <2>1, UpTo
<1>6. last \in G
  BY <1>2, <1>5
<1> QED BY <1>1, <1>6

-----------------------------------------------------------------------------
(* Sorting, and the selection of routes. *)

StrictOrder(S, order) ==
    /\ \A x \in S : <<x, x>> \notin order
    /\ \A x, y, z \in S : <<x, y>> \in order /\ <<y, z>> \in order => <<x, z>> \in order
    /\ \A x, y \in S : x # y => <<x, y>> \in order \/ <<y, x>> \in order

\* Those that an order puts before x.
Before(S, order, x) == {y \in S : <<y, x>> \in order}

\* How many there are before x tells it from every other.
LEMMA RanksDiffer ==
    ASSUME NEW S, IsFiniteSet(S), NEW order, StrictOrder(S, order),
           NEW x \in S, NEW y \in S, <<x, y>> \in order
    PROVE  Cardinality(Before(S, order, x)) < Cardinality(Before(S, order, y))
<1> DEFINE bx == Before(S, order, x)
           by == Before(S, order, y)
<1>1. bx \subseteq by /\ x \in by /\ x \notin bx
  BY DEF Before, StrictOrder
<1>2. IsFiniteSet(by)
  <2>1. by \in SUBSET S
    BY DEF Before
  <2> QED BY <2>1, FS_Subset
<1> HIDE DEF bx, by
<1>3. IsFiniteSet(bx) /\ Cardinality(bx) <= Cardinality(by) /\ (Cardinality(by) = Cardinality(bx) => by = bx)
  BY <1>1, <1>2, FS_Subset
<1>4. Cardinality(bx) # Cardinality(by)
  BY <1>1, <1>3
<1>5. Cardinality(bx) \in Nat /\ Cardinality(by) \in Nat
  BY <1>2, <1>3, FS_CardinalityType
<1> QED BY <1>3, <1>4, <1>5 DEF bx, by

\* Sorting loses nothing.
LEMMA SortedEnumerates ==
    ASSUME NEW S, IsFiniteSet(S), NEW order, StrictOrder(S, order)
    PROVE  /\ Sorted(S, order) \in Seq(S)
           /\ First(Sorted(S, order), Len(Sorted(S, order))) = S
           /\ \A n \in 1 .. Len(Sorted(S, order)) :
                 Cardinality(Before(S, order, Sorted(S, order)[n])) = n - 1
<1> DEFINE size == Cardinality(S)
           rank == [x \in S |-> Cardinality(Before(S, order, x))]
           sorted == Sorted(S, order)
<1>1. size \in Nat
  BY FS_CardinalityType
<1>2. ASSUME NEW x \in S PROVE rank[x] \in 0 .. size - 1
  <2>1. Before(S, order, x) \in SUBSET S /\ x \notin Before(S, order, x)
    BY DEF Before, StrictOrder
  <2>2. /\ IsFiniteSet(Before(S, order, x))
        /\ Cardinality(Before(S, order, x)) <= size
        /\ Cardinality(Before(S, order, x)) # size
    BY <2>1, FS_Subset
  <2>3. Cardinality(Before(S, order, x)) \in Nat
    BY <2>2, FS_CardinalityType
  <2> QED BY <1>1, <2>2, <2>3
<1>3. ASSUME NEW x \in S, NEW y \in S, x # y PROVE rank[x] # rank[y]
  <2>1. <<x, y>> \in order \/ <<y, x>> \in order
    BY <1>3 DEF StrictOrder
  <2>2. rank[x] < rank[y] \/ rank[y] < rank[x]
    BY <2>1, RanksDiffer
  <2>3. rank[x] \in Nat /\ rank[y] \in Nat
    BY <1>1, <1>2
  <2> HIDE DEF rank
  <2> QED BY <2>2, <2>3
<1>4. rank \in Surjection(S, 0 .. size - 1)
  <2>1. rank \in [S -> 0 .. size - 1]
    BY <1>2
  <2>2. IsFiniteSet(0 .. size - 1) /\ Cardinality(0 .. size - 1) = size
    BY <1>1, FS_Interval
  <2> HIDE DEF rank, size
  <2>3. rank \in Injection(S, 0 .. size - 1)
    BY <1>3, <2>1 DEF Injection, IsInjective
  <2> QED BY <2>2, <2>3, FS_Injection DEF size
<1>5. \A n \in 1 .. size : \E x \in S : rank[x] = n - 1
  <2>1. \A k \in 0 .. size - 1 : \E x \in S : rank[x] = k
    BY <1>4 DEF Surjection
  <2>2. \A n \in 1 .. size : n - 1 \in 0 .. size - 1
    BY <1>1
  <2> HIDE DEF rank, size
  <2> QED BY <2>1, <2>2
<1>6. sorted = [n \in 1 .. size |-> CHOOSE x \in S : rank[x] = n - 1]
  BY DEF Sorted, Before
<1>7. \A x \in S : rank[x] = Cardinality(Before(S, order, x))
  OBVIOUS
<1> HIDE DEF sorted, rank
<1>8. \A n \in 1 .. size : sorted[n] \in S /\ rank[sorted[n]] = n - 1
  BY <1>5, <1>6
<1>9. sorted \in Seq(S) /\ Len(sorted) = size
  <2>1. sorted \in [1 .. size -> S]
    BY <1>6, <1>8
  <2> HIDE DEF size
  <2> QED BY <1>1, <2>1
<1>10. ASSUME NEW x \in S PROVE \E n \in 1 .. size : sorted[n] = x
  <2>1. rank[x] + 1 \in 1 .. size /\ rank[x] \in Nat
    BY <1>1, <1>2
  <2>2. rank[sorted[rank[x] + 1]] = rank[x] /\ sorted[rank[x] + 1] \in S
    BY <1>8, <2>1
  <2>3. sorted[rank[x] + 1] = x
    BY <1>3, <2>2
  <2> QED BY <2>1, <2>3
<1>11. First(sorted, size) = S
  BY <1>8, <1>10 DEF First
<1> QED BY <1>8, <1>9, <1>11, <1>7 DEF sorted

\* Routes as they are measured: each has an id of its own, which orders it.
Measured == [id : Nat, distance : Int, green : Int, water : Int, built : Int]
Weighted == [greenery : Int, waterfront : Int, lowTraffic : Int, comfort : Int]

LEMMA ScoreIsNumber ==
    ASSUME NEW r \in Measured, NEW preferences \in Weighted, NEW target \in Int
    PROVE  ScenicScore(r, preferences, target) \in Int
<1>1. \A a, b \in Int : AtLeast(a, b) \in Int /\ AtMost(a, b) \in Int /\ a * b \in Int
  BY DEF AtLeast, AtMost
<1>2. \A a, b, c \in Int : Clamp(a, b, c) \in Int
  BY <1>1 DEF Clamp
<1>3. /\ r.distance \in Int /\ r.green \in Int /\ r.water \in Int /\ r.built \in Int
      /\ preferences.greenery \in Int /\ preferences.waterfront \in Int
      /\ preferences.lowTraffic \in Int /\ preferences.comfort \in Int
  BY DEF Measured, Weighted
<1>4. \A a, b \in Int : Metric(a, b) \in Int
  BY DEF Metric, Unknown
<1> DEFINE weights == AtLeast(1, preferences.greenery + preferences.waterfront
                              + preferences.lowTraffic + preferences.comfort)
           fit == Clamp(100 * target - 100 * Abs(r.distance - target), 0, 100 * target)
           built == Metric(r.built, 100)
           preferred == Metric(r.green, 0) * preferences.greenery
                      + Metric(r.water, 0) * preferences.waterfront
                      + (100 - built) * preferences.lowTraffic
<1>5. \A a \in Int : Abs(a) \in Int
  BY <1>1 DEF Abs
<1>6. weights \in Int
  <2>1. /\ 1 \in Int
        /\ preferences.greenery + preferences.waterfront + preferences.lowTraffic
             + preferences.comfort \in Int
    BY <1>3
  <2> QED BY <1>1, <2>1, Zenon
<1>7. fit \in Int
  <2>1. r.distance - target \in Int
    BY <1>3
  <2>2. Abs(r.distance - target) \in Int
    BY <1>5, <2>1
  <2>3. 100 * target - 100 * Abs(r.distance - target) \in Int /\ 100 * target \in Int
    BY <2>2
  <2> QED BY <1>2, <2>3
<1>8. built \in Int /\ Metric(r.green, 0) \in Int /\ Metric(r.water, 0) \in Int
  <2>1. 0 \in Int /\ 100 \in Int
    OBVIOUS
  <2> QED BY <1>3, <1>4, <2>1, Zenon
<1>9. preferred \in Int
  <2> HIDE DEF built
  <2>1. Metric(r.green, 0) * preferences.greenery \in Int
    BY <1>1, <1>3, <1>8, Zenon
  <2>2. Metric(r.water, 0) * preferences.waterfront \in Int
    BY <1>1, <1>3, <1>8, Zenon
  <2>3. 100 - built \in Int
    BY <1>8
  <2>4. (100 - built) * preferences.lowTraffic \in Int
    BY <1>1, <1>3, <2>3, Zenon
  <2> QED BY <2>1, <2>2, <2>4
<1> HIDE DEF weights, fit, built, preferred
<1>10. /\ 7 * fit * weights + 13 * preferred * target - 2 * built * target * weights \in Int
       /\ 2000 * target * weights \in Int
  BY <1>6, <1>7, <1>8, <1>9
<1>11. Clamp(7 * fit * weights + 13 * preferred * target - 2 * built * target * weights,
             0, 2000 * target * weights) \in Int
  BY <1>2, <1>10
<1> QED BY <1>11 DEF ScenicScore, weights, fit, built, preferred

\* The order of routes: the higher score first, then by id.
RouteOrder(routes, preferences, target) ==
    LET score(r) == ScenicScore(r, preferences, target)
    IN  {p \in routes \X routes :
            \/ score(p[1]) > score(p[2])
            \/ score(p[1]) = score(p[2]) /\ p[1].id < p[2].id}

LEMMA RoutesOrdered ==
    ASSUME NEW routes \in SUBSET Measured, IsFiniteSet(routes),
           \A r, s \in routes : r # s => r.id # s.id,
           NEW preferences \in Weighted, NEW target \in Int
    PROVE  /\ StrictOrder(routes, RouteOrder(routes, preferences, target))
           /\ RankedRoutes(routes, preferences, target) =
                Sorted(routes, RouteOrder(routes, preferences, target))
<1> DEFINE score == [r \in routes |-> ScenicScore(r, preferences, target)]
           before(r, s) == score[r] > score[s] \/ (score[r] = score[s] /\ r.id < s.id)
           order == {p \in routes \X routes : before(p[1], p[2])}
<1>1. \A r \in routes : score[r] \in Int /\ r.id \in Nat
  BY ScoreIsNumber DEF Measured
<1>2. RankedRoutes(routes, preferences, target) = Sorted(routes, order)
  BY DEF RankedRoutes
<1> HIDE DEF score
<1>3. \A r, s \in routes : <<r, s>> \in order <=> before(r, s)
  OBVIOUS
<1>4. StrictOrder(routes, order)
  <2> HIDE DEF order
  <2>1. \A r \in routes : <<r, r>> \notin order
    BY <1>1, <1>3
  <2>2. ASSUME NEW r \in routes, NEW s \in routes, NEW t \in routes,
               <<r, s>> \in order, <<s, t>> \in order
        PROVE  <<r, t>> \in order
    <3>1. before(r, s) /\ before(s, t)
      BY <1>3, <2>2
    <3>2. before(r, t)
      BY <1>1, <3>1
    <3> QED BY <1>3, <3>2
  <2>3. ASSUME NEW r \in routes, NEW s \in routes, r # s
        PROVE  <<r, s>> \in order \/ <<s, r>> \in order
    <3>1. before(r, s) \/ before(s, r)
      BY <1>1, <2>3
    <3> QED BY <1>3, <3>1
  <2> QED BY <2>1, <2>2, <2>3 DEF StrictOrder
<1>5. order = RouteOrder(routes, preferences, target)
  BY DEF RouteOrder, score
<1> QED BY <1>2, <1>4, <1>5

LEMMA RanksEveryRoute ==
    ASSUME NEW routes \in SUBSET Measured, IsFiniteSet(routes),
           \A r, s \in routes : r # s => r.id # s.id,
           NEW preferences \in Weighted, NEW target \in Int
    PROVE  /\ RankedRoutes(routes, preferences, target) \in Seq(routes)
           /\ First(RankedRoutes(routes, preferences, target),
                    Len(RankedRoutes(routes, preferences, target))) = routes
  BY RoutesOrdered, SortedEnumerates

\* selectDiverseRoutes chooses well, whatever the routes, their overlaps and the limit: no
\* two routes kept are near duplicates, fewer than asked for come only when each route left
\* out nearly repeats one that is kept, and routes that overlap are kept together only when
\* each left out overlaps one kept.  What counts as overlapping must not be stricter than
\* what counts as a near duplicate.
THEOREM SelectionIsMaximal ==
    ASSUME NEW routes \in SUBSET Measured, IsFiniteSet(routes),
           \A r, s \in routes : r # s => r.id # s.id,
           NEW preferences \in Weighted, NEW target \in Int, NEW limit \in Nat \ {0},
           NEW overlap, \A r, s \in routes : overlap[<<r.id, s.id>>] \in Int,
           NEW maxOverlap \in Int, maxOverlap <= 98
    PROVE  SelectionMaximal(routes, limit, overlap, maxOverlap, preferences, target)
<1> DEFINE ranked == RankedRoutes(routes, preferences, target)
           overlapping == Alike(routes, overlap, maxOverlap)
           repeating == Alike(routes, overlap, 98)
           first == Chosen(<<>>, ranked, limit, overlapping)
           list == SelectDiverseRoutes(routes, limit, overlap, maxOverlap, preferences, target)
           kept == {list[n] : n \in 1 .. Len(list)}
<1>1. list = Chosen(first, ranked, limit, repeating)
  BY DEF SelectDiverseRoutes
<1>2. ranked \in Seq(routes) /\ First(ranked, Len(ranked)) = routes
  BY RanksEveryRoute
<1>3. /\ \A r, s \in routes : <<r, s>> \in overlapping <=> overlap[<<r.id, s.id>>] >= maxOverlap
      /\ \A r, s \in routes : <<r, s>> \in repeating <=> overlap[<<r.id, s.id>>] >= 98
  BY DEF Alike
<1> HIDE DEF ranked, overlapping, repeating, list
<1>4. first \in Seq(routes) /\ SoFar(first, Len(ranked), <<>>, ranked, limit, overlapping)
  <2>1. <<>> \in Seq(routes) /\ Len(<<>>) <= limit /\ Clean(<<>>, overlapping)
    BY DEF Clean
  <2> QED BY <1>2, <2>1, ChosenSoFar
<1> HIDE DEF first
<1>5. /\ Len(first) \in Nat /\ Len(first) <= limit
      /\ \A i \in 1 .. Len(first) : first[i] \in routes
      /\ Clean(first, overlapping)
  BY <1>4 DEF SoFar
<1>6. Clean(first, repeating)
  <2>1. ASSUME NEW i \in 1 .. Len(first), NEW j \in 1 .. Len(first), i < j
        PROVE  first[i] # first[j] /\ <<first[i], first[j]>> \notin repeating
    <3>1. first[i] \in routes /\ first[j] \in routes
      BY <1>5
    <3>2. first[i] # first[j] /\ <<first[i], first[j]>> \notin overlapping
      BY <1>5, <2>1 DEF Clean
    <3>3. ~ (overlap[<<first[i].id, first[j].id>>] >= maxOverlap)
      BY <1>3, <3>1, <3>2
    <3>4. overlap[<<first[i].id, first[j].id>>] \in Int
      BY <3>1
    <3>5. ~ (overlap[<<first[i].id, first[j].id>>] >= 98)
      BY <3>3, <3>4
    <3> QED BY <1>3, <3>1, <3>2, <3>5
  <2> QED BY <2>1 DEF Clean
<1>7. list \in Seq(routes) /\ SoFar(list, Len(ranked), first, ranked, limit, repeating)
  BY <1>1, <1>2, <1>4, <1>5, <1>6, ChosenSoFar
<1>8. /\ Len(list) \in Nat /\ Len(first) <= Len(list) /\ Len(list) <= limit
      /\ \A i \in 1 .. Len(list) : list[i] \in routes
      /\ \A i \in 1 .. Len(first) : list[i] = first[i]
      /\ Clean(list, repeating)
  BY <1>7 DEF SoFar
<1>9. kept \subseteq routes
  BY <1>8
<1>10. ASSUME NEW m \in 1 .. Len(list), NEW n \in 1 .. Len(list), m < n
       PROVE  list[m] # list[n] /\ overlap[<<list[m].id, list[n].id>>] < 98
  <2>1. list[m] # list[n] /\ <<list[m], list[n]>> \notin repeating
    BY <1>8, <1>10 DEF Clean
  <2>2. list[m] \in routes /\ list[n] \in routes
    BY <1>8
  <2>3. ~ (overlap[<<list[m].id, list[n].id>>] >= 98) /\ overlap[<<list[m].id, list[n].id>>] \in Int
    BY <1>3, <2>1, <2>2
  <2> QED BY <2>1, <2>3
<1>11. ASSUME NEW r \in routes, r \notin kept
       PROVE  \E m \in 1 .. Len(ranked) : ranked[m] = r
  BY <1>2 DEF First
<1>12. ASSUME NEW r \in routes, r \notin kept, Len(list) < limit
       PROVE  \E s \in kept : overlap[<<s.id, r.id>>] >= 98
  <2>1. PICK m \in 1 .. Len(ranked) : ranked[m] = r
    BY <1>11, <1>12
  <2>2. Len(list) # limit
    BY <1>8, <1>12
  <2>3. \A i \in 1 .. Len(list) : list[i] # r
    BY <1>12
  <2>4. \E i \in 1 .. Len(list) : <<list[i], r>> \in repeating
    BY <1>7, <2>1, <2>2, <2>3 DEF SoFar
  <2> QED BY <1>3, <1>8, <2>4
<1>13. CASE Len(first) = limit
  <2>1. Len(list) = Len(first)
    BY <1>5, <1>8, <1>13
  <2>2. ASSUME NEW m \in 1 .. Len(list), NEW n \in 1 .. Len(list), m < n
        PROVE  overlap[<<list[m].id, list[n].id>>] < maxOverlap
    <3>1. list[m] = first[m] /\ list[n] = first[n] /\ list[m] \in routes /\ list[n] \in routes
      BY <1>8, <2>1
    <3>2. <<list[m], list[n]>> \notin overlapping
      BY <1>5, <2>1, <2>2, <3>1 DEF Clean
    <3>3. /\ ~ (overlap[<<list[m].id, list[n].id>>] >= maxOverlap)
          /\ overlap[<<list[m].id, list[n].id>>] \in Int
      BY <1>3, <3>1, <3>2
    <3> QED BY <3>3
  <2> QED BY <1>8, <1>9, <1>10, <1>12, <2>2 DEF SelectionMaximal, list
<1>14. CASE Len(first) # limit
  <2>1. ASSUME NEW r \in routes, r \notin kept
        PROVE  \E s \in kept : overlap[<<s.id, r.id>>] >= maxOverlap
    <3>1. PICK m \in 1 .. Len(ranked) : ranked[m] = r
      BY <1>11, <2>1
    <3>2. \A i \in 1 .. Len(first) : i \in 1 .. Len(list) /\ list[i] = first[i]
      BY <1>5, <1>8
    <3>3. \A i \in 1 .. Len(first) : first[i] # r
      BY <2>1, <3>2
    <3>4. PICK i \in 1 .. Len(first) : <<first[i], r>> \in overlapping
      BY <1>4, <1>14, <3>1, <3>3 DEF SoFar
    <3>5. first[i] \in routes /\ first[i] \in kept
      BY <1>5, <3>2
    <3>6. overlap[<<first[i].id, r.id>>] >= maxOverlap
      BY <1>3, <3>4, <3>5
    <3> QED BY <3>5, <3>6
  <2> QED BY <1>8, <1>9, <1>10, <1>12, <2>1 DEF SelectionMaximal, list
<1> QED BY <1>13, <1>14

-----------------------------------------------------------------------------
(* Which of the ranked are chosen first, and in what order. *)

\* A ranking follows its order.
LEMMA SortedOrdered ==
    ASSUME NEW S, IsFiniteSet(S), NEW order, StrictOrder(S, order),
           NEW n \in 1 .. Len(Sorted(S, order)), NEW m \in 1 .. Len(Sorted(S, order)), n < m
    PROVE  <<Sorted(S, order)[n], Sorted(S, order)[m]>> \in order
<1> DEFINE sorted == Sorted(S, order)
           rank == [x \in S |-> Cardinality(Before(S, order, x))]
           x == sorted[n]
           y == sorted[m]
<1>1. /\ sorted \in Seq(S)
      /\ \A k \in 1 .. Len(sorted) : Cardinality(Before(S, order, sorted[k])) = k - 1
  BY SortedEnumerates
<1> HIDE DEF sorted
<1>2. x \in S /\ y \in S /\ rank[x] = n - 1 /\ rank[y] = m - 1
  BY <1>1 DEF sorted
<1> HIDE DEF x, y
<1>3. rank[x] < rank[y]
  BY <1>1, <1>2 DEF sorted
<1>4. x # y
  BY <1>2, <1>3
<1>5. ~ (rank[y] < rank[x])
  <2> HIDE DEF rank
  <2> QED BY <1>1, <1>2, <1>3
<1>6. <<y, x>> \notin order
  <2> SUFFICES ASSUME <<y, x>> \in order PROVE FALSE
    OBVIOUS
  <2>1. Cardinality(Before(S, order, y)) < Cardinality(Before(S, order, x))
    BY <1>2, RanksDiffer
  <2> QED BY <1>2, <1>5, <2>1
<1>7. <<x, y>> \in order
  BY <1>2, <1>4, <1>6 DEF StrictOrder
<1> QED BY <1>7 DEF x, y, sorted

\* Choosing on keeps what is first.
LEMMA FirstStays ==
    ASSUME NEW S, NEW before \in Seq(S), before # <<>>, NEW ranked \in Seq(S), NEW limit, NEW clashes
    PROVE  /\ Chosen(before, ranked, limit, clashes) \in Seq(S)
           /\ Chosen(before, ranked, limit, clashes) # <<>>
           /\ Chosen(before, ranked, limit, clashes)[1] = before[1]
<1> PICK f : Unfolding(f, before, ranked, limit, clashes)
  <2>1. Len(ranked) \in Nat
    OBVIOUS
  <2> QED BY <2>1, ChosenUnfolds
<1>1. /\ f[0] = before
      /\ \A n \in 1 .. Len(ranked) : f[n] = Extended(f[n - 1], ranked[n], limit, clashes)
      /\ Chosen(before, ranked, limit, clashes) = f[Len(ranked)]
  BY DEF Unfolding
<1> DEFINE last == Len(ranked)
           Begins(so) == so \in Seq(S) /\ so # <<>> /\ so[1] = before[1]
           G == {n \in 0 .. last : Begins(f[n])}
<1>2. last \in Nat /\ \A n \in 1 .. last : ranked[n] \in S
  OBVIOUS
<1>3. ASSUME NEW k \in 1 .. last, k - 1 \in G PROVE k \in G
  <2> DEFINE so == f[k - 1]
             x == ranked[k]
  <2>1. f[k] \in {so, Append(so, x)}
    BY <1>1 DEF Extended
  <2>2. so \in Seq(S) /\ so # <<>> /\ so[1] = before[1] /\ x \in S
    BY <1>2, <1>3
  <2> HIDE DEF so, x
  <2>3. /\ Append(so, x) \in Seq(S) /\ Append(so, x) # <<>>
        /\ Append(so, x)[1] = so[1]
    BY <2>2
  <2>4. Begins(f[k])
    BY <2>1, <2>2, <2>3
  <2> QED BY <2>4
<1>4. G = 0 .. last
  <2>1. G \in SUBSET (0 .. last) /\ 0 \in G
    BY <1>1, <1>2
  <2> HIDE DEF G
  <2> QED BY <1>2, <1>3, <2>1, UpTo
<1>5. Begins(f[last])
  BY <1>2, <1>4
<1> QED BY <1>1, <1>5

\* The first of a ranking is chosen first.
LEMMA FirstIsChosen ==
    ASSUME NEW S, NEW ranked \in Seq(S), ranked # <<>>, NEW limit \in Nat \ {0}, NEW clashes
    PROVE  LET so == Chosen(<<>>, ranked, limit, clashes)
           IN  so \in Seq(S) /\ so # <<>> /\ so[1] = ranked[1]
<1> PICK f : Unfolding(f, <<>>, ranked, limit, clashes)
  <2>1. Len(ranked) \in Nat
    OBVIOUS
  <2> QED BY <2>1, ChosenUnfolds
<1>1. /\ f[0] = <<>>
      /\ \A n \in 1 .. Len(ranked) : f[n] = Extended(f[n - 1], ranked[n], limit, clashes)
      /\ Chosen(<<>>, ranked, limit, clashes) = f[Len(ranked)]
  BY DEF Unfolding
<1> DEFINE last == Len(ranked)
           Begins(so) == so \in Seq(S) /\ so # <<>> /\ so[1] = ranked[1]
           G == {n \in 0 .. last : n = 0 \/ Begins(f[n])}
<1>2. last \in Nat /\ last >= 1 /\ \A n \in 1 .. last : ranked[n] \in S
  OBVIOUS
<1>3. ASSUME NEW k \in 1 .. last, k - 1 \in G PROVE k \in G
  <2>1. f[k] = Extended(f[k - 1], ranked[k], limit, clashes) /\ ranked[k] \in S
    BY <1>1, <1>2
  <2>2. CASE k = 1
    <3>1. f[1] = Append(<<>>, ranked[1])
      <4>1. Len(<<>>) = 0 /\ DOMAIN <<>> = {} /\ 0 < limit /\ k - 1 = 0
        BY <2>2
      <4>2. f[1] = Extended(<<>>, ranked[1], limit, clashes)
        BY <1>1, <2>1, <2>2, <4>1
      <4> QED BY <4>1, <4>2 DEF Extended
    <3>2. Begins(f[1])
      BY <1>2, <2>1, <2>2, <3>1
    <3> QED BY <1>2, <2>2, <3>2
  <2>3. CASE k # 1
    <3>1. Begins(f[k - 1])
      BY <1>3, <2>3
    <3> DEFINE so == f[k - 1]
               x == ranked[k]
    <3>2. f[k] \in {so, Append(so, x)}
      BY <2>1 DEF Extended
    <3>3. so \in Seq(S) /\ so # <<>> /\ so[1] = ranked[1] /\ x \in S
      BY <2>1, <3>1
    <3> HIDE DEF so, x
    <3>4. /\ Append(so, x) \in Seq(S) /\ Append(so, x) # <<>>
          /\ Append(so, x)[1] = so[1]
      BY <3>3
    <3>5. Begins(f[k])
      BY <3>2, <3>3, <3>4
    <3> QED BY <3>5
  <2> QED BY <2>2, <2>3
<1>4. G = 0 .. last
  <2>1. G \in SUBSET (0 .. last) /\ 0 \in G
    BY <1>2
  <2> HIDE DEF G
  <2> QED BY <1>2, <1>3, <2>1, UpTo
<1>5. Begins(f[last])
  BY <1>2, <1>4
<1> QED BY <1>1, <1>5

-----------------------------------------------------------------------------
(* The order of anchors. *)

\* Fractions with positive denominators are ordered by their products across.
LEMMA ProductsKeepOrder ==
    ASSUME NEW a \in Int, NEW b \in Int, NEW c \in Int, c > 0
    PROVE  a < b <=> c * a < c * b
  OBVIOUS

LEMMA FractionsOrdered ==
    ASSUME NEW a \in Int, NEW b \in Int, NEW c \in Int,
           NEW p \in Int, NEW q \in Int, NEW r \in Int, p > 0, q > 0, r > 0
    PROVE  /\ a * q > b * p /\ b * r >= c * q => a * r > c * p
           /\ a * q >= b * p /\ b * r > c * q => a * r > c * p
           /\ a * q = b * p /\ b * r = c * q => a * r = c * p
<1> DEFINE x == r * (a * q)
           y == r * (b * p)
           z == p * (c * q)
           v == q * (a * r)
           w == q * (c * p)
<1>1. /\ x \in Int /\ y \in Int /\ z \in Int /\ v \in Int /\ w \in Int
      /\ a * q \in Int /\ b * p \in Int /\ b * r \in Int /\ c * q \in Int /\ a * r \in Int /\ c * p \in Int
  OBVIOUS
<1>2. x = v /\ y = p * (b * r) /\ z = w
  OBVIOUS
<1>3. (a * q < b * p <=> x < y) /\ (b * p < a * q <=> y < x)
  BY <1>1, ProductsKeepOrder
<1>4. (b * r < c * q <=> y < z) /\ (c * q < b * r <=> z < y)
  BY <1>1, <1>2, ProductsKeepOrder
<1>5. (a * r < c * p <=> v < w) /\ (c * p < a * r <=> w < v)
  BY <1>1, ProductsKeepOrder
<1> DEFINE aq == a * q
           bp == b * p
           br == b * r
           cq == c * q
           ar == a * r
           cp == c * p
<1> HIDE DEF x, y, z, v, w, aq, bp, br, cq, ar, cp
<1>6. /\ (aq < bp <=> x < y) /\ (bp < aq <=> y < x)
      /\ (br < cq <=> y < z) /\ (cq < br <=> z < y)
      /\ (ar < cp <=> v < w) /\ (cp < ar <=> w < v)
      /\ x = v /\ z = w
      /\ aq \in Int /\ bp \in Int /\ br \in Int /\ cq \in Int /\ ar \in Int /\ cp \in Int
      /\ x \in Int /\ y \in Int /\ z \in Int /\ v \in Int /\ w \in Int
  BY <1>1, <1>2, <1>3, <1>4, <1>5 DEF aq, bp, br, cq, ar, cp
<1>7. /\ aq > bp /\ br >= cq => ar > cp
      /\ aq >= bp /\ br > cq => ar > cp
      /\ aq = bp /\ br = cq => ar = cp
  BY <1>6
<1> QED BY <1>7 DEF aq, bp, br, cq, ar, cp

\* The window around a cell has that cell at least.
LEMMA WindowSizePositive ==
    ASSUME NEW c \in Cells, NEW radius \in Nat
    PROVE  WindowSize(c, radius) \in Int /\ WindowSize(c, radius) > 0
<1> DEFINE width == Right(c, radius) - Left(c, radius) + 1
           height == Bottom(c, radius) - Top(c, radius) + 1
<1>1. c[1] \in 0 .. Width - 1 /\ c[2] \in 0 .. Height - 1 /\ Width \in Nat /\ Height \in Nat
  BY GridSize DEF Cells
<1>2. width \in Int /\ width > 0 /\ height \in Int /\ height > 0
  BY <1>1 DEF Left, Right, Top, Bottom, AtLeast, AtMost
<1> HIDE DEF width, height
<1>3. width * height \in Int /\ width * height > 0
  BY <1>2
<1> QED BY <1>3 DEF WindowSize, width, height

LEMMA AnchorScoreIsNumber ==
    ASSUME NEW grid, NEW preferences \in Weighted, NEW c \in Cells
    PROVE  AnchorScore(grid, preferences, c) \in Int
<1> DEFINE size == WindowSize(c, NearBuilt)
           built == OfClass(grid, {"built"})
<1>1. NearBuilt \in Nat
  BY GridAssumption
<1>2. size \in Int
  BY <1>1, WindowSizePositive
<1>3. Exposure(grid, c) \in Int
  <2>1. built \subseteq Cells
    BY DEF OfClass
  <2> HIDE DEF built
  <2>2. Exposure(grid, c) = Cardinality(built \cap Window(c, NearBuilt))
    BY <1>1, <2>1, CountNearIsExact DEF Exposure, built
  <2>3. IsFiniteSet(built \cap Window(c, NearBuilt))
    BY <2>1, CellsFinite, FS_Subset
  <2>4. Cardinality(built \cap Window(c, NearBuilt)) \in Nat
    BY <2>3, FS_CardinalityType
  <2> QED BY <2>2, <2>4
<1>4. Green(grid, c) \in Int /\ Waterfront(grid, c) \in Int
  BY DEF Green, Waterfront
<1>5. /\ preferences.greenery \in Int /\ preferences.waterfront \in Int
      /\ preferences.lowTraffic \in Int
  BY DEF Weighted
<1> HIDE DEF size
<1>6. \A a, b \in Int : a * b \in Int /\ a + b \in Int /\ a - b \in Int
  OBVIOUS
<1>7. /\ (Green(grid, c) * preferences.greenery + Waterfront(grid, c) * preferences.waterfront) * size
            \in Int
      /\ (size - Exposure(grid, c)) * preferences.lowTraffic \in Int
  BY <1>2, <1>3, <1>4, <1>5, <1>6, Zenon
<1> QED BY <1>6, <1>7 DEF AnchorScore, size

\* The order of anchors is one: their fractions decide, then where they are.
AnchorOrder(grid, radius, preferences) ==
    LET candidates == AnchorCandidates(grid, radius, preferences)
        better(c, d) ==
            LET left == AnchorScore(grid, preferences, c) * WindowSize(d, NearBuilt)
                right == AnchorScore(grid, preferences, d) * WindowSize(c, NearBuilt)
            IN  \/ left > right
                \/ left = right /\ (c[2] > d[2] \/ (c[2] = d[2] /\ c[1] < d[1]))
    IN  {p \in candidates \X candidates : better(p[1], p[2])}

LEMMA AnchorsRanked ==
    ASSUME NEW grid, NEW radius, NEW preferences \in Weighted
    PROVE  /\ IsFiniteSet(AnchorCandidates(grid, radius, preferences))
           /\ StrictOrder(AnchorCandidates(grid, radius, preferences),
                          AnchorOrder(grid, radius, preferences))
           /\ RankedAnchors(grid, radius, preferences) =
                Sorted(AnchorCandidates(grid, radius, preferences),
                       AnchorOrder(grid, radius, preferences))
<1> DEFINE candidates == AnchorCandidates(grid, radius, preferences)
           order == AnchorOrder(grid, radius, preferences)
           s(c) == AnchorScore(grid, preferences, c)
           w(c) == WindowSize(c, NearBuilt)
           south(c, d) == c[2] > d[2] \/ (c[2] = d[2] /\ c[1] < d[1])
           better(c, d) == \/ s(c) * w(d) > s(d) * w(c)
                           \/ s(c) * w(d) = s(d) * w(c) /\ south(c, d)
<1>1. candidates \subseteq Cells
  BY DEF AnchorCandidates
<1>2. IsFiniteSet(candidates)
  BY <1>1, CellsFinite, FS_Subset
<1>3. \A c \in candidates : /\ s(c) \in Int /\ w(c) \in Int /\ w(c) > 0
                            /\ c[1] \in Int /\ c[2] \in Int /\ c = <<c[1], c[2]>>
  <2>1. NearBuilt \in Nat
    BY GridAssumption
  <2>2. ASSUME NEW c \in candidates
        PROVE  c \in Cells /\ c[1] \in Int /\ c[2] \in Int /\ c = <<c[1], c[2]>>
    BY <1>1, GridSize DEF Cells
  <2> HIDE DEF candidates
  <2> QED BY <2>1, <2>2, WindowSizePositive, AnchorScoreIsNumber
<1>4. \A c, d \in candidates : <<c, d>> \in order <=> better(c, d)
  BY DEF AnchorOrder
<1>5. RankedAnchors(grid, radius, preferences) = Sorted(candidates, order)
  <2> DEFINE score == [c \in candidates |-> s(c)]
             before(c, d) ==
               LET left == score[c] * w(d)
                   right == score[d] * w(c)
               IN  \/ left > right
                   \/ left = right /\ (c[2] > d[2] \/ (c[2] = d[2] /\ c[1] < d[1]))
  <2>1. RankedAnchors(grid, radius, preferences)
           = Sorted(candidates, {p \in candidates \X candidates : before(p[1], p[2])})
    BY DEF RankedAnchors
  <2>2. order = {p \in candidates \X candidates : better(p[1], p[2])}
    BY DEF AnchorOrder
  <2>3. \A c \in candidates : score[c] = s(c)
    OBVIOUS
  <2>4. \A p \in candidates \X candidates : before(p[1], p[2]) <=> better(p[1], p[2])
    <3> HIDE DEF candidates, s, w, score
    <3>1. \A p \in candidates \X candidates : score[p[1]] = s(p[1]) /\ score[p[2]] = s(p[2])
      BY <2>3
    <3> QED BY <3>1, Zenon
  <2>5. order = {p \in candidates \X candidates : before(p[1], p[2])}
    <3> HIDE DEF candidates, order, before, better
    <3> QED BY <2>2, <2>4
  <2> QED BY <2>1, <2>5
<1>6. StrictOrder(candidates, order)
  <2> HIDE DEF candidates, order, s, w
  <2>1. ASSUME NEW c \in candidates PROVE <<c, c>> \notin order
    <3>1. s(c) * w(c) \in Int /\ ~ south(c, c)
      BY <1>3
    <3>2. ~ (s(c) * w(c) > s(c) * w(c))
      BY <3>1
    <3> QED BY <1>4, <3>1, <3>2
  <2>2. ASSUME NEW c \in candidates, NEW d \in candidates, NEW e \in candidates,
               <<c, d>> \in order, <<d, e>> \in order
        PROVE  <<c, e>> \in order
    <3> DEFINE cd == s(c) * w(d)
               dc == s(d) * w(c)
               de == s(d) * w(e)
               ed == s(e) * w(d)
               ce == s(c) * w(e)
               ec == s(e) * w(c)
    <3>1. /\ s(c) \in Int /\ s(d) \in Int /\ s(e) \in Int
          /\ w(c) \in Int /\ w(d) \in Int /\ w(e) \in Int /\ w(c) > 0 /\ w(d) > 0 /\ w(e) > 0
      BY <1>3
    <3>2. /\ cd \in Int /\ dc \in Int /\ de \in Int /\ ed \in Int /\ ce \in Int /\ ec \in Int
      BY <3>1
    <3>3. /\ cd > dc /\ de >= ed => ce > ec
          /\ cd >= dc /\ de > ed => ce > ec
          /\ cd = dc /\ de = ed => ce = ec
      <4> DEFINE a == s(c)   b == s(d)   f == s(e)
                 p == w(c)   q == w(d)   r == w(e)
      <4>1. /\ a \in Int /\ b \in Int /\ f \in Int /\ p \in Int /\ q \in Int /\ r \in Int
            /\ p > 0 /\ q > 0 /\ r > 0
        BY <3>1
      <4> HIDE DEF a, b, f, p, q, r
      <4>2. /\ a * q > b * p /\ b * r >= f * q => a * r > f * p
            /\ a * q >= b * p /\ b * r > f * q => a * r > f * p
            /\ a * q = b * p /\ b * r = f * q => a * r = f * p
        BY <4>1, FractionsOrdered
      <4> QED BY <4>2 DEF a, b, f, p, q, r
    <3>4. (cd > dc \/ (cd = dc /\ south(c, d))) /\ (de > ed \/ (de = ed /\ south(d, e)))
      BY <1>4, <2>2
    <3>5. south(c, d) /\ south(d, e) => south(c, e)
      BY <1>3
    <3> HIDE DEF cd, dc, de, ed, ce, ec, south
    <3>6. ce > ec \/ (ce = ec /\ south(c, e))
      BY <3>2, <3>3, <3>4, <3>5
    <3> QED BY <1>4, <3>6 DEF ce, ec
  <2>3. ASSUME NEW c \in candidates, NEW d \in candidates, c # d
        PROVE  <<c, d>> \in order \/ <<d, c>> \in order
    <3> DEFINE cd == s(c) * w(d)
               dc == s(d) * w(c)
    <3>1. cd \in Int /\ dc \in Int
      BY <1>3
    <3>2. south(c, d) \/ south(d, c)
      BY <1>3, <2>3
    <3> HIDE DEF cd, dc, south
    <3>3. cd > dc \/ dc > cd \/ (cd = dc /\ (south(c, d) \/ south(d, c)))
      BY <3>1, <3>2
    <3>4. better(c, d) \/ better(d, c)
      BY <3>3 DEF cd, dc
    <3> QED BY <1>4, <3>4
  <2> QED BY <2>1, <2>2, <2>3 DEF StrictOrder
<1> QED BY <1>2, <1>5, <1>6

\* How far two cells are apart does not depend on which is named first.
LEMMA ApartSymmetric ==
    ASSUME NEW c, NEW d, c[1] \in Int, c[2] \in Int, d[1] \in Int, d[2] \in Int
    PROVE  Apart(c, d) \in Int /\ Apart(c, d) = Apart(d, c)
<1> DEFINE x == c[1] - d[1]
           y == c[2] - d[2]
<1>1. x \in Int /\ y \in Int /\ d[1] - c[1] = -x /\ d[2] - c[2] = -y
  OBVIOUS
<1>2. \A u \in Int : u * u \in Int /\ (-u) * (-u) = u * u
  OBVIOUS
<1>3. Apart(c, d) = 4 * (x * x + y * y) /\ Apart(d, c) = 4 * ((-x) * (-x) + (-y) * (-y))
  BY <1>1 DEF Apart
<1> HIDE DEF x, y
<1>4. x * x \in Int /\ y * y \in Int
  BY <1>1, <1>2
<1> QED BY <1>1, <1>2, <1>3, <1>4

\* The anchors of candidates: no two are closer than they should be, and one that is left out
\* has a better one too close to it, or as many better ones as were asked for.
THEOREM AnchorsAreBest ==
    ASSUME NEW grid, NEW preferences \in Weighted, NEW search,
           search.limit \in Nat, search.separation \in Int
    PROVE  AnchorsBest(grid, search, preferences)
<1> DEFINE radius == search.radius
           limit == search.limit
           candidates == AnchorCandidates(grid, radius, preferences)
           order == AnchorOrder(grid, radius, preferences)
           ranked == RankedAnchors(grid, radius, preferences)
           close == {p \in Cells \X Cells : Apart(p[1], p[2]) < search.separation}
           list == RankWorldCoverAnchors(grid, radius, limit, search.separation, preferences)
           chosen == {list[n] : n \in DOMAIN list}
           s(c) == AnchorScore(grid, preferences, c)
           w(c) == WindowSize(c, NearBuilt)
           better(c) == {d \in chosen : s(d) * w(c) >= s(c) * w(d)}
<1>1. candidates \subseteq Cells
  BY DEF AnchorCandidates
<1>2. /\ IsFiniteSet(candidates) /\ StrictOrder(candidates, order)
      /\ ranked = Sorted(candidates, order)
  BY AnchorsRanked
<1>3. ranked \in Seq(candidates) /\ First(ranked, Len(ranked)) = candidates
  BY <1>2, SortedEnumerates
<1>4. \A n, m \in 1 .. Len(ranked) : n < m => <<ranked[n], ranked[m]>> \in order
  BY <1>2, SortedOrdered
<1>5. list = Chosen(<<>>, ranked, limit, close)
  BY DEF RankWorldCoverAnchors
<1>6. \A c, d \in candidates : <<c, d>> \in order => s(c) * w(d) >= s(d) * w(c)
  <2>1. ASSUME NEW c \in candidates, NEW d \in candidates, <<c, d>> \in order
        PROVE  s(c) * w(d) >= s(d) * w(c)
    <3>1. s(c) * w(d) > s(d) * w(c) \/ s(c) * w(d) = s(d) * w(c)
      BY <2>1 DEF AnchorOrder
    <3>2. NearBuilt \in Nat /\ c \in Cells /\ d \in Cells
      BY <1>1, GridAssumption
    <3>3. s(c) \in Int /\ s(d) \in Int /\ w(c) \in Int /\ w(d) \in Int
      BY <3>2, AnchorScoreIsNumber, WindowSizePositive
    <3>4. s(c) * w(d) \in Int /\ s(d) * w(c) \in Int
      <4> HIDE DEF s, w
      <4> QED BY <3>3
    <3> QED BY <3>1, <3>4
  <2> QED BY <2>1
<1>7. \A c, d \in Cells : <<c, d>> \in close <=> Apart(c, d) < search.separation
  OBVIOUS
<1> HIDE DEF candidates, order, ranked, close, list, s, w
<1>8. list \in Seq(candidates) /\ SoFar(list, Len(ranked), <<>>, ranked, limit, close)
  <2>1. <<>> \in Seq(candidates) /\ Len(<<>>) <= limit /\ Clean(<<>>, close) /\ limit \in Nat
    BY DEF Clean
  <2> HIDE DEF limit
  <2> QED BY <1>3, <1>5, <2>1, ChosenSoFar
<1>9. /\ Len(list) \in Nat /\ Len(list) <= limit /\ Clean(list, close)
      /\ DOMAIN list = 1 .. Len(list) /\ \A n \in 1 .. Len(list) : list[n] \in candidates
  BY <1>8 DEF SoFar
<1>10. chosen \subseteq candidates
  BY <1>9
<1>11. IsFiniteSet(chosen) /\ Cardinality(chosen) = Len(list)
  <2>1. list \in [1 .. Len(list) -> chosen]
    BY <1>8, <1>9
  <2>2. \A i, j \in 1 .. Len(list) : list[i] = list[j] => i = j
    <3>1. ASSUME NEW i \in 1 .. Len(list), NEW j \in 1 .. Len(list), i # j PROVE list[i] # list[j]
      <4>1. i < j \/ j < i
        BY <1>9, <3>1
      <4> QED BY <1>9, <4>1 DEF Clean
    <3> QED BY <3>1
  <2>3. list \in Bijection(1 .. Len(list), chosen)
    <3>1. \A c \in chosen : \E n \in 1 .. Len(list) : list[n] = c
      BY <1>9
    <3> HIDE DEF chosen
    <3> QED BY <2>1, <2>2, <3>1 DEF Bijection, Injection, Surjection, IsInjective
  <2>4. IsFiniteSet(1 .. Len(list)) /\ Cardinality(1 .. Len(list)) = Len(list)
    <3> DEFINE size == Len(list)
    <3>1. size \in Nat
      BY <1>9
    <3> HIDE DEF size
    <3>2. Cardinality(1 .. size) = IF 1 > size THEN 0 ELSE size - 1 + 1
      BY <3>1, FS_Interval
    <3>3. IsFiniteSet(1 .. size) /\ Cardinality(1 .. size) = size
      BY <3>1, <3>2, FS_Interval
    <3> QED BY <3>3 DEF size
  <2>5. ExistsBijection(1 .. Len(list), chosen)
    BY <2>3 DEF ExistsBijection
  <2> HIDE DEF chosen
  <2> QED BY <2>4, <2>5, FS_Bijection
<1>12. ASSUME NEW c \in chosen, NEW d \in chosen, c # d
       PROVE  Apart(c, d) >= search.separation
  <2>1. PICK i \in 1 .. Len(list), j \in 1 .. Len(list) : list[i] = c /\ list[j] = d
    BY <1>9
  <2>2. c \in Cells /\ d \in Cells
    BY <1>1, <1>10
  <2>3. <<c, d>> \notin close \/ <<d, c>> \notin close
    <3>1. i < j \/ j < i
      BY <1>9, <1>12, <2>1
    <3> QED BY <1>9, <2>1, <3>1 DEF Clean
  <2>4. c[1] \in Int /\ c[2] \in Int /\ d[1] \in Int /\ d[2] \in Int
    BY <2>2, GridSize DEF Cells
  <2>5. Apart(c, d) \in Int /\ Apart(c, d) = Apart(d, c)
    BY <2>4, ApartSymmetric
  <2>6. ~ (Apart(c, d) < search.separation)
    BY <1>7, <2>2, <2>3, <2>5
  <2> QED BY <2>5, <2>6
<1>13. ASSUME NEW c \in candidates \ chosen
       PROVE  \/ Cardinality(better(c)) = limit
              \/ \E d \in better(c) : Apart(c, d) < search.separation
  <2>1. PICK m \in 1 .. Len(ranked) : ranked[m] = c
    BY <1>3 DEF First
  <2>2. \A i \in 1 .. Len(list) : list[i] \in chosen /\ list[i] # c
    BY <1>9
  <2>3. ASSUME NEW d \in chosen, d \in First(ranked, m) PROVE d \in better(c)
    <3>1. PICK k \in 1 .. m : ranked[k] = d
      BY <2>3 DEF First
    <3>2. k \in 1 .. Len(ranked) /\ k # m
      BY <1>3, <2>1, <2>3, <3>1
    <3>3. <<d, c>> \in order
      BY <1>4, <2>1, <3>1, <3>2
    <3>4. d \in candidates
      BY <1>10
    <3> QED BY <1>6, <3>3, <3>4
  <2>4. CASE \E i \in 1 .. Len(list) : <<list[i], c>> \in close /\ list[i] \in First(ranked, m)
    <3>1. PICK d \in chosen : <<d, c>> \in close /\ d \in First(ranked, m)
      BY <2>2, <2>4
    <3>2. d \in Cells /\ c \in Cells
      BY <1>1, <1>10
    <3>3. Apart(d, c) < search.separation
      BY <1>7, <3>1, <3>2
    <3>4. Apart(c, d) = Apart(d, c)
      <4>1. c[1] \in Int /\ c[2] \in Int /\ d[1] \in Int /\ d[2] \in Int
        BY <3>2, GridSize DEF Cells
      <4> QED BY <4>1, ApartSymmetric
    <3> QED BY <2>3, <3>1, <3>3, <3>4
  <2>5. CASE Len(list) = limit /\ \A i \in 1 .. Len(list) : list[i] \in First(ranked, m)
    <3>1. \A d \in chosen : d \in First(ranked, m)
      BY <1>9, <2>5
    <3>2. better(c) = chosen
      BY <2>3, <3>1
    <3> QED BY <1>11, <2>5, <3>2
  <2>6. \/ \E i \in 1 .. Len(list) : <<list[i], c>> \in close /\ list[i] \in First(ranked, m)
        \/ Len(list) = limit /\ \A i \in 1 .. Len(list) : list[i] \in First(ranked, m)
    <3>1. Len(<<>>) = 0 /\ \A i \in 1 .. Len(list) : ~ (i <= 0) /\ i \in 0 + 1 .. Len(list)
      BY <1>9
    <3> QED BY <1>8, <2>1, <2>2, <3>1 DEF SoFar
  <2> QED BY <2>4, <2>5, <2>6
<1> QED BY <1>9, <1>10, <1>11, <1>12, <1>13
        DEF AnchorsBest, candidates, list, s, w

-----------------------------------------------------------------------------
(* The score, and the route that is kept first. *)

\* Routes as they are rated: shares in per cent, of which some may not be known.
Rated == [id : Nat, distance : Int, green : Unknown .. 100, water : Unknown .. 100,
          built : Unknown .. 100]
Wishes == [greenery : Nat, waterfront : Nat, lowTraffic : Nat, comfort : Nat]

LEMMA ProductsGrow ==
    ASSUME NEW a \in Int, NEW b \in Int, NEW c \in Nat, a <= b
    PROVE  a * c \in Int /\ b * c \in Int /\ a * c <= b * c
  OBVIOUS

\* A route that is nowhere known to be worse scores no less: no share that is missing, no
\* rounding to the range of scores and no weight turns the comparison round.
LEMMA ScoreIsMonotone ==
    ASSUME NEW r \in Rated, NEW s \in Rated, NEW preferences \in Wishes, Target \in Nat,
           AsGood(r, s)
    PROVE  ScenicScore(r, preferences, Target) >= ScenicScore(s, preferences, Target)
<1> DEFINE weights == AtLeast(1, preferences.greenery + preferences.waterfront
                                 + preferences.lowTraffic + preferences.comfort)
           fit(x) == Clamp(100 * Target - 100 * Abs(x.distance - Target), 0, 100 * Target)
           built(x) == Metric(x.built, 100)
           green(x) == Metric(x.green, 0)
           water(x) == Metric(x.water, 0)
           preferred(x) == green(x) * preferences.greenery + water(x) * preferences.waterfront
                         + (100 - built(x)) * preferences.lowTraffic
           sum(x) == 7 * fit(x) * weights + 13 * preferred(x) * Target
                     - 2 * built(x) * Target * weights
           top == 2000 * Target * weights
<1>1. /\ preferences.greenery \in Nat /\ preferences.waterfront \in Nat
      /\ preferences.lowTraffic \in Nat /\ preferences.comfort \in Nat
  BY DEF Wishes
<1>2. /\ r.distance \in Int /\ r.green \in -1 .. 100 /\ r.water \in -1 .. 100 /\ r.built \in -1 .. 100
      /\ s.distance \in Int /\ s.green \in -1 .. 100 /\ s.water \in -1 .. 100 /\ s.built \in -1 .. 100
  BY DEF Rated, Unknown
<1>3. weights \in Nat
  BY <1>1 DEF AtLeast
<1>4. fit(r) \in Int /\ fit(s) \in Int /\ fit(s) <= fit(r)
  <2> DEFINE a == Abs(r.distance - Target)
             b == Abs(s.distance - Target)
  <2>1. a \in Int /\ b \in Int /\ a <= b
    BY <1>2 DEF AsGood, Abs, AtLeast
  <2> HIDE DEF a, b
  <2>2. /\ Clamp(100 * Target - 100 * a, 0, 100 * Target) \in Int
        /\ Clamp(100 * Target - 100 * b, 0, 100 * Target) \in Int
        /\ Clamp(100 * Target - 100 * b, 0, 100 * Target) <= Clamp(100 * Target - 100 * a, 0, 100 * Target)
    BY <2>1 DEF Clamp, AtLeast, AtMost
  <2> QED BY <2>2 DEF a, b
<1>5. built(r) \in 0 .. 100 /\ built(s) \in 0 .. 100 /\ built(r) <= built(s)
  BY <1>2 DEF AsGood, Metric, Unknown
<1>6. green(r) \in Int /\ green(s) \in Int /\ green(s) <= green(r)
  BY <1>2 DEF AsGood, Metric, Unknown
<1>7. water(r) \in Int /\ water(s) \in Int /\ water(s) <= water(r)
  BY <1>2 DEF AsGood, Metric, Unknown
<1> HIDE DEF weights, fit, built, green, water
<1>8. preferred(r) \in Int /\ preferred(s) \in Int /\ preferred(s) <= preferred(r)
  <2> DEFINE g(x) == green(x) * preferences.greenery
             v(x) == water(x) * preferences.waterfront
             q(x) == (100 - built(x)) * preferences.lowTraffic
  <2>1. g(r) \in Int /\ g(s) \in Int /\ g(s) <= g(r)
    BY <1>1, <1>6, ProductsGrow
  <2>2. v(r) \in Int /\ v(s) \in Int /\ v(s) <= v(r)
    BY <1>1, <1>7, ProductsGrow
  <2>3. 100 - built(r) \in Int /\ 100 - built(s) \in Int /\ 100 - built(s) <= 100 - built(r)
    BY <1>5
  <2>4. q(r) \in Int /\ q(s) \in Int /\ q(s) <= q(r)
    BY <1>1, <2>3, ProductsGrow
  <2>5. preferred(r) = g(r) + v(r) + q(r) /\ preferred(s) = g(s) + v(s) + q(s)
    OBVIOUS
  <2> HIDE DEF g, v, q, preferred
  <2> QED BY <2>1, <2>2, <2>4, <2>5
<1> HIDE DEF preferred
<1>9. sum(r) \in Int /\ sum(s) \in Int /\ sum(s) <= sum(r)
  <2> DEFINE f(x) == 7 * fit(x) * weights
             p(x) == 13 * preferred(x) * Target
             u(x) == 2 * built(x) * Target
             b(x) == 2 * built(x) * Target * weights
  <2>1. 7 * fit(r) \in Int /\ 7 * fit(s) \in Int /\ 7 * fit(s) <= 7 * fit(r)
    BY <1>4
  <2>2. f(r) \in Int /\ f(s) \in Int /\ f(s) <= f(r)
    BY <1>3, <2>1, ProductsGrow
  <2>3. 13 * preferred(r) \in Int /\ 13 * preferred(s) \in Int /\ 13 * preferred(s) <= 13 * preferred(r)
    BY <1>8
  <2>4. p(r) \in Int /\ p(s) \in Int /\ p(s) <= p(r)
    BY <2>3, ProductsGrow
  <2>5. 2 * built(r) \in Int /\ 2 * built(s) \in Int /\ 2 * built(r) <= 2 * built(s)
    BY <1>5
  <2>6. u(r) \in Int /\ u(s) \in Int /\ u(r) <= u(s)
    BY <2>5, ProductsGrow
  <2>7. b(r) = u(r) * weights /\ b(s) = u(s) * weights
    OBVIOUS
  <2> HIDE DEF u
  <2>8. b(r) \in Int /\ b(s) \in Int /\ b(r) <= b(s)
    BY <1>3, <2>6, <2>7, ProductsGrow
  <2>9. sum(r) = f(r) + p(r) - b(r) /\ sum(s) = f(s) + p(s) - b(s)
    OBVIOUS
  <2> HIDE DEF f, p, b, sum
  <2> QED BY <2>2, <2>4, <2>8, <2>9
<1>10. top \in Int
  BY <1>3
<1>11. /\ ScenicScore(r, preferences, Target) = Clamp(sum(r), 0, top)
       /\ ScenicScore(s, preferences, Target) = Clamp(sum(s), 0, top)
  BY DEF ScenicScore, weights, fit, built, green, water, preferred
<1> HIDE DEF sum, top
<1>12. Clamp(sum(s), 0, top) <= Clamp(sum(r), 0, top)
  BY <1>9, <1>10 DEF Clamp, AtLeast, AtMost
<1> QED BY <1>11, <1>12

\* The ranking of routes is by score.
LEMMA BestRouteIsFirst ==
    ASSUME NEW routes \in SUBSET Measured, IsFiniteSet(routes), routes # {},
           \A r, s \in routes : r # s => r.id # s.id,
           NEW preferences \in Weighted, NEW target \in Int
    PROVE  LET ranked == RankedRoutes(routes, preferences, target)
           IN  /\ ranked # <<>> /\ ranked[1] \in routes
               /\ \A r \in routes : ScenicScore(r, preferences, target)
                                      <= ScenicScore(ranked[1], preferences, target)
<1> DEFINE order == RouteOrder(routes, preferences, target)
           ranked == RankedRoutes(routes, preferences, target)
           s(r) == ScenicScore(r, preferences, target)
<1>1. StrictOrder(routes, order) /\ ranked = Sorted(routes, order)
  BY RoutesOrdered
<1>2. ranked \in Seq(routes) /\ First(ranked, Len(ranked)) = routes
  BY <1>1, SortedEnumerates
<1>3. \A n, m \in 1 .. Len(ranked) : n < m => <<ranked[n], ranked[m]>> \in order
  BY <1>1, SortedOrdered
<1>4. \A r \in routes : s(r) \in Int
  BY ScoreIsNumber
<1>5. \A r, t \in routes : <<r, t>> \in order => s(r) >= s(t)
  <2>1. \A r, t \in routes : <<r, t>> \in order => s(r) > s(t) \/ s(r) = s(t)
    BY DEF RouteOrder
  <2> HIDE DEF s, order
  <2> QED BY <1>4, <2>1
<1> HIDE DEF order, ranked, s
<1>6. Len(ranked) >= 1 /\ ranked # <<>> /\ ranked[1] \in routes /\ Len(ranked) \in Nat
  BY <1>2 DEF First
<1>7. ASSUME NEW r \in routes PROVE s(r) <= s(ranked[1])
  <2>1. PICK m \in 1 .. Len(ranked) : ranked[m] = r
    BY <1>2 DEF First
  <2>2. CASE m = 1
    BY <1>4, <1>6, <2>1, <2>2
  <2>3. CASE m # 1
    <3>1. <<ranked[1], r>> \in order
      BY <1>3, <1>6, <2>1, <2>3
    <3> QED BY <1>4, <1>5, <1>6, <3>1
  <2> QED BY <2>2, <2>3
<1> QED BY <1>6, <1>7 DEF ranked, s

\* The first route kept is as good as any that is nowhere worse, whatever shares are missing.
THEOREM FirstRouteIsBest ==
    ASSUME NEW routes \in SUBSET Rated, IsFiniteSet(routes),
           \A r, s \in routes : r # s => r.id # s.id,
           NEW preferences \in Wishes, Target \in Nat, NEW limit \in Nat \ {0},
           NEW overlap, NEW maxOverlap
    PROVE  FirstBest(routes, limit, overlap, maxOverlap, preferences)
<1> DEFINE ranked == RankedRoutes(routes, preferences, Target)
           first == Chosen(<<>>, ranked, limit, Alike(routes, overlap, maxOverlap))
           list == SelectDiverseRoutes(routes, limit, overlap, maxOverlap, preferences, Target)
<1> SUFFICES ASSUME routes # {}
             PROVE  /\ list # <<>>
                    /\ \A r \in routes : AsGood(r, list[1]) =>
                          ScenicScore(r, preferences, Target) = ScenicScore(list[1], preferences, Target)
  BY DEF FirstBest
<1>1. routes \in SUBSET Measured /\ preferences \in Weighted
  <2>1. \A r \in Rated : r \in Measured
    BY DEF Rated, Measured, Unknown
  <2>2. preferences \in Weighted
    BY DEF Wishes, Weighted
  <2> QED BY <2>1, <2>2
<1>2. /\ ranked # <<>> /\ ranked[1] \in routes
      /\ \A r \in routes : ScenicScore(r, preferences, Target)
                             <= ScenicScore(ranked[1], preferences, Target)
  BY <1>1, BestRouteIsFirst
<1>3. ranked \in Seq(routes)
  BY <1>1, RanksEveryRoute
<1>4. list = Chosen(first, ranked, limit, Alike(routes, overlap, 98))
  BY DEF SelectDiverseRoutes
<1> HIDE DEF ranked, list
<1>5. first # <<>> /\ first[1] = ranked[1] /\ first \in Seq(routes)
  BY <1>2, <1>3, FirstIsChosen
<1> HIDE DEF first
<1>6. list # <<>> /\ list[1] = ranked[1]
  BY <1>2, <1>3, <1>4, <1>5, FirstStays
<1>7. ASSUME NEW r \in routes, AsGood(r, list[1])
      PROVE  ScenicScore(r, preferences, Target) = ScenicScore(list[1], preferences, Target)
  <2>1. list[1] \in Rated /\ r \in Rated /\ list[1] \in Measured /\ r \in Measured
    BY <1>1, <1>2, <1>6
  <2>2. ScenicScore(r, preferences, Target) >= ScenicScore(list[1], preferences, Target)
    BY <1>7, <2>1, ScoreIsMonotone
  <2>3. ScenicScore(r, preferences, Target) <= ScenicScore(list[1], preferences, Target)
    BY <1>2, <1>6
  <2>4. /\ ScenicScore(r, preferences, Target) \in Int
        /\ ScenicScore(list[1], preferences, Target) \in Int
    BY <1>1, <2>1, ScoreIsNumber
  <2> QED BY <2>2, <2>3, <2>4
<1> QED BY <1>6, <1>7

\* What a step of the plan chooses is the best that distances and overlaps allow, for inputs
\* of any number and size: any grids, searches, preferences and finite sets of routes.
THEOREM ChoicesAreBest ==
    ASSUME Preferences \subseteq Wishes, Target \in Nat,
           \A search \in Searches : search.limit \in Nat /\ search.separation \in Int,
           \A routes \in RouteSets :
              /\ routes \subseteq Rated /\ IsFiniteSet(routes)
              /\ \A r, s \in routes : r # s => r.id # s.id
              /\ \A overlap \in Overlaps : \A r, s \in routes : overlap[<<r.id, s.id>>] \in Int,
           \A most \in MaxOverlaps : most \in Int /\ most <= 98
    PROVE  Spec => ChoicesBest
<1>1. AnchorChoicesBest
  <2>1. \A preferences \in Preferences : preferences \in Weighted
    BY DEF Wishes, Weighted
  <2> QED BY <2>1, AnchorsAreBest DEF AnchorChoicesBest
<1>2. RouteChoicesBest
  <2>1. ASSUME NEW routes \in RouteSets, NEW overlap \in Overlaps, NEW most \in MaxOverlaps,
               NEW preferences \in Preferences, NEW limit \in 1 .. Cardinality(routes)
        PROVE  /\ SelectionMaximal(routes, limit, overlap, most, preferences, Target)
               /\ FirstBest(routes, limit, overlap, most, preferences)
    <3>1. /\ routes \in SUBSET Rated /\ IsFiniteSet(routes) /\ preferences \in Wishes
          /\ \A r, s \in routes : r # s => r.id # s.id
          /\ \A r, s \in routes : overlap[<<r.id, s.id>>] \in Int
          /\ most \in Int /\ most <= 98
      BY <2>1
    <3>2. limit \in Nat \ {0}
      BY <3>1, FS_CardinalityType
    <3>3. routes \in SUBSET Measured /\ preferences \in Weighted /\ Target \in Int
      <4>1. \A r \in Rated : r \in Measured
        BY DEF Rated, Measured, Unknown
      <4>2. preferences \in Weighted
        BY <3>1 DEF Wishes, Weighted
      <4> QED BY <3>1, <4>1, <4>2
    <3>4. SelectionMaximal(routes, limit, overlap, most, preferences, Target)
      BY <3>1, <3>2, <3>3, SelectionIsMaximal
    <3>5. FirstBest(routes, limit, overlap, most, preferences)
      BY <3>1, <3>2, FirstRouteIsBest
    <3> QED BY <3>4, <3>5
  <2> QED BY <2>1 DEF RouteChoicesBest
<1>3. [/\ stage' = "route" => AnchorChoicesBest
       /\ outcome' \in Successes => RouteChoicesBest]_vars
  BY <1>1, <1>2
<1> QED BY <1>3, PTL DEF ChoicesBest
=============================================================================
