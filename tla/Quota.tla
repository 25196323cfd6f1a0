------------------------------- MODULE Quota -------------------------------
(***************************************************************************)
(* The two limits of one process.  FixedWindowRateLimiter keeps a map of    *)
(* windows, one per scope and client, of bounded size; the handler refuses  *)
(* with 429 and Retry-After.  The AMap client keeps one window for the GETs *)
(* of all plans (a plan's own budget is part of RouteSearch).  Both are     *)
(* synchronous, so that an action is one call.                              *)
(*                                                                         *)
(* now      the clock, in units of which Second make a second               *)
(* log      history: per subject, when it was admitted, and when the window *)
(*          of that admission was opened                                    *)
(* retryAt  history: per subject, the time its last refusal named, or None   *)
(*          once it is admitted                                             *)
(***************************************************************************)
EXTENDS Integers, Sequences, FiniteSets

CONSTANTS
    Keys,               \* storage keys: a scope with a client
    AMap,               \* the window of the AMap client
    Maximum,            \* limits[scope].maximum; maxAttemptsPerMinute for AMap
    WindowMs,           \* limits[scope].windowMs; a minute for AMap
    MaxEntries,
    Second,
    MaxTime             \* bound: the clock

Subjects == Keys \cup {AMap}

ASSUME ConstantsAssumption ==
    /\ IsFiniteSet(Keys) /\ AMap \notin Keys
    /\ Maximum \in [Subjects -> Nat \ {0}]
    /\ WindowMs \in [Subjects -> Nat \ {0}]
    /\ MaxEntries \in Nat \ {0}
    /\ Second \in Nat \ {0}
    /\ MaxTime \in Nat

VARIABLES windows, attemptWindow, now, log, retryAt

vars == <<windows, attemptWindow, now, log, retryAt>>

None == -1

Entries == DOMAIN windows
Live(w, t) == w.resetsAt > t

TypeOK ==
    /\ Entries \subseteq Keys
    /\ \A k \in Entries : windows[k] \in [count : 1 .. Maximum[k], resetsAt : Nat]
    /\ Cardinality(Entries) <= MaxEntries
    /\ attemptWindow \in [count : 0 .. Maximum[AMap], resetsAt : Nat]
    /\ now \in Nat
    /\ log \in [Subjects -> Seq([at : Nat, opened : Nat])]
    /\ retryAt \in [Subjects -> Nat \cup {None}]

Init ==
    /\ windows = [k \in {} |-> None]
    /\ attemptWindow = [count |-> 0, resetsAt |-> 0]
    /\ now = 0
    /\ log = [s \in Subjects |-> <<>>]
    /\ retryAt = [s \in Subjects |-> None]

Opened(s) == [count |-> 0, resetsAt |-> now + WindowMs[s]]
Counted(w) == [w EXCEPT !.count = @ + 1]

\* The history of an admission into window w, and of a refusal.
Admitted(s, w) ==
    /\ log' = [log EXCEPT ![s] = Append(@, [at |-> now, opened |-> w.resetsAt - WindowMs[s]])]
    /\ retryAt' = [retryAt EXCEPT ![s] = None]
Refused(s, t) ==
    /\ retryAt' = [retryAt EXCEPT ![s] = t]
    /\ UNCHANGED log

-----------------------------------------------------------------------------
(* The rate limiter. *)

\* Mutant: pruning drops the windows that still run as well.
PruneAll(t) == [k \in {} |-> windows[k]]
\* Mutant: a window is still there at the end of its time.
PruneLate(t) == [k \in {x \in Entries : windows[x].resetsAt >= t} |-> windows[k]]
Prune(t) == [k \in {x \in Entries : Live(windows[x], t)} |-> windows[k]]

\* The map that consume goes on with when the window of its key is over or missing:
\* only a full map is pruned.
Roomy == IF Cardinality(Entries) >= MaxEntries THEN Prune(now) ELSE windows

\* Mutant: the size is not checked again after pruning.
NeverFull(k) == FALSE
Full(k) == Cardinality(DOMAIN Roomy) >= MaxEntries /\ k \notin DOMAIN Roomy

Running(k) == k \in Entries /\ Live(windows[k], now)

\* Mutant: rounded down, and so possibly before the window is over.
RetryAfterFloor(w) == IF w.resetsAt - now < Second THEN 1 ELSE (w.resetsAt - now) \div Second
\* Math.max(1, Math.ceil(...)); the window is running.
RetryAfterSeconds(w) == (w.resetsAt - now + Second - 1) \div Second

\* Mutant: one admission too many.
AtMaximumLate(s, w) == w.count > Maximum[s]
AtMaximum(s, w) == w.count >= Maximum[s]

\* consume for a key whose window runs.
ConsumeRunning(k) ==
    LET w == windows[k]
    IN  /\ Running(k)
        /\ \/ /\ AtMaximum(k, w)
              /\ Refused(k, now + RetryAfterSeconds(w) * Second)
              /\ UNCHANGED windows
           \/ /\ ~AtMaximum(k, w)
              /\ windows' = [windows EXCEPT ![k] = Counted(w)]
              /\ Admitted(k, w)
        /\ UNCHANGED <<attemptWindow, now>>

\* consume for a key without a running window: a new one, if the map has room.
ConsumeNew(k) ==
    /\ ~Running(k)
    /\ \/ /\ Full(k)
          /\ windows' = Roomy
          /\ Refused(k, now + Second)
       \/ /\ ~Full(k)
          /\ windows' = [x \in DOMAIN Roomy \cup {k} |->
                            IF x = k THEN Counted(Opened(k)) ELSE Roomy[x]]
          /\ Admitted(k, Opened(k))
    /\ UNCHANGED <<attemptWindow, now>>

-----------------------------------------------------------------------------
(* The AMap client. *)

\* consumeAttemptBudgets, called by a plan whose own budget is not used up.
Attempt ==
    LET w == IF Live(attemptWindow, now) THEN attemptWindow ELSE Opened(AMap)
    IN  /\ \/ /\ AtMaximum(AMap, w)
              /\ attemptWindow' = w
              /\ Refused(AMap, now)
           \/ /\ ~AtMaximum(AMap, w)
              /\ attemptWindow' = Counted(w)
              /\ Admitted(AMap, w)
        /\ UNCHANGED <<windows, now>>

Tick ==
    /\ now < MaxTime
    /\ now' = now + 1
    /\ UNCHANGED <<windows, attemptWindow, log, retryAt>>

Next ==
    \/ \E k \in Keys : ConsumeRunning(k) \/ ConsumeNew(k)
    \/ Attempt
    \/ Tick

Spec == Init /\ [][Next]_vars

-----------------------------------------------------------------------------
(* Properties. *)

Abstract == INSTANCE FixedWindow WITH Limit <- Maximum, Width <- WindowMs

\* The map with its pruning, and the single window of the client, admit exactly what
\* fixed windows that are never forgotten admit.
ImplementsFixedWindow == Abstract!Spec

\* Consequently no client, and no process towards AMap, gets more than twice its limit
\* in any interval of a window's length, also across a reset and with a full map.
RateBounded == Abstract!RateBounded

\* The subjects that were admitted in the window's length before t.
Recent(s, t) == {i \in DOMAIN log[s] : log[s][i].at + WindowMs[s] > t}

\* Nobody is refused who is not at the limit: the refused subject was admitted as often
\* as its limit allows within the last window's length, or as many others as the map
\* holds were admitted within theirs (consume, consumeAttemptBudgets).
RefusalJustified ==
    [][\A s \in Subjects :
        retryAt'[s] # retryAt[s] /\ retryAt'[s] # None =>
            \/ Cardinality(Recent(s, now)) >= Maximum[s]
            \/ /\ s \in Keys
               /\ Cardinality({k \in Keys \ {s} : Recent(k, now) # {}}) >= MaxEntries]_vars

\* Retry-After is honest: a client that comes back at the time it was told is admitted,
\* unless the map is full of running windows of others.
RetryHonoured ==
    [][\A k \in Keys :
        /\ retryAt[k] # None /\ now >= retryAt[k]
        /\ retryAt'[k] # retryAt[k] /\ retryAt'[k] # None
        => Cardinality({x \in Keys \ {k} : Recent(x, now) # {}}) >= MaxEntries]_vars
=============================================================================
