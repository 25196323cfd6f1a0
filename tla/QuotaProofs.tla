----------------------------- MODULE QuotaProofs -----------------------------
(***************************************************************************)
(* Theorems about Quota, for any keys, limits, windows and map size: the     *)
(* limiter and the client implement fixed windows, hence bound the rate,     *)
(* refuse only who is at the limit, and name an honest time.                *)
(***************************************************************************)
EXTENDS Quota, SequenceTheorems, FiniteSetTheorems, TLAPS

Admission == [at : Nat, opened : Nat]

\* What the log of a subject says of the window kept for it: the window's count is the
\* number of the last admissions, they were all given in it, and the others were given
\* in windows that ended before it began.
Counts(s, q, w) ==
    /\ w.count \in 1 .. Len(q)
    /\ \A i \in 1 .. Len(q) :
          IF i > Len(q) - w.count
          THEN q[i].opened + WindowMs[s] = w.resetsAt
          ELSE q[i].opened + 2 * WindowMs[s] <= w.resetsAt

\* A subject of which no window is kept is in none.
Over(s, q, t) == \A i \in 1 .. Len(q) : q[i].opened + WindowMs[s] <= t

LogSound ==
    /\ \A k \in Entries : Counts(k, log[k], windows[k])
    /\ \A k \in Keys \ Entries : Over(k, log[k], now)
    /\ \/ log[AMap] = <<>> /\ attemptWindow = [count |-> 0, resetsAt |-> 0]
       \/ Counts(AMap, log[AMap], attemptWindow)

\* Windows are opened before they admit, and admissions are past.
Stamped ==
    \A s \in Subjects : \A i \in 1 .. Len(log[s]) :
        log[s][i].opened <= log[s][i].at /\ log[s][i].at <= now

\* A refusal while the window runs named no time before its end.
RefusalSound ==
    \A k \in Entries : retryAt[k] # None /\ Running(k) => retryAt[k] >= windows[k].resetsAt

IInv == TypeOK /\ LogSound /\ Stamped /\ RefusalSound

-----------------------------------------------------------------------------
(* One admission, whichever window it belongs to. *)

LEMMA LogFacts ==
    ASSUME NEW q \in Seq(Admission)
    PROVE  /\ Len(q) \in Nat /\ DOMAIN q = 1 .. Len(q)
           /\ \A i \in 1 .. Len(q) : q[i].at \in Nat /\ q[i].opened \in Nat
<1>1. Len(q) \in Nat /\ DOMAIN q = 1 .. Len(q)
  BY LenProperties
<1>2. \A i \in 1 .. Len(q) : q[i] \in Admission
  BY <1>1, ElementOfSeq
<1> QED BY <1>1, <1>2 DEF Admission

\* A window that is over leaves its subject in none.
LEMMA WindowOver ==
    ASSUME NEW s \in Subjects, NEW q \in Seq(Admission), NEW w \in [count : Nat, resetsAt : Nat],
           Counts(s, q, w), NEW t \in Nat, ~Live(w, t)
    PROVE  Over(s, q, t)
<1>1. /\ WindowMs[s] \in Nat \ {0} /\ w.resetsAt \in Nat /\ w.resetsAt <= t
      /\ \A i \in 1 .. Len(q) : q[i].opened \in Nat
  BY ConstantsAssumption, LogFacts DEF Live
<1> SUFFICES ASSUME NEW i \in 1 .. Len(q) PROVE q[i].opened + WindowMs[s] <= t
  BY DEF Over
<1>2. \/ q[i].opened + WindowMs[s] = w.resetsAt
      \/ q[i].opened + 2 * WindowMs[s] <= w.resetsAt
  BY DEF Counts
<1> QED BY <1>1, <1>2

\* An admission to the window kept for the subject is one to the window of its last
\* admission.
LEMMA Joining ==
    ASSUME NEW s \in Subjects, log \in [Subjects -> Seq(Admission)], now \in Nat,
           NEW w \in [count : Nat, resetsAt : Nat],
           Counts(s, log[s], w), Live(w, now), w.count < Maximum[s],
           Admitted(s, w), UNCHANGED now
    PROVE  /\ Abstract!Join(s)
           /\ Counts(s, log'[s], Counted(w))
           /\ w.resetsAt - WindowMs[s] \in Nat
<1> DEFINE q == log[s]
           n == Len(q)
           a == [at |-> now, opened |-> w.resetsAt - WindowMs[s]]
<1>1. /\ q \in Seq(Admission) /\ n \in Nat
      /\ \A i \in 1 .. n : q[i].opened \in Nat
      /\ WindowMs[s] \in Nat \ {0} /\ Maximum[s] \in Nat \ {0}
      /\ w.resetsAt \in Nat /\ w.count \in Nat
  BY ConstantsAssumption, LogFacts
<1>2. /\ w.count \in 1 .. n /\ n \in 1 .. n
      /\ q[n].opened + WindowMs[s] = w.resetsAt
  BY <1>1 DEF Counts
<1>3. w.resetsAt - WindowMs[s] = q[n].opened
  BY <1>1, <1>2
<1>4. a \in Admission /\ w.resetsAt - WindowMs[s] \in Nat
  BY <1>1, <1>2, <1>3 DEF Admission
<1>5. log' = [log EXCEPT ![s] = Append(q, a)]
  BY DEF Admitted
<1>6. /\ log'[s] = Append(q, a) /\ Len(log'[s]) = n + 1
      /\ \A i \in 1 .. n : log'[s][i] = q[i]
      /\ log'[s][n + 1] = a
  BY <1>1, <1>4, <1>5, AppendProperties
<1>7. Abstract!Join(s)
  <2>1. n >= Maximum[s] => q[n - Maximum[s] + 1].opened # q[n].opened
    <3> SUFFICES ASSUME n >= Maximum[s] PROVE q[n - Maximum[s] + 1].opened # q[n].opened
      OBVIOUS
    <3> DEFINE i == n - Maximum[s] + 1
    <3>1. i \in 1 .. n /\ ~(i > n - w.count)
      BY <1>1, <1>2
    <3>2. q[i].opened + 2 * WindowMs[s] <= w.resetsAt /\ q[i].opened \in Nat
      BY <3>1, <1>1 DEF Counts
    <3> HIDE DEF i
    <3>3. q[i].opened # q[n].opened
      BY <3>2, <1>1, <1>2
    <3> QED BY <3>3 DEF i
  <2>2. n > 0 /\ now < q[n].opened + WindowMs[s]
    BY <1>1, <1>2 DEF Live
  <2>3. Abstract!Admitted(s, q[n].opened)
    BY <1>3, <1>5 DEF Abstract!Admitted
  <2> QED BY <2>1, <2>2, <2>3 DEF Abstract!Join
<1>8. Counts(s, log'[s], Counted(w))
  <2>1. Counted(w).count = w.count + 1 /\ Counted(w).resetsAt = w.resetsAt
    BY DEF Counted
  <2>2. ASSUME NEW i \in 1 .. n + 1
        PROVE  IF i > n - w.count
               THEN log'[s][i].opened + WindowMs[s] = w.resetsAt
               ELSE log'[s][i].opened + 2 * WindowMs[s] <= w.resetsAt
    <3>1. CASE i = n + 1
      BY <3>1, <1>1, <1>2, <1>3, <1>6
    <3>2. CASE i # n + 1
      <4>1. i \in 1 .. n /\ log'[s][i] = q[i]
        BY <3>2, <1>1, <1>6
      <4> QED BY <4>1 DEF Counts
    <3> QED BY <3>1, <3>2
  <2> HIDE DEF n, q, a
  <2>3. Len(log'[s]) - Counted(w).count = n - w.count /\ w.count + 1 \in 1 .. n + 1
    BY <2>1, <1>1, <1>2, <1>6
  <2> QED BY <2>1, <2>2, <2>3, <1>6 DEF Counts
<1> QED BY <1>4, <1>7, <1>8

\* An admission of a subject that is in no window opens one.
LEMMA Opening ==
    ASSUME NEW s \in Subjects, log \in [Subjects -> Seq(Admission)], now \in Nat,
           Over(s, log[s], now), Admitted(s, Opened(s)), UNCHANGED now
    PROVE  /\ Abstract!Open(s)
           /\ Counts(s, log'[s], Counted(Opened(s)))
<1> DEFINE q == log[s]
           n == Len(q)
           a == [at |-> now, opened |-> now]
<1>1. /\ q \in Seq(Admission) /\ n \in Nat
      /\ \A i \in 1 .. n : q[i].opened \in Nat
      /\ WindowMs[s] \in Nat \ {0}
      /\ a \in Admission
  BY ConstantsAssumption, LogFacts DEF Admission
<1>2. Opened(s).resetsAt - WindowMs[s] = now
  BY <1>1 DEF Opened
<1>3. log' = [log EXCEPT ![s] = Append(q, a)]
  BY <1>2 DEF Admitted
<1>4. /\ log'[s] = Append(q, a) /\ Len(log'[s]) = n + 1
      /\ \A i \in 1 .. n : log'[s][i] = q[i]
      /\ log'[s][n + 1] = a
  BY <1>1, <1>3, AppendProperties
<1>5. Abstract!Open(s)
  <2>1. Abstract!Admitted(s, now)
    BY <1>3 DEF Abstract!Admitted
  <2>2. q # <<>> => now >= q[n].opened + WindowMs[s]
    <3> SUFFICES ASSUME q # <<>> PROVE now >= q[n].opened + WindowMs[s]
      OBVIOUS
    <3>1. n \in 1 .. n
      BY <1>1, EmptySeq
    <3> QED BY <3>1, <1>1 DEF Over
  <2> QED BY <2>1, <2>2 DEF Abstract!Open
<1>6. Counts(s, log'[s], Counted(Opened(s)))
  <2>1. Counted(Opened(s)).count = 1 /\ Counted(Opened(s)).resetsAt = now + WindowMs[s]
    BY DEF Counted, Opened
  <2>2. \A i \in 1 .. n : log'[s][i].opened + 2 * WindowMs[s] <= now + WindowMs[s]
    <3> SUFFICES ASSUME NEW i \in 1 .. n
                 PROVE  log'[s][i].opened + 2 * WindowMs[s] <= now + WindowMs[s]
      OBVIOUS
    <3>1. q[i].opened + WindowMs[s] <= now /\ q[i].opened \in Nat /\ log'[s][i] = q[i]
      BY <1>1, <1>4 DEF Over
    <3> QED BY <3>1, <1>1
  <2>3. log'[s][n + 1].opened + WindowMs[s] = now + WindowMs[s]
    BY <1>4
  <2> HIDE DEF n, q, a
  <2> QED BY <2>1, <2>2, <2>3, <1>1, <1>4 DEF Counts
<1> QED BY <1>5, <1>6
-----------------------------------------------------------------------------
(* One step. *)

LEMMA TypeFacts ==
    ASSUME TypeOK
    PROVE  /\ log \in [Subjects -> Seq(Admission)] /\ now \in Nat
           /\ \A k \in Entries : k \in Keys /\ windows[k] \in [count : Nat, resetsAt : Nat]
           /\ attemptWindow \in [count : Nat, resetsAt : Nat]
           /\ Keys \subseteq Subjects /\ AMap \in Subjects
           /\ IsFiniteSet(Entries) /\ Cardinality(Entries) \in Nat
<1>1. \A k \in Entries : k \in Keys /\ windows[k] \in [count : Nat, resetsAt : Nat]
  BY ConstantsAssumption DEF TypeOK, Subjects
<1>2. attemptWindow \in [count : Nat, resetsAt : Nat]
  BY ConstantsAssumption DEF TypeOK, Subjects
<1>3. IsFiniteSet(Entries) /\ Cardinality(Entries) \in Nat
  BY ConstantsAssumption, FS_Subset, FS_CardinalityType DEF TypeOK
<1> QED BY <1>1, <1>2, <1>3 DEF TypeOK, Admission, Subjects

\* An admission leaves the logs of the other subjects alone and keeps the stamps.
LEMMA AdmissionFrame ==
    ASSUME NEW s \in Subjects, NEW w, Admitted(s, w), UNCHANGED now,
           log \in [Subjects -> Seq(Admission)], now \in Nat, Stamped,
           w.resetsAt - WindowMs[s] \in Nat, w.resetsAt - WindowMs[s] <= now
    PROVE  /\ log' \in [Subjects -> Seq(Admission)]
           /\ \A t \in Subjects \ {s} : log'[t] = log[t]
           /\ Stamped'
<1> DEFINE a == [at |-> now, opened |-> w.resetsAt - WindowMs[s]]
           n == Len(log[s])
<1>1. a \in Admission /\ log[s] \in Seq(Admission) /\ n \in Nat
  BY LogFacts DEF Admission
<1>2. log' = [log EXCEPT ![s] = Append(log[s], a)]
  BY DEF Admitted
<1>3. /\ log'[s] = Append(log[s], a) /\ log'[s] \in Seq(Admission) /\ Len(log'[s]) = n + 1
      /\ \A i \in 1 .. n : log'[s][i] = log[s][i]
      /\ log'[s][n + 1] = a
  BY <1>1, <1>2, AppendProperties
<1>4. \A t \in Subjects \ {s} : log'[t] = log[t]
  BY <1>2
<1>5. log' \in [Subjects -> Seq(Admission)]
  BY <1>2, <1>3
<1>6. Stamped'
  <2> SUFFICES ASSUME NEW t \in Subjects, NEW i \in 1 .. Len(log'[t])
               PROVE  log'[t][i].opened <= log'[t][i].at /\ log'[t][i].at <= now
    BY DEF Stamped
  <2>1. CASE t # s
    BY <2>1, <1>4 DEF Stamped
  <2>2. CASE t = s /\ i = n + 1
    BY <2>2, <1>3
  <2>3. CASE t = s /\ i # n + 1
    <3>1. i \in 1 .. n
      BY <2>3, <1>1, <1>3
    <3> QED BY <3>1, <2>3, <1>3 DEF Stamped
  <2> QED BY <2>1, <2>2, <2>3
<1> QED BY <1>4, <1>5, <1>6

\* What a step may do: keep the invariant and be a step of the fixed windows.
Good == IInv' /\ [Abstract!Next]_(Abstract!vars)

LEMMA RunningStep ==
    ASSUME IInv, NEW k \in Keys, ConsumeRunning(k)
    PROVE  Good
<1> DEFINE w == windows[k]
<1>1. /\ log \in [Subjects -> Seq(Admission)] /\ now \in Nat /\ now' = now
      /\ k \in Entries /\ w \in [count : Nat, resetsAt : Nat]
      /\ k \in Subjects /\ AMap \in Subjects /\ k # AMap
      /\ w.count \in 1 .. Maximum[k] /\ Live(w, now)
      /\ attemptWindow' = attemptWindow
      /\ Maximum[k] \in Nat \ {0} /\ WindowMs[k] \in Nat \ {0} /\ Second \in Nat \ {0}
  BY TypeFacts, ConstantsAssumption DEF IInv, TypeOK, ConsumeRunning, Running
<1>2. Counts(k, log[k], w)
  BY <1>1 DEF IInv, LogSound
<1>3. CASE AtMaximum(k, w)
  <2>1. /\ retryAt' = [retryAt EXCEPT ![k] = now + RetryAfterSeconds(w) * Second]
        /\ log' = log /\ windows' = windows
    BY <1>3 DEF ConsumeRunning, AtMaximum, Refused
  <2> DEFINE wait == w.resetsAt - now
  <2>2. /\ wait \in Nat \ {0}
        /\ RetryAfterSeconds(w) * Second \in Nat
        /\ RetryAfterSeconds(w) * Second >= wait
    <3>1. wait \in Nat \ {0}
      BY <1>1 DEF Live
    <3>2. ASSUME NEW x \in Nat \ {0}, NEW u \in Nat \ {0}
          PROVE  /\ ((x + u - 1) \div u) * u \in Nat
                 /\ ((x + u - 1) \div u) * u >= x
      <4>1. /\ (x + u - 1) \div u \in Nat /\ (x + u - 1) % u \in 0 .. u - 1
            /\ x + u - 1 = u * ((x + u - 1) \div u) + ((x + u - 1) % u)
        BY <3>2
      <4> QED BY <4>1, <3>2
    <3> QED BY <3>1, <3>2, <1>1 DEF RetryAfterSeconds
  <2> HIDE DEF wait
  <2>3. retryAt'[k] \in Nat /\ retryAt'[k] >= w.resetsAt
    <3>1. now + wait = w.resetsAt /\ w.resetsAt \in Nat
      BY <1>1 DEF wait
    <3>2. retryAt'[k] = now + RetryAfterSeconds(w) * Second
      BY <2>1, <1>1 DEF IInv, TypeOK
    <3> QED BY <3>1, <3>2, <2>2, <1>1
  <2>4. RefusalSound'
    BY <2>1, <2>3, <1>1 DEF IInv, RefusalSound, Running, TypeOK, Entries
  <2>5. TypeOK'
    BY <2>1, <2>3, <1>1 DEF IInv, TypeOK, Entries
  <2> QED BY <2>1, <2>4, <2>5, <1>1
          DEF Good, IInv, LogSound, Stamped, Over, Entries, Abstract!vars
<1>4. CASE ~AtMaximum(k, w)
  <2>1. /\ windows' = [windows EXCEPT ![k] = Counted(w)]
        /\ Admitted(k, w) /\ w.count < Maximum[k]
    BY <1>1, <1>4 DEF ConsumeRunning, AtMaximum
  <2>2. /\ Abstract!Join(k) /\ Counts(k, log'[k], Counted(w))
        /\ w.resetsAt - WindowMs[k] \in Nat
    BY <1>1, <1>2, <2>1, Joining
  <2>3. w.resetsAt - WindowMs[k] <= now
    <3> DEFINE n == Len(log[k])
    <3>1. n \in 1 .. n /\ n > n - w.count
      BY <1>1, <1>2, LogFacts DEF Counts
    <3>2. log[k][n].opened + WindowMs[k] = w.resetsAt
      BY <3>1, <1>2 DEF Counts
    <3>3. log[k][n].opened <= now /\ log[k][n].opened \in Nat
      <4>1. log[k][n].opened <= log[k][n].at /\ log[k][n].at <= now
        BY <3>1, <1>1 DEF IInv, Stamped
      <4>2. log[k][n].opened \in Nat /\ log[k][n].at \in Nat
        BY <3>1, <1>1, LogFacts
      <4> QED BY <4>1, <4>2, <1>1
    <3> HIDE DEF n
    <3> QED BY <3>2, <3>3, <1>1
  <2>4. /\ log' \in [Subjects -> Seq(Admission)]
        /\ \A t \in Subjects \ {k} : log'[t] = log[t]
        /\ Stamped'
    BY <1>1, <2>1, <2>2, <2>3, AdmissionFrame DEF IInv
  <2>5. /\ DOMAIN windows' = Entries /\ windows'[k] = Counted(w)
        /\ \A x \in Entries \ {k} : windows'[x] = windows[x]
    BY <2>1, <1>1 DEF Entries
  <2>6. Counted(w) \in [count : 1 .. Maximum[k], resetsAt : Nat]
    <3>1. w.count + 1 \in 1 .. Maximum[k]
      BY <1>1, <2>1
    <3> HIDE DEF w
    <3> QED BY <3>1, <1>1 DEF Counted
  <2>7. retryAt' = [retryAt EXCEPT ![k] = None]
    BY <2>1 DEF Admitted
  <2>8. TypeOK'
    BY <1>1, <2>4, <2>5, <2>6, <2>7 DEF IInv, TypeOK, Entries, Admission
  <2>9. LogSound'
    BY <1>1, <2>2, <2>4, <2>5 DEF IInv, LogSound, TypeOK, Entries, Subjects
  <2>10. RefusalSound'
    BY <1>1, <2>5, <2>7 DEF IInv, RefusalSound, TypeOK, Running, Entries
  <2> QED BY <2>2, <2>4, <2>8, <2>9, <2>10, <1>1 DEF Good, IInv, Abstract!Next
<1> QED BY <1>3, <1>4

\* What consume goes on with: running windows stay, and a key without one is in none.
LEMMA RoomyFacts ==
    ASSUME IInv
    PROVE  /\ DOMAIN Roomy \subseteq Entries
           /\ \A x \in DOMAIN Roomy : Roomy[x] = windows[x]
           /\ \A x \in Entries \ DOMAIN Roomy : ~Live(windows[x], now)
           /\ Cardinality(DOMAIN Roomy) >= MaxEntries =>
                 \A x \in DOMAIN Roomy : Live(windows[x], now)
           /\ IsFiniteSet(DOMAIN Roomy) /\ Cardinality(DOMAIN Roomy) \in Nat
           /\ Cardinality(DOMAIN Roomy) <= MaxEntries
<1>1. /\ IsFiniteSet(Entries) /\ Cardinality(Entries) \in Nat /\ MaxEntries \in Nat
      /\ Cardinality(Entries) <= MaxEntries
  BY TypeFacts, ConstantsAssumption DEF IInv, TypeOK
<1>2. /\ DOMAIN Roomy \subseteq Entries
      /\ \A x \in DOMAIN Roomy : Roomy[x] = windows[x]
      /\ \A x \in Entries \ DOMAIN Roomy : ~Live(windows[x], now)
      /\ Cardinality(Entries) >= MaxEntries => \A x \in DOMAIN Roomy : Live(windows[x], now)
  BY DEF Roomy, Prune, Entries
<1>3. /\ IsFiniteSet(DOMAIN Roomy) /\ Cardinality(DOMAIN Roomy) \in Nat
      /\ Cardinality(DOMAIN Roomy) <= Cardinality(Entries)
  BY <1>1, <1>2, FS_Subset, FS_CardinalityType
<1> QED BY <1>1, <1>2, <1>3

LEMMA NewStep ==
    ASSUME IInv, NEW k \in Keys, ConsumeNew(k)
    PROVE  Good
<1>1. /\ log \in [Subjects -> Seq(Admission)] /\ now \in Nat /\ now' = now
      /\ k \in Subjects /\ AMap \in Subjects /\ k # AMap
      /\ attemptWindow' = attemptWindow
      /\ Maximum[k] \in Nat \ {0} /\ WindowMs[k] \in Nat \ {0} /\ Second \in Nat \ {0}
      /\ Entries \subseteq Keys
      /\ \A x \in Entries : windows[x] \in [count : Nat, resetsAt : Nat] /\ x \in Subjects
  BY TypeFacts, ConstantsAssumption DEF IInv, TypeOK, ConsumeNew
\* A key outside the roomy map, and k itself, is in no window.
<1>2. \A x \in Keys : x \notin DOMAIN Roomy \/ x = k => Over(x, log[x], now)
  <2> SUFFICES ASSUME NEW x \in Keys, x \notin DOMAIN Roomy \/ x = k
               PROVE  Over(x, log[x], now)
    OBVIOUS
  <2>1. CASE x \in Entries
    <3>1. ~Live(windows[x], now)
      BY <2>1, RoomyFacts DEF ConsumeNew, Running
    <3>2. Counts(x, log[x], windows[x])
      BY <2>1 DEF IInv, LogSound
    <3>3. log[x] \in Seq(Admission)
      BY <2>1, <1>1
    <3> QED BY <2>1, <3>1, <3>2, <3>3, <1>1, WindowOver
  <2>2. CASE x \notin Entries
    BY <2>2 DEF IInv, LogSound
  <2> QED BY <2>1, <2>2
<1>3. CASE Full(k)
  <2>1. /\ retryAt' = [retryAt EXCEPT ![k] = now + Second]
        /\ log' = log /\ windows' = Roomy /\ k \notin DOMAIN Roomy
    BY <1>3 DEF ConsumeNew, Full, Refused
  <2>2. now + Second \in Nat
    BY <1>1
  <2> DEFINE E == DOMAIN Roomy
  <2>3. /\ E \subseteq Entries /\ \A x \in E : windows'[x] = windows[x]
        /\ Entries' = E /\ Cardinality(E) <= MaxEntries
    BY <2>1, RoomyFacts DEF Entries
  <2> HIDE DEF E
  <2>4. TypeOK'
    BY <2>1, <2>2, <2>3, <1>1 DEF IInv, TypeOK
  <2>5. LogSound'
    BY <2>1, <2>3, <1>1, <1>2 DEF IInv, LogSound, E
  <2>6. RefusalSound'
    <3> SUFFICES ASSUME NEW x \in E, retryAt'[x] # None, Live(windows[x], now)
                 PROVE  retryAt'[x] >= windows[x].resetsAt
      BY <2>3, <1>1 DEF RefusalSound, Running
    <3>1. x # k /\ x \in Entries
      BY <2>1, <2>3 DEF E
    <3>2. retryAt'[x] = retryAt[x]
      BY <3>1, <2>1, <1>1 DEF IInv, TypeOK
    <3> QED BY <3>1, <3>2 DEF IInv, RefusalSound, Running
  <2>7. Stamped'
    BY <2>1, <1>1 DEF IInv, Stamped
  <2> QED BY <2>1, <2>4, <2>5, <2>6, <2>7, <1>1 DEF Good, IInv, Abstract!vars
<1>4. CASE ~Full(k)
  <2> DEFINE E == DOMAIN Roomy
             w == Counted(Opened(k))
  <2>1. /\ windows' = [x \in E \cup {k} |-> IF x = k THEN w ELSE Roomy[x]]
        /\ Admitted(k, Opened(k))
    BY <1>4 DEF ConsumeNew
  <2>2. Abstract!Open(k) /\ Counts(k, log'[k], w)
    BY <1>1, <1>2, <2>1, Opening
  <2>3. Opened(k).resetsAt - WindowMs[k] = now
    BY <1>1 DEF Opened
  <2>4. /\ log' \in [Subjects -> Seq(Admission)]
        /\ \A t \in Subjects \ {k} : log'[t] = log[t]
        /\ Stamped'
    <3>1. Stamped
      BY DEF IInv
    <3>2. Opened(k).resetsAt - WindowMs[k] \in Nat /\ Opened(k).resetsAt - WindowMs[k] <= now
      BY <1>1, <2>3
    <3> QED BY <1>1, <2>1, <3>1, <3>2, AdmissionFrame
  <2>5. w \in [count : 1 .. Maximum[k], resetsAt : Nat]
    BY <1>1 DEF Counted, Opened
  <2>6. retryAt' = [retryAt EXCEPT ![k] = None]
    BY <2>1 DEF Admitted
  <2> HIDE DEF w
  <2>7. /\ Entries' = E \cup {k} /\ windows'[k] = w
        /\ E \subseteq Entries
        /\ \A x \in E \ {k} : windows'[x] = windows[x]
    BY <2>1, RoomyFacts DEF Entries
  <2>8. Cardinality(E \cup {k}) <= MaxEntries
    <3>1. k \in E \/ Cardinality(E) < MaxEntries
      BY <1>4, RoomyFacts, ConstantsAssumption DEF Full
    <3>2. /\ IsFiniteSet(E) /\ Cardinality(E) \in Nat /\ Cardinality(E) <= MaxEntries
          /\ MaxEntries \in Nat
      BY RoomyFacts, ConstantsAssumption
    <3> HIDE DEF E
    <3>3. Cardinality(E \cup {k}) = IF k \in E THEN Cardinality(E) ELSE Cardinality(E) + 1
      BY <3>2, FS_AddElement
    <3> QED BY <3>1, <3>2, <3>3
  <2> HIDE DEF E
  <2>9. TypeOK'
    BY <1>1, <2>4, <2>5, <2>6, <2>7, <2>8 DEF IInv, TypeOK, Admission
  <2>10. LogSound'
    <3>1. \A x \in E \ {k} : Counts(x, log'[x], windows'[x])
      BY <1>1, <2>4, <2>7 DEF IInv, LogSound
    <3>2. \A x \in Keys \ Entries' : Over(x, log'[x], now')
      BY <1>1, <1>2, <2>4, <2>7 DEF E, Subjects
    <3>3. log'[AMap] = log[AMap]
      BY <1>1, <2>4
    <3> QED BY <3>1, <3>2, <3>3, <2>2, <2>7, <1>1 DEF IInv, LogSound
  <2>11. RefusalSound'
    <3> SUFFICES ASSUME NEW x \in Entries', retryAt'[x] # None, Live(windows'[x], now)
                 PROVE  retryAt'[x] >= windows'[x].resetsAt
      BY <1>1 DEF RefusalSound, Running
    <3>1. x # k
      BY <2>6, <1>1 DEF IInv, TypeOK
    <3>2. x \in Entries /\ windows'[x] = windows[x] /\ retryAt'[x] = retryAt[x]
      BY <3>1, <2>6, <2>7, <1>1 DEF IInv, TypeOK
    <3> QED BY <3>2 DEF IInv, RefusalSound, Running
  <2> QED BY <2>2, <2>4, <2>9, <2>10, <2>11, <1>1 DEF Good, IInv, Abstract!Next
<1> QED BY <1>3, <1>4

LEMMA AttemptStep ==
    ASSUME IInv, Attempt
    PROVE  Good
<1> DEFINE w == IF Live(attemptWindow, now) THEN attemptWindow ELSE Opened(AMap)
<1>1. /\ log \in [Subjects -> Seq(Admission)] /\ now \in Nat /\ now' = now
      /\ AMap \in Subjects /\ AMap \notin Keys /\ Keys \subseteq Subjects
      /\ windows' = windows /\ Entries' = Entries
      /\ Maximum[AMap] \in Nat \ {0} /\ WindowMs[AMap] \in Nat \ {0}
      /\ attemptWindow \in [count : Nat, resetsAt : Nat]
      /\ attemptWindow.count <= Maximum[AMap]
  BY TypeFacts, ConstantsAssumption DEF IInv, TypeOK, Attempt, Entries
<1>2. CASE AtMaximum(AMap, w)
  <2>1. Live(attemptWindow, now)
    BY <1>1, <1>2 DEF AtMaximum, Opened
  <2>2. /\ attemptWindow' = attemptWindow /\ log' = log
        /\ retryAt' = [retryAt EXCEPT ![AMap] = now]
    BY <1>1, <1>2, <2>1 DEF Attempt, Refused, AtMaximum
  <2>3. TypeOK'
    BY <1>1, <2>2 DEF IInv, TypeOK
  <2>4. LogSound' /\ Stamped'
    BY <1>1, <2>2 DEF IInv, LogSound, Stamped
  <2>5. RefusalSound'
    <3>1. \A x \in Keys : retryAt'[x] = retryAt[x]
      BY <1>1, <2>2 DEF IInv, TypeOK
    <3> QED BY <1>1, <3>1 DEF IInv, TypeOK, RefusalSound, Running
  <2> QED BY <1>1, <2>2, <2>3, <2>4, <2>5 DEF Good, IInv, Abstract!vars
<1>3. CASE ~AtMaximum(AMap, w)
  <2>1. /\ attemptWindow' = Counted(w) /\ Admitted(AMap, w)
        /\ retryAt' = [retryAt EXCEPT ![AMap] = None]
    BY <1>3 DEF Attempt, Admitted
  <2>2. w \in [count : Nat, resetsAt : Nat] /\ w.count < Maximum[AMap]
    BY <1>1, <1>3 DEF AtMaximum, Opened
  <2>3. /\ Abstract!Join(AMap) \/ Abstract!Open(AMap)
        /\ Counts(AMap, log'[AMap], Counted(w))
        /\ w.resetsAt - WindowMs[AMap] \in Nat
        /\ w.resetsAt - WindowMs[AMap] <= now
    <3>1. CASE Live(attemptWindow, now)
      <4>1. w = attemptWindow /\ Live(w, now)
        BY <3>1
      <4>2. Counts(AMap, log[AMap], w)
        BY <3>1, <1>1 DEF IInv, LogSound, Live
      <4> HIDE DEF w
      <4>3. /\ Abstract!Join(AMap) /\ Counts(AMap, log'[AMap], Counted(w))
            /\ w.resetsAt - WindowMs[AMap] \in Nat
        BY <4>1, <4>2, <1>1, <2>1, <2>2, Joining
      <4> DEFINE n == Len(log[AMap])
      <4>4. n \in 1 .. n /\ n > n - w.count
        BY <2>2, <4>2, <1>1, LogFacts DEF Counts
      <4>5. log[AMap][n].opened + WindowMs[AMap] = w.resetsAt
        BY <4>4, <4>2 DEF Counts
      <4>6. /\ log[AMap][n].opened <= log[AMap][n].at /\ log[AMap][n].at <= now
            /\ log[AMap][n].opened \in Nat /\ log[AMap][n].at \in Nat
        BY <4>4, <1>1, LogFacts DEF IInv, Stamped
      <4> HIDE DEF n
      <4> QED BY <4>3, <4>5, <4>6, <1>1
    <3>2. CASE ~Live(attemptWindow, now)
      <4>1. w = Opened(AMap)
        BY <3>2
      <4>2. Over(AMap, log[AMap], now)
        <5>1. CASE log[AMap] = <<>>
          BY <5>1 DEF Over
        <5>2. CASE Counts(AMap, log[AMap], attemptWindow)
          <6>1. log[AMap] \in Seq(Admission)
            BY <1>1
          <6> QED BY <5>2, <6>1, <3>2, <1>1, WindowOver
        <5> QED BY <5>1, <5>2 DEF IInv, LogSound
      <4>3. Abstract!Open(AMap) /\ Counts(AMap, log'[AMap], Counted(Opened(AMap)))
        BY <4>1, <4>2, <1>1, <2>1, Opening
      <4>4. Opened(AMap).resetsAt - WindowMs[AMap] = now
        BY <1>1 DEF Opened
      <4> QED BY <4>1, <4>3, <4>4, <1>1
    <3> QED BY <3>1, <3>2
  <2> HIDE DEF w
  <2>4. /\ log' \in [Subjects -> Seq(Admission)]
        /\ \A t \in Subjects \ {AMap} : log'[t] = log[t]
        /\ Stamped'
    <3>1. Stamped
      BY DEF IInv
    <3> QED BY <1>1, <2>1, <2>3, <3>1, AdmissionFrame
  <2>5. Counted(w) \in [count : 0 .. Maximum[AMap], resetsAt : Nat]
    <3>1. w.count + 1 \in 0 .. Maximum[AMap] /\ w.resetsAt \in Nat
      BY <2>2, <1>1
    <3> QED BY <3>1, <2>2 DEF Counted
  <2>6. TypeOK'
    BY <1>1, <2>1, <2>4, <2>5 DEF IInv, TypeOK, Admission
  <2>7. LogSound'
    BY <1>1, <2>1, <2>3, <2>4 DEF IInv, LogSound, TypeOK
  <2>8. RefusalSound'
    <3>1. \A x \in Keys : retryAt'[x] = retryAt[x]
      BY <1>1, <2>1 DEF IInv, TypeOK
    <3> QED BY <1>1, <3>1 DEF IInv, TypeOK, RefusalSound, Running
  <2> QED BY <2>3, <2>4, <2>6, <2>7, <2>8, <1>1 DEF Good, IInv, Abstract!Next
<1> QED BY <1>2, <1>3

LEMMA TickStep ==
    ASSUME IInv, Tick
    PROVE  Good
<1>1. /\ now \in Nat /\ now' = now + 1 /\ now' \in Nat
      /\ UNCHANGED <<windows, attemptWindow, log, retryAt>> /\ Entries' = Entries
      /\ log \in [Subjects -> Seq(Admission)]
      /\ \A k \in Entries : windows[k].resetsAt \in Nat /\ k \in Keys
      /\ Keys \subseteq Subjects /\ WindowMs \in [Subjects -> Nat \ {0}]
  BY TypeFacts, ConstantsAssumption DEF IInv, Tick, TypeOK, Entries
<1>2. TypeOK'
  BY <1>1 DEF IInv, TypeOK
<1>3. LogSound'
  <2>1. \A k \in Keys \ Entries : Over(k, log[k], now + 1)
    <3> SUFFICES ASSUME NEW k \in Keys \ Entries, NEW i \in 1 .. Len(log[k])
                 PROVE  log[k][i].opened + WindowMs[k] <= now + 1
      BY DEF Over
    <3>1. log[k] \in Seq(Admission) /\ WindowMs[k] \in Nat
      BY <1>1
    <3>2. log[k][i].opened \in Nat
      BY <3>1, LogFacts
    <3>3. log[k][i].opened + WindowMs[k] <= now
      BY DEF IInv, LogSound, Over
    <3> QED BY <1>1, <3>1, <3>2, <3>3
  <2> QED BY <1>1, <2>1 DEF IInv, LogSound
<1>4. Stamped'
  <2> SUFFICES ASSUME NEW s \in Subjects, NEW i \in 1 .. Len(log[s])
               PROVE  log[s][i].opened <= log[s][i].at /\ log[s][i].at <= now + 1
    BY <1>1 DEF Stamped
  <2>1. log[s][i].at \in Nat
    BY <1>1, LogFacts
  <2> QED BY <1>1, <2>1 DEF IInv, Stamped
<1>5. RefusalSound'
  BY <1>1 DEF IInv, RefusalSound, Running, Live
<1>6. Abstract!Pass
  BY <1>1 DEF Abstract!Pass
<1> QED BY <1>2, <1>3, <1>4, <1>5, <1>6 DEF Good, IInv, Abstract!Next

LEMMA StepGood == IInv /\ [Next]_vars => Good
<1> SUFFICES ASSUME IInv, [Next]_vars PROVE Good
  OBVIOUS
<1>1. CASE UNCHANGED vars
  BY <1>1 DEF vars, Good, IInv, TypeOK, LogSound, Over, Stamped, RefusalSound, Running,
              Entries, Abstract!vars
<1>2. CASE Next
  BY <1>2, RunningStep, NewStep, AttemptStep, TickStep DEF Next
<1> QED BY <1>1, <1>2

LEMMA InitGood == Init => IInv /\ Abstract!Init
<1> SUFFICES ASSUME Init PROVE IInv /\ Abstract!Init
  OBVIOUS
<1>1. /\ Entries = {} /\ now = 0
      /\ \A s \in Subjects : log[s] = <<>> /\ Len(log[s]) = 0
      /\ log \in [Subjects -> Seq(Admission)]
  BY EmptySeq DEF Init, Entries
<1>2. Cardinality(Entries) <= MaxEntries
  BY <1>1, FS_EmptySet, ConstantsAssumption
<1>3. TypeOK
  BY <1>1, <1>2, ConstantsAssumption DEF Init, TypeOK, Admission, Subjects
<1>4. LogSound /\ Stamped /\ RefusalSound
  BY <1>1 DEF Init, LogSound, Over, Stamped, RefusalSound, Subjects
<1>5. Abstract!Init
  BY <1>1 DEF Init, Abstract!Init
<1> QED BY <1>3, <1>4, <1>5 DEF IInv

-----------------------------------------------------------------------------
(* The theorems. *)

LEMMA Invariant == Spec => []IInv
<1>1. IInv /\ [Next]_vars => IInv'
  BY StepGood DEF Good
<1> QED BY InitGood, <1>1, PTL DEF Spec

\* The types and the size of the map, for every number of keys.
THEOREM TypeCorrect == Spec => []TypeOK
<1>1. IInv => TypeOK
  BY DEF IInv
<1> QED BY Invariant, <1>1, PTL

\* The map that forgets expired windows and the single window of the AMap client
\* implement fixed windows: the abstract log is the history.
THEOREM Implementation == Spec => ImplementsFixedWindow
<1>1. IInv /\ [Next]_vars => [Abstract!Next]_(Abstract!vars)
  BY StepGood DEF Good
<1>2. Spec => Abstract!Spec
  BY Invariant, InitGood, <1>1, PTL DEF Spec, Abstract!Spec
<1> QED BY <1>2 DEF ImplementsFixedWindow

FW == INSTANCE FixedWindowProofs WITH Limit <- Maximum, Width <- WindowMs

\* No client and no process exceeds twice its limit in a window's length: what the
\* abstract windows guarantee, by the implementation.
THEOREM Rate == Spec => []RateBounded
<1>1. FW!PositiveLimits
  BY ConstantsAssumption DEF FW!PositiveLimits
<1>2. FW!Spec => []FW!RateBounded
  BY <1>1, FW!Bounded
<1>3. Abstract!Init => FW!Init
  BY DEF Abstract!Init, FW!Init
<1>4. [Abstract!Next]_(Abstract!vars) => [FW!Next]_(FW!vars)
  BY DEF Abstract!Next, FW!Next, Abstract!vars, FW!vars, Abstract!Open, FW!Open,
         Abstract!Join, FW!Join, Abstract!Pass, FW!Pass, Abstract!Admitted, FW!Admitted
<1>5. FW!RateBounded => RateBounded
  BY DEF FW!RateBounded, RateBounded, Abstract!RateBounded
<1>6. Abstract!Spec => FW!Spec
  BY <1>3, <1>4, PTL DEF Abstract!Spec, FW!Spec
<1>7. Spec => Abstract!Spec
  BY Implementation DEF ImplementsFixedWindow
<1> QED BY <1>2, <1>5, <1>6, <1>7, PTL

\* A subject at its maximum was admitted that often within the last window's length.
LEMMA MaximumRecent ==
    ASSUME IInv, NEW s \in Subjects, NEW w \in [count : Nat, resetsAt : Nat],
           Counts(s, log[s], w), Live(w, now), AtMaximum(s, w)
    PROVE  Cardinality(Recent(s, now)) >= Maximum[s]
<1> DEFINE n == Len(log[s])
           S == n - w.count + 1 .. n
<1>1. /\ log[s] \in Seq(Admission) /\ n \in Nat /\ DOMAIN log[s] = 1 .. n
      /\ \A i \in 1 .. n : log[s][i].at \in Nat /\ log[s][i].opened \in Nat
      /\ WindowMs[s] \in Nat /\ Maximum[s] \in Nat /\ now \in Nat
  BY TypeFacts, LogFacts, ConstantsAssumption DEF IInv
<1>2. w.count \in 1 .. n /\ w.count >= Maximum[s]
  BY DEF Counts, AtMaximum
<1>3. S \subseteq Recent(s, now)
  <2> SUFFICES ASSUME NEW i \in S PROVE i \in Recent(s, now)
    OBVIOUS
  <2>1. i \in 1 .. n /\ i > n - w.count
    BY <1>1, <1>2
  <2>2. log[s][i].opened + WindowMs[s] = w.resetsAt
    BY <2>1 DEF Counts
  <2>3. log[s][i].opened <= log[s][i].at
    BY <2>1 DEF IInv, Stamped
  <2>4. log[s][i].at + WindowMs[s] > now
    BY <2>1, <2>2, <2>3, <1>1 DEF Live
  <2> QED BY <2>1, <2>4, <1>1 DEF Recent
<1>4. Cardinality(S) = w.count /\ IsFiniteSet(1 .. n)
  <2>1. n - w.count + 1 \in Int /\ n \in Int /\ 1 \in Int
    BY <1>1, <1>2
  <2>2. /\ Cardinality(S) = IF n - w.count + 1 > n THEN 0 ELSE n - (n - w.count + 1) + 1
        /\ IsFiniteSet(1 .. n)
    BY <2>1, FS_Interval
  <2>3. ~(n - w.count + 1 > n) /\ n - (n - w.count + 1) + 1 = w.count
    BY <1>1, <1>2
  <2> QED BY <2>2, <2>3
<1>5. IsFiniteSet(Recent(s, now)) /\ Recent(s, now) \subseteq 1 .. n
  BY <1>1, <1>4, FS_Subset DEF Recent
<1>6. /\ Cardinality(S) <= Cardinality(Recent(s, now))
      /\ Cardinality(Recent(s, now)) \in Nat
  BY <1>3, <1>5, FS_Subset, FS_CardinalityType
<1> QED BY <1>1, <1>2, <1>4, <1>6

\* A full map means as many other keys that were admitted within their windows.
LEMMA FullRecent ==
    ASSUME IInv, NEW k \in Keys, ~Running(k), Full(k)
    PROVE  Cardinality({x \in Keys \ {k} : Recent(x, now) # {}}) >= MaxEntries
<1> DEFINE E == DOMAIN Roomy
           S == {x \in Keys \ {k} : Recent(x, now) # {}}
<1>1. /\ E \subseteq Entries /\ \A x \in E : Live(windows[x], now)
      /\ Cardinality(E) >= MaxEntries /\ k \notin E /\ Cardinality(E) \in Nat
      /\ MaxEntries \in Nat /\ IsFiniteSet(Keys)
  BY RoomyFacts, ConstantsAssumption DEF Full
<1>2. E \subseteq S
  <2> SUFFICES ASSUME NEW x \in E PROVE x \in Keys \ {k} /\ Recent(x, now) # {}
    OBVIOUS
  <2> DEFINE n == Len(log[x])
  <2>1. /\ x \in Keys \ {k} /\ x \in Subjects
        /\ windows[x] \in [count : Nat, resetsAt : Nat] /\ Counts(x, log[x], windows[x])
        /\ log[x] \in Seq(Admission) /\ WindowMs[x] \in Nat /\ now \in Nat
    BY <1>1, TypeFacts, ConstantsAssumption DEF IInv, LogSound
  <2>2. n \in 1 .. n /\ n > n - windows[x].count /\ DOMAIN log[x] = 1 .. n
    BY <2>1, LogFacts DEF Counts
  <2>3. log[x][n].opened + WindowMs[x] = windows[x].resetsAt
    BY <2>1, <2>2 DEF Counts
  <2>4. /\ log[x][n].opened <= log[x][n].at
        /\ log[x][n].opened \in Nat /\ log[x][n].at \in Nat
    BY <2>1, <2>2, LogFacts DEF IInv, Stamped
  <2> HIDE DEF n
  <2>5. log[x][n].at + WindowMs[x] > now
    BY <1>1, <2>1, <2>3, <2>4 DEF Live
  <2> QED BY <2>1, <2>2, <2>5 DEF Recent
<1> HIDE DEF E
<1>3. IsFiniteSet(S) /\ Cardinality(S) \in Nat
  BY <1>1, FS_Subset, FS_CardinalityType
<1>4. Cardinality(E) <= Cardinality(S)
  BY <1>2, <1>3, FS_Subset
<1> QED BY <1>1, <1>3, <1>4

\* How a refusal comes about.
LEMMA RefusalStep ==
    ASSUME IInv, Next, NEW s \in Subjects, retryAt'[s] # retryAt[s], retryAt'[s] # None
    PROVE  \/ /\ s \in Keys /\ Running(s) /\ AtMaximum(s, windows[s])
           \/ s \in Keys /\ ~Running(s) /\ Full(s)
           \/ s = AMap /\ Live(attemptWindow, now) /\ AtMaximum(AMap, attemptWindow)
<1>1. retryAt \in [Subjects -> Nat \cup {None}] /\ AMap \in Subjects /\ Keys \subseteq Subjects
  BY TypeFacts DEF IInv, TypeOK
<1>2. ASSUME NEW k \in Keys, ConsumeRunning(k)
      PROVE  s = k /\ Running(k) /\ AtMaximum(k, windows[k])
  BY <1>1, <1>2 DEF ConsumeRunning, Admitted, Refused
<1>3. ASSUME NEW k \in Keys, ConsumeNew(k)
      PROVE  s = k /\ ~Running(k) /\ Full(k)
  BY <1>1, <1>3 DEF ConsumeNew, Admitted, Refused
<1>4. ASSUME Attempt
      PROVE  s = AMap /\ Live(attemptWindow, now) /\ AtMaximum(AMap, attemptWindow)
  <2>1. ~AtMaximum(AMap, Opened(AMap))
    BY <1>1, ConstantsAssumption DEF AtMaximum, Opened
  <2> QED BY <1>1, <1>4, <2>1 DEF Attempt, Admitted, Refused
<1>5. ~Tick
  BY DEF Tick
<1> QED BY <1>2, <1>3, <1>4, <1>5 DEF Next

\* Only who is at the limit is refused, or who finds the map full of the others.
THEOREM Justified == Spec => RefusalJustified
<1> DEFINE A ==
      \A s \in Subjects :
        retryAt'[s] # retryAt[s] /\ retryAt'[s] # None =>
            \/ Cardinality(Recent(s, now)) >= Maximum[s]
            \/ /\ s \in Keys
               /\ Cardinality({k \in Keys \ {s} : Recent(k, now) # {}}) >= MaxEntries
<1>1. IInv /\ [Next]_vars => [A]_vars
  <2> SUFFICES ASSUME IInv, Next, NEW s \in Subjects,
                      retryAt'[s] # retryAt[s], retryAt'[s] # None
               PROVE  \/ Cardinality(Recent(s, now)) >= Maximum[s]
                      \/ /\ s \in Keys
                         /\ Cardinality({k \in Keys \ {s} : Recent(k, now) # {}}) >= MaxEntries
    OBVIOUS
  <2>1. CASE s \in Keys /\ Running(s) /\ AtMaximum(s, windows[s])
    <3>1. /\ windows[s] \in [count : Nat, resetsAt : Nat]
          /\ Counts(s, log[s], windows[s]) /\ Live(windows[s], now)
      BY <2>1, TypeFacts DEF IInv, LogSound, Running
    <3> QED BY <2>1, <3>1, MaximumRecent
  <2>2. CASE s \in Keys /\ ~Running(s) /\ Full(s)
    BY <2>2, FullRecent
  <2>3. CASE s = AMap /\ Live(attemptWindow, now) /\ AtMaximum(AMap, attemptWindow)
    <3>1. attemptWindow \in [count : Nat, resetsAt : Nat] /\ now \in Nat
      BY TypeFacts DEF IInv
    <3>2. Counts(s, log[s], attemptWindow)
      BY <2>3, <3>1 DEF IInv, LogSound, Live
    <3> QED BY <2>3, <3>1, <3>2, MaximumRecent
  <2> QED BY <2>1, <2>2, <2>3, RefusalStep
<1> QED BY Invariant, <1>1, PTL DEF Spec, RefusalJustified

\* Who comes back at the time named by Retry-After is admitted, unless the map is full.
THEOREM Honoured == Spec => RetryHonoured
<1> DEFINE A ==
      \A k \in Keys :
        /\ retryAt[k] # None /\ now >= retryAt[k]
        /\ retryAt'[k] # retryAt[k] /\ retryAt'[k] # None
        => Cardinality({x \in Keys \ {k} : Recent(x, now) # {}}) >= MaxEntries
<1>1. IInv /\ [Next]_vars => [A]_vars
  <2> SUFFICES ASSUME IInv, Next, NEW k \in Keys, retryAt[k] # None, now >= retryAt[k],
                      retryAt'[k] # retryAt[k], retryAt'[k] # None
               PROVE  Cardinality({x \in Keys \ {k} : Recent(x, now) # {}}) >= MaxEntries
    OBVIOUS
  <2>1. k \in Subjects /\ k # AMap
    BY ConstantsAssumption DEF Subjects
  <2>2. ~Running(k)
    <3> SUFFICES ASSUME Running(k) PROVE FALSE
      OBVIOUS
    <3>1. k \in Entries /\ windows[k].resetsAt > now
      BY DEF Running, Live
    <3>2. retryAt[k] >= windows[k].resetsAt
      BY <3>1 DEF IInv, RefusalSound
    <3>3. windows[k].resetsAt \in Nat /\ now \in Nat /\ retryAt[k] \in Nat
      BY <2>1, <3>1 DEF IInv, TypeOK
    <3> QED BY <3>1, <3>2, <3>3
  <2>3. Full(k)
    BY <2>1, <2>2, RefusalStep
  <2> QED BY <2>2, <2>3, FullRecent
<1> QED BY Invariant, <1>1, PTL DEF Spec, RetryHonoured
=============================================================================
