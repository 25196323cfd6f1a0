---------------------------- MODULE ServerProofs ----------------------------
(***************************************************************************)
(* The safety properties of Server and of Migration, which it extends: what *)
(* every step of an upgrade preserves, for every version the file may start *)
(* with, and then what every step of a server preserves, for every set of   *)
(* processes and of connections and every number of starts.                 *)
(***************************************************************************)
EXTENDS Server, TLAPS

(* The upgrade of the schema. *)

\* A process has migrations left exactly while it runs them, and version 1 only
\* together with version 2.
PendingInv ==
    \A p \in Processes :
        /\ store[p] \in {"begin", "run", "commit"} => pending[p] \in {{2}, {1, 2}}
        /\ store[p] \notin {"begin", "run", "commit"} => pending[p] = {}

\* One process at most is within a transaction, and it holds the lock; what it is about
\* to commit was applicable, and is so still.
WriterInv ==
    /\ \A p \in Processes : store[p] \in {"run", "commit"} <=> p \in writer
    /\ \A p, q \in writer : p = q
    /\ \A p \in Processes : store[p] = "commit" => Applicable(First(p))

\* No process has anything left to do on a file newer than the code.
NewerInv == version > Latest => \A p \in Processes : pending[p] = {}

\* Without a race the process that has version 1 left is alone and the file is empty;
\* the others, with version 2 left, wait for a file of version 1 or 2.
FileInv ==
    ~ raced =>
      /\ schema = 1 .. version
      /\ \A p \in Processes : 1 \in pending[p] => version = 0
      /\ \A p, q \in Processes : 1 \in pending[p] /\ 1 \in pending[q] => p = q
      /\ \A p \in Processes : pending[p] = {2} => version >= 1

MigrationInv == MigrationTypeOK /\ PendingInv /\ WriterInv /\ NewerInv /\ FileInv

-----------------------------------------------------------------------------
LEMMA FirstOfOne == Min({2}) = 2
<1>1. \E x \in {2} : \A y \in {2} : x <= y
  OBVIOUS
<1> QED BY <1>1 DEF Min

LEMMA FirstOfTwo == Min({1, 2}) = 1
<1>1. 1 \in {1, 2} /\ \A y \in {1, 2} : 1 <= y
  OBVIOUS
<1>2. \A x \in {1, 2} : (\A y \in {1, 2} : x <= y) => x = 1
  OBVIOUS
<1> QED BY <1>1, <1>2 DEF Min

LEMMA MigrationStarts == MigrationInit => MigrationInv
<1> SUFFICES ASSUME MigrationInit PROVE MigrationInv
  OBVIOUS
<1> USE DEF MigrationInit
<1>1. version \in 0 .. 3
  BY FileAssumption DEF Versions, Latest
<1>2. schema \subseteq 1 .. 3
  BY <1>1
<1>3. MigrationTypeOK
  <2>1. version \in Versions /\ schema \subseteq 1 .. Latest + 1
    BY <1>1, <1>2 DEF Versions, Latest
  <2> QED BY <2>1 DEF MigrationTypeOK
<1>4. WriterInv /\ NewerInv
  BY DEF WriterInv, NewerInv
<1>5. FileInv
  <2>1. \A p \in Processes : 1 \notin pending[p] /\ pending[p] # {2}
    OBVIOUS
  <2> QED BY <2>1 DEF FileInv
<1>6. PendingInv
  BY DEF PendingInv
<1> HIDE DEF MigrationInit
<1> QED BY <1>3, <1>4, <1>5, <1>6 DEF MigrationInv

LEMMA OpenFilePreserves ==
    ASSUME NEW p \in Processes, MigrationInv, OpenFile(p) PROVE MigrationInv'
<1> USE DEF MigrationInv, OpenFile, fileVars
<1>1. MigrationTypeOK'
  BY DEF MigrationTypeOK
<1>2. PendingInv'
  BY DEF PendingInv, MigrationTypeOK
<1>3. WriterInv'
  BY DEF WriterInv, MigrationTypeOK, Applicable, First
<1>4. NewerInv' /\ FileInv'
  BY DEF NewerInv, FileInv
<1> QED BY <1>1, <1>2, <1>3, <1>4

LEMMA ReadVersionPreserves ==
    ASSUME NEW p \in Processes, MigrationInv, ReadVersion(p) PROVE MigrationInv'
<1> USE DEF MigrationInv, ReadVersion, fileVars
<1> DEFINE found == {m \in Migrations : m > version}
<1>1. version \in 0 .. 2 /\ Latest = 2
  BY DEF MigrationTypeOK, Versions, Latest
<1>2. /\ version = 0 => found = {1, 2}
      /\ version = 1 => found = {2}
      /\ version = 2 => found = {}
  BY <1>1 DEF Migrations
<1>3. /\ store[p] = "opened" /\ pending[p] = {}
      /\ pending' = [pending EXCEPT ![p] = found]
      /\ store' = [store EXCEPT ![p] = IF found = {} THEN "check" ELSE "begin"]
      /\ raced' = (raced \/ (1 \in found /\ \E q \in Processes : 1 \in pending[q]))
      /\ UNCHANGED <<version, schema, writer>>
  BY DEF PendingInv
<1>4. found \in SUBSET Migrations
  OBVIOUS
<1> HIDE DEF found, ReadVersion
<1>5. MigrationTypeOK'
  BY <1>3, <1>4 DEF MigrationTypeOK
<1>6. PendingInv'
  BY <1>1, <1>2, <1>3 DEF PendingInv, MigrationTypeOK
<1>7. WriterInv'
  BY <1>3 DEF WriterInv, MigrationTypeOK, Applicable, First
<1>8. NewerInv'
  BY <1>1, <1>3 DEF NewerInv
<1>9. FileInv'
  <2> SUFFICES ASSUME ~ raced' PROVE FileInv'
    BY DEF FileInv
  <2>1. /\ ~ raced
        /\ 1 \in found => \A q \in Processes : 1 \notin pending[q]
    BY <1>3
  <2>2. /\ pending'[p] = found
        /\ \A q \in Processes \ {p} : pending'[q] = pending[q]
    BY <1>3 DEF MigrationTypeOK
  <2>3. \A q \in Processes : 1 \in pending'[q] => version' = 0
    BY <1>1, <1>2, <1>3, <2>1, <2>2 DEF FileInv
  <2>4. \A q1, q2 \in Processes : 1 \in pending'[q1] /\ 1 \in pending'[q2] => q1 = q2
    BY <2>1, <2>2 DEF FileInv
  <2>5. \A q \in Processes : pending'[q] = {2} => version' >= 1
    BY <1>1, <1>2, <1>3, <2>1, <2>2 DEF FileInv
  <2> QED BY <1>3, <2>1, <2>3, <2>4, <2>5 DEF FileInv
<1> QED BY <1>5, <1>6, <1>7, <1>8, <1>9

LEMMA BeginImmediatePreserves ==
    ASSUME NEW p \in Processes, MigrationInv, BeginImmediate(p) PROVE MigrationInv'
<1> USE DEF MigrationInv, BeginImmediate, fileVars
<1>1. MigrationTypeOK'
  BY DEF MigrationTypeOK
<1>2. PendingInv'
  BY DEF PendingInv, MigrationTypeOK
<1>3. WriterInv'
  BY DEF WriterInv, MigrationTypeOK, Applicable, First
<1>4. NewerInv' /\ FileInv'
  BY DEF NewerInv, FileInv
<1> QED BY <1>1, <1>2, <1>3, <1>4

LEMMA RunMigrationPreserves ==
    ASSUME NEW p \in Processes, MigrationInv, RunMigration(p) PROVE MigrationInv'
<1> USE DEF MigrationInv, RunMigration, fileVars
<1>1. MigrationTypeOK'
  BY DEF MigrationTypeOK
<1>2. PendingInv'
  BY DEF PendingInv, MigrationTypeOK
<1>3. WriterInv'
  BY DEF WriterInv, MigrationTypeOK, Applicable, First
<1>4. NewerInv' /\ FileInv'
  BY DEF NewerInv, FileInv
<1> QED BY <1>1, <1>2, <1>3, <1>4

\* Version 1 leaves the process with version 2 to do, version 2 with nothing.
LEMMA CommitPreserves ==
    ASSUME NEW p \in Processes, MigrationInv, Commit(p) PROVE MigrationInv'
<1> USE DEF MigrationInv, fileVars
<1> DEFINE m == First(p)
<1>1. /\ store[p] = "commit" /\ writer' = writer \ {p}
      /\ schema' = schema \cup {m} /\ version' = m /\ raced' = raced
      /\ pending' = [pending EXCEPT ![p] = pending[p] \ {m}]
      /\ store' = [store EXCEPT ![p] = IF pending'[p] = {} THEN "check" ELSE "begin"]
  BY DEF Commit
<1>2. pending[p] \in {{2}, {1, 2}}
  BY <1>1 DEF PendingInv
<1>3. \/ m = 1 /\ pending[p] = {1, 2} /\ pending'[p] = {2} /\ store'[p] = "begin"
      \/ m = 2 /\ pending[p] = {2} /\ pending'[p] = {} /\ store'[p] = "check"
  BY <1>1, <1>2, FirstOfOne, FirstOfTwo DEF First, MigrationTypeOK
<1>4. Applicable(m)
  BY <1>1 DEF WriterInv
<1>5. /\ writer' = {}
      /\ \A q \in Processes \ {p} : /\ store'[q] = store[q] /\ pending'[q] = pending[q]
                                    /\ store[q] \notin {"run", "commit"}
  BY <1>1 DEF WriterInv, MigrationTypeOK
<1> HIDE DEF m
<1>6. MigrationTypeOK'
  <2>1. version' \in Versions /\ m \in 1 .. Latest + 1
    BY <1>1, <1>3 DEF Versions, Latest
  <2>2. pending' \in [Processes -> SUBSET Migrations]
    BY <1>1 DEF MigrationTypeOK
  <2> QED BY <1>1, <2>1, <2>2 DEF MigrationTypeOK
<1>7. PendingInv'
  BY <1>3, <1>5 DEF PendingInv
<1>8. WriterInv'
  BY <1>3, <1>5 DEF WriterInv
<1>9. NewerInv'
  BY <1>1, <1>3 DEF NewerInv, Latest
<1>10. ASSUME ~ raced, m = 1 PROVE version = 0 /\ schema = {}
  BY <1>10, <1>3 DEF FileInv
<1>11. ASSUME ~ raced, m = 2 PROVE version = 1 /\ schema = {1}
  <2>1. version \in 0 .. 3 /\ 2 \notin schema /\ schema = 1 .. version /\ version >= 1
    BY <1>11, <1>3, <1>4 DEF FileInv, Applicable, MigrationTypeOK, Versions, Latest
  <2> QED BY <2>1
<1>12. FileInv'
  <2> SUFFICES ASSUME ~ raced' PROVE FileInv'
    BY DEF FileInv
  <2>1. ~ raced /\ version' = m /\ schema' = schema \cup {m}
    BY <1>1
  <2>2. schema' = 1 .. version'
    BY <1>3, <1>10, <1>11, <2>1
  <2>3. \A q \in Processes : 1 \notin pending'[q]
    BY <1>3, <1>5, <1>10, <1>11, <2>1 DEF FileInv
  <2>4. version' >= 1
    BY <1>3, <2>1
  <2>5. /\ \A q \in Processes : 1 \in pending'[q] => version' = 0
        /\ \A q1, q2 \in Processes : 1 \in pending'[q1] /\ 1 \in pending'[q2] => q1 = q2
        /\ \A q \in Processes : pending'[q] = {2} => version' >= 1
    BY <2>3, <2>4
  <2> HIDE DEF MigrationInv
  <2> QED BY <2>2, <2>5, Zenon DEF FileInv
<1> QED BY <1>6, <1>7, <1>8, <1>9, <1>12

LEMMA CheckVersionPreserves ==
    ASSUME NEW p \in Processes, MigrationInv, CheckVersion(p) PROVE MigrationInv'
<1> USE DEF MigrationInv, CheckVersion, fileVars
<1>1. MigrationTypeOK'
  BY DEF MigrationTypeOK
<1>2. PendingInv'
  BY DEF PendingInv, MigrationTypeOK
<1>3. WriterInv'
  BY DEF WriterInv, MigrationTypeOK, Applicable, First
<1>4. NewerInv' /\ FileInv'
  BY DEF NewerInv, FileInv
<1> QED BY <1>1, <1>2, <1>3, <1>4

LEMMA CloseFilePreserves ==
    ASSUME NEW p \in Processes, MigrationInv, CloseFile(p) PROVE MigrationInv'
<1> USE DEF MigrationInv, CloseFile, fileVars
<1>1. MigrationTypeOK'
  BY DEF MigrationTypeOK
<1>2. PendingInv'
  BY DEF PendingInv, MigrationTypeOK
<1>3. WriterInv'
  BY DEF WriterInv, MigrationTypeOK, Applicable, First
<1>4. NewerInv' /\ FileInv'
  BY DEF NewerInv, FileInv, MigrationTypeOK
<1> QED BY <1>1, <1>2, <1>3, <1>4

\* Every step of an upgrade, a failure of one and the closing of a store preserve the
\* invariant.
LEMMA MigrationStep ==
    ASSUME NEW p \in Processes, MigrationInv, Upgrade(p) \/ CloseFile(p)
    PROVE MigrationInv'
BY OpenFilePreserves, ReadVersionPreserves, BeginImmediatePreserves, RunMigrationPreserves,
   CommitPreserves, CheckVersionPreserves, CloseFilePreserves DEF Upgrade

LEMMA MigrationStutters ==
    ASSUME MigrationInv, UNCHANGED migrationVars PROVE MigrationInv'
BY DEF migrationVars, fileVars, MigrationInv, MigrationTypeOK, PendingInv, WriterInv, NewerInv,
       FileInv, Applicable, First

\* The invariant implies the property: a migration that finds itself done is version 2
\* on a file of version 2.
LEMMA MigrationInvSafe == MigrationInv => UpgradeSafe
<1> SUFFICES ASSUME MigrationInv, ~ raced PROVE UpgradeSafe
  BY DEF UpgradeSafe
<1> USE DEF MigrationInv
<1>1. schema = 1 .. version /\ version \in 0 .. 3
  BY DEF FileInv, MigrationTypeOK, Versions, Latest
<1>2. ASSUME NEW p \in Processes, store[p] = "run", ~ Applicable(First(p)) PROVE version = Latest
  <2>1. pending[p] = {2} /\ First(p) = 2
    BY <1>2, FirstOfOne, FirstOfTwo DEF PendingInv, First, Applicable
  <2>2. version >= 1 /\ version <= 2
    BY <1>1, <2>1 DEF FileInv, NewerInv, Latest
  <2>3. 2 \in schema
    BY <1>1, <1>2, <2>1, <2>2 DEF Applicable
  <2> QED BY <1>1, <2>2, <2>3 DEF Latest
<1> QED BY <1>1, <1>2 DEF UpgradeSafe
-----------------------------------------------------------------------------
(* The server. *)

\* What is known of a request when it is about to await pc.
Due(q, pc) ==
    /\ pc = "file" => q.path = "file"
    /\ pc = "upstream" => q.path = "amap"
    /\ pc = "ready" => q.path = "ready" /\ q.method = "GET"
    /\ pc = "plan" => q.path = "plan" /\ q.method = "POST"
    /\ pc = "auth" => /\ q.path \in UserPaths
                      /\ q.path = "session" => q.method = "DELETE"
    /\ pc = "call" => /\ q.path \in UserPaths /\ <<q.path, q.method>> \in Operations
                      /\ q.path = "saved" => q.body # "invalid"
    /\ pc = "write" => q.path \in {"saved", "feedback"} /\ q.method = "POST"

\* A status that may be sent in answer to q.
Allowed(q, status) ==
    q.conn /\ <<q.path, q.method>> \in Operations => status \in Documented(q.path, q.method)

\* The invariant of one request.
Sound(q) ==
    /\ q \in Request
    /\ q.status = 0 <=> q.pc # "answer"
    /\ <<q.path, q.method>> \notin ReadsBody => q.body = "none"
    /\ Due(q, q.pc)
    /\ q.pc = "answer" => Allowed(q, q.status)
    /\ q.pc = "free" => ~ q.conn /\ ~ q.planning
    /\ q.late => ~ q.conn

\* A step of a request neither moves it to another process nor opens its connection.
Follows(q, s) ==
    /\ s.proc = q.proc /\ s.pc # "free"
    /\ s.conn => q.conn

\* A connection is open only while its process serves, and then the store is open.
ServesInv ==
    /\ \A r \in Requests : req[r].conn => phase[req[r].proc] \in {"listening", "closing"}
    /\ \A p \in Processes : phase[p] \in {"listening", "closing"} => store[p] = "open"

RequestsInv == req \in [Requests -> Request] /\ \A r \in Requests : Sound(req[r])

ProcessesInv ==
    /\ phase \in [Processes -> {"off", "starting", "listening", "closing", "closed"}]
    /\ starts \in 0 .. MaxStarts

ServerInv == MigrationInv /\ RequestsInv /\ ProcessesInv /\ ServesInv

-----------------------------------------------------------------------------
(* One request. *)

LEMMA AtFields ==
    ASSUME NEW q \in Request, NEW pc \in Pcs
    PROVE  /\ At(q, pc) \in Request /\ At(q, pc).pc = pc
           /\ At(q, pc).path = q.path /\ At(q, pc).method = q.method /\ At(q, pc).body = q.body
           /\ At(q, pc).proc = q.proc /\ At(q, pc).conn = q.conn
           /\ At(q, pc).status = q.status /\ At(q, pc).late = q.late
           /\ At(q, pc).planning = q.planning
BY DEF At, Request

LEMMA AnsweredFields ==
    ASSUME NEW q \in Request, NEW s \in Statuses
    PROVE  LET a == Answered(q, s)
           IN  /\ a \in Request /\ a.pc = "answer" /\ a.status = s
               /\ a.path = q.path /\ a.method = q.method /\ a.body = q.body
               /\ a.proc = q.proc /\ a.conn = q.conn /\ a.late = q.late
               /\ a.planning = q.planning
BY DEF Answered, Request, Pcs

\* A request may go on to what is due, and be answered with what is allowed.
LEMMA GoesOn ==
    ASSUME NEW q, Sound(q), NEW pc \in Pcs \ {"answer", "free"},
           q.pc # "answer", Due(q, pc)
    PROVE  Sound(At(q, pc)) /\ Follows(q, At(q, pc))
<1>1. q \in Request
  BY DEF Sound
<1>2. Due(At(q, pc), pc)
  BY <1>1, AtFields DEF Due
<1>3. Sound(At(q, pc))
  BY <1>1, <1>2, AtFields DEF Sound
<1>4. Follows(q, At(q, pc))
  BY <1>1, AtFields DEF Follows
<1> QED BY <1>3, <1>4

LEMMA IsAnswered ==
    ASSUME NEW q, Sound(q), NEW s \in Statuses \ {0}, Allowed(q, s)
    PROVE  Sound(Answered(q, s)) /\ Follows(q, Answered(q, s))
<1>1. q \in Request
  BY DEF Sound
<1>2. Due(Answered(q, s), "answer") /\ Allowed(Answered(q, s), s)
  BY <1>1, AnsweredFields DEF Due, Allowed
<1>3. Sound(Answered(q, s))
  BY <1>1, <1>2, AnsweredFields DEF Sound
<1>4. Follows(q, Answered(q, s))
  BY <1>1, AnsweredFields DEF Follows
<1> QED BY <1>3, <1>4

\* Off the document every status is allowed.
LEMMA Elsewhere ==
    ASSUME NEW q, <<q.path, q.method>> \notin Operations, NEW s PROVE Allowed(q, s)
BY DEF Allowed

LEMMA DispatchedSound ==
    ASSUME NEW q, Sound(q), q.pc = "connected", NEW s \in Dispatched(q)
    PROVE  Sound(s) /\ Follows(q, s)
<1>1. s = WebRequest(q) => Sound(s) /\ Follows(q, s)
  BY GoesOn DEF WebRequest, Pcs, Due
<1>2. CASE q.path = "amap"
  <2>1. s \in {Answered(q, 503), WebRequest(q)}
    BY <1>2 DEF Dispatched
  <2> QED BY <1>1, <1>2, <2>1, IsAnswered DEF Allowed, Operations, Statuses
<1>3. CASE q.path = "metrics"
  <2>1. s \in {Answered(q, 401), Answered(q, 200), Answered(q, 405)}
    BY <1>3 DEF Dispatched
  <2> QED BY <1>3, <2>1, IsAnswered DEF Allowed, Operations, Statuses
<1>4. CASE q.path = "file" /\ q.method = "GET"
  <2>1. s = At(q, "file")
    BY <1>4 DEF Dispatched
  <2> QED BY <1>4, <2>1, GoesOn DEF Pcs, Due
<1>5. CASE q.path \notin {"amap", "metrics"} /\ ~ (q.path = "file" /\ q.method = "GET")
  BY <1>1, <1>5 DEF Dispatched
<1> QED BY <1>2, <1>3, <1>4, <1>5

LEMMA FileReadSound ==
    ASSUME NEW q, Sound(q), q.pc = "file", NEW s \in FileRead(q)
    PROVE  Sound(s) /\ Follows(q, s)
<1>1. q.path = "file"
  BY DEF Sound, Due
<1>2. s = At(q, "handler") \/ \E x \in {200, 400, 404, 500} : s = Answered(q, x)
  BY DEF FileRead
<1> QED BY <1>1, <1>2, GoesOn, IsAnswered DEF Pcs, Due, Allowed, Operations, Statuses

LEMMA ProxiedSound ==
    ASSUME NEW q, Sound(q), q.pc = "handler", q.path = "amap", NEW s \in Proxied(q)
    PROVE  Sound(s) /\ Follows(q, s)
<1>1. s = At(q, "upstream") \/ \E x \in {403, 404, 405, 413} : s = Answered(q, x)
  BY DEF Proxied
<1> QED BY <1>1, GoesOn, IsAnswered DEF Pcs, Due, Allowed, Operations, Statuses

LEMMA PlanBegunSound ==
    ASSUME NEW q, Sound(q), q.pc = "handler", q.path = "plan", q.method = "POST",
           NEW s \in PlanBegun(q)
    PROVE  Sound(s) /\ Follows(q, s)
<1> DEFINE begun == [q EXCEPT !.planning = TRUE]
<1>1. /\ q \in Request /\ begun \in Request /\ begun.path = q.path /\ begun.method = q.method
      /\ begun.pc = q.pc /\ begun.body = q.body /\ begun.proc = q.proc
      /\ begun.conn = q.conn /\ begun.status = q.status /\ begun.late = q.late
  BY DEF Sound, Request
<1>2. Sound(begun)
  BY <1>1 DEF Sound, Due, Allowed
<1>3. \/ \E x \in {400, 413, 415} : s = Answered(q, x)
      \/ s = At(begun, "plan")
      \/ s = Answered(begun, 408)
  BY DEF PlanBegun, Mapped, Readable, ReadError
<1> HIDE DEF begun
<1>4. \A x \in {400, 408, 413, 415} : Allowed(q, x) /\ Allowed(begun, x)
  BY <1>1 DEF Allowed, Documented
<1>5. Due(begun, "plan")
  BY <1>1 DEF Due
<1>6. Follows(begun, s) => Follows(q, s)
  BY <1>1 DEF Follows
<1>7. CASE \E x \in {400, 413, 415} : s = Answered(q, x)
  BY <1>4, <1>7, IsAnswered DEF Statuses
<1>8. CASE s = At(begun, "plan")
  BY <1>1, <1>2, <1>5, <1>6, <1>8, GoesOn DEF Pcs
<1>9. CASE s = Answered(begun, 408)
  BY <1>2, <1>4, <1>6, <1>9, IsAnswered DEF Statuses
<1> QED BY <1>3, <1>7, <1>8, <1>9

LEMMA HandledSound ==
    ASSUME NEW q, Sound(q), q.pc = "handler", NEW s \in Handled(q)
    PROVE  Sound(s) /\ Follows(q, s)
<1>1. q.path \in Paths /\ q.method \in Methods
  BY DEF Sound, Request
<1>2. ASSUME q.path \in UserPaths \cup {"plan"}, s = Answered(q, 429)
      PROVE  Sound(s) /\ Follows(q, s)
  <2>1. Allowed(q, 429)
    BY <1>1, <1>2 DEF Allowed, Operations, Documented, RuntimeErrors, BodyErrors, UserPaths
  <2> QED BY <1>2, <2>1, IsAnswered DEF Statuses
<1>3. ASSUME <<q.path, q.method>> \notin Operations, s = Answered(q, 405) \/ s = Answered(q, 404)
      PROVE  Sound(s) /\ Follows(q, s)
  BY <1>3, Elsewhere, IsAnswered DEF Statuses
<1>4. CASE q.path = "amap"
  BY <1>4, ProxiedSound DEF Handled, UserPaths
<1>5. CASE q.path = "info"
  <2>1. s = IF q.method = "GET" THEN Answered(q, 200) ELSE Answered(q, 405)
    BY <1>5 DEF Handled, UserPaths
  <2>2. q.method = "GET" => Allowed(q, 200)
    BY <1>5 DEF Allowed, Documented
  <2>3. q.method # "GET" => <<q.path, q.method>> \notin Operations
    BY <1>5 DEF Operations
  <2> QED BY <1>3, <2>1, <2>2, <2>3, IsAnswered DEF Statuses
<1>6. CASE q.path = "ready"
  <2>1. s = IF q.method = "GET" THEN At(q, "ready") ELSE Answered(q, 405)
    BY <1>6 DEF Handled, UserPaths
  <2>2. q.method # "GET" => <<q.path, q.method>> \notin Operations
    BY <1>6 DEF Operations
  <2> QED BY <1>3, <1>6, <2>1, <2>2, GoesOn DEF Pcs, Due
<1>7. CASE q.path = "session"
  <2>1. \/ s = Answered(q, 429)
        \/ s = CASE q.method = "POST" -> At(q, "call")
                  [] q.method = "DELETE" -> At(q, "auth")
                  [] OTHER -> Answered(q, 405)
    BY <1>7 DEF Handled
  <2>2. q.method = "GET" => <<q.path, q.method>> \notin Operations
    BY <1>7 DEF Operations
  <2>3. q.method = "POST" => Due(q, "call")
    BY <1>7 DEF Due, UserPaths, Operations
  <2>4. q.method = "DELETE" => Due(q, "auth")
    BY <1>7 DEF Due, UserPaths
  <2>5. q.path \in UserPaths
    BY <1>7 DEF UserPaths
  <2> QED BY <1>1, <1>2, <1>3, <2>1, <2>2, <2>3, <2>4, <2>5, GoesOn DEF Pcs, Methods
<1>8. CASE q.path \in UserPaths \ {"session"}
  <2>1. s \in {Answered(q, 429), At(q, "auth")}
    BY <1>8 DEF Handled, UserPaths
  <2>2. Due(q, "auth")
    BY <1>8 DEF Due
  <2> QED BY <1>2, <1>8, <2>1, <2>2, GoesOn DEF Pcs
<1>9. CASE q.path = "plan"
  <2>1. \/ s = Answered(q, 429)
        \/ q.method = "POST" /\ s \in PlanBegun(q)
        \/ q.method # "POST" /\ s = Answered(q, 405)
    BY <1>9 DEF Handled, UserPaths
  <2>2. q.method # "POST" => <<q.path, q.method>> \notin Operations
    BY <1>9 DEF Operations
  <2> QED BY <1>2, <1>3, <1>9, <2>1, <2>2, PlanBegunSound
<1>10. CASE q.path \in {"metrics", "file", "unknown"}
  <2>1. s = Answered(q, 404)
    BY <1>10 DEF Handled, UserPaths
  <2>2. <<q.path, q.method>> \notin Operations
    BY <1>10 DEF Operations
  <2> QED BY <1>3, <2>1, <2>2
<1> QED BY <1>1, <1>4, <1>5, <1>6, <1>7, <1>8, <1>9, <1>10 DEF Paths, UserPaths

\* Every operation of the user data documents a 500, and a 401 where a user is asked for.
LEMMA UserDataErrors ==
    ASSUME NEW q, q.path \in UserPaths
    PROVE  /\ Allowed(q, 500)
           /\ (q.path = "session" => q.method = "DELETE") => Allowed(q, 401)
BY DEF UserPaths, Allowed, Operations, Documented, RuntimeErrors, BodyErrors

LEMMA AuthenticatedSound ==
    ASSUME NEW q, Sound(q), q.pc = "auth", NEW s \in Authenticated(q)
    PROVE  Sound(s) /\ Follows(q, s)
<1>1. Due(q, "auth")
  BY DEF Sound
<1>2. CASE <<q.path, q.method>> \notin Operations
  <2>1. <<q.path, q.method>> \notin ReadsBody
    BY <1>2 DEF Operations, ReadsBody
  <2>2. q.body = "none"
    BY <2>1 DEF Sound
  <2>3. s = Answered(q, 405)
    BY <1>2, <2>1, <2>2 DEF Authenticated
  <2> QED BY <1>2, <2>3, Elsewhere, IsAnswered DEF Statuses
<1>3. CASE s = Answered(q, 500)
  BY <1>1, <1>3, UserDataErrors, IsAnswered DEF Due, Statuses
<1>4. CASE q.path = "saved" /\ q.body = "invalid" /\ s \in {Answered(q, 400), Answered(q, 403)}
  <2>1. q.method = "POST"
    BY <1>4 DEF Sound, ReadsBody
  <2>2. Allowed(q, 400) /\ Allowed(q, 403)
    BY <1>4, <2>1 DEF Allowed, Documented
  <2> QED BY <1>4, <2>2, IsAnswered DEF Statuses
<1>5. CASE /\ <<q.path, q.method>> \in Operations /\ s = At(q, "call")
           /\ ~ (q.path = "saved" /\ q.body = "invalid")
  <2>1. Due(q, "call")
    BY <1>1, <1>5 DEF Due
  <2> QED BY <1>5, <2>1, GoesOn DEF Pcs
<1> QED BY <1>2, <1>3, <1>4, <1>5 DEF Authenticated

LEMMA CalledSound ==
    ASSUME NEW q, Sound(q), q.pc = "call", NEW s \in Called(q)
    PROVE  Sound(s) /\ Follows(q, s)
<1>1. q.path \in UserPaths /\ <<q.path, q.method>> \in Operations
  BY DEF Sound, Due
<1>2. CASE s = Answered(q, 500)
  BY <1>1, <1>2, UserDataErrors, IsAnswered DEF Statuses
<1>3. CASE s = At(q, "write") /\ q.path \in {"saved", "feedback"} /\ q.method = "POST"
  <2>1. Due(q, "write")
    BY <1>3 DEF Due
  <2> QED BY <1>3, <2>1, GoesOn DEF Pcs
<1>4. ASSUME NEW x \in Documented(q.path, q.method) \cap (Statuses \ {0}), s = Answered(q, x)
      PROVE  Sound(s) /\ Follows(q, s)
  BY <1>4, IsAnswered DEF Allowed
<1>5. CASE q.path = "session"
  <2>1. \/ s = Answered(q, 500)
        \/ q.method = "POST" /\ s = Answered(q, 201)
        \/ q.method = "DELETE" /\ s \in {Answered(q, 200), Answered(q, 401)}
    BY <1>1, <1>5 DEF Called, Operations
  <2>2. /\ q.method = "POST" => 201 \in Documented(q.path, q.method)
        /\ q.method = "DELETE" => {200, 401} \subseteq Documented(q.path, q.method)
    BY <1>5 DEF Documented
  <2> QED BY <1>2, <1>4, <2>1, <2>2 DEF Statuses
<1>6. CASE q.path = "saved"
  <2>1. \/ s = Answered(q, 500)
        \/ q.method = "GET" /\ s = Answered(q, 200)
        \/ q.method = "POST" /\ s \in {Answered(q, 201), At(q, "write")}
    BY <1>1, <1>6 DEF Called, Operations
  <2>2. /\ q.method = "GET" => 200 \in Documented(q.path, q.method)
        /\ q.method = "POST" => 201 \in Documented(q.path, q.method)
    BY <1>6 DEF Documented
  <2> QED BY <1>2, <1>3, <1>4, <1>6, <2>1, <2>2 DEF Statuses
<1>7. CASE q.path = "savedRoute"
  <2>1. s \in {Answered(q, 500), Answered(q, 200), Answered(q, 404)}
    BY <1>7 DEF Called
  <2>2. {200, 404} \subseteq Documented(q.path, q.method)
    BY <1>7 DEF Documented
  <2> QED BY <1>2, <1>4, <2>1, <2>2 DEF Statuses
<1>8. CASE q.path = "feedback"
  <2>1. s \in {Answered(q, 500), Answered(q, 404), Answered(q, 400), At(q, "write")}
    BY <1>8 DEF Called
  <2>2. {400, 404} \subseteq Documented(q.path, q.method) /\ q.method = "POST"
    BY <1>1, <1>8 DEF Documented, Operations
  <2> QED BY <1>2, <1>3, <1>4, <1>8, <2>1, <2>2 DEF Statuses
<1> QED BY <1>1, <1>5, <1>6, <1>7, <1>8 DEF UserPaths

\* A closed store answers none but those who are gone.
LEMMA LateSound ==
    ASSUME NEW q, Sound(q), ~ q.conn, NEW x \in {500, 503}
    PROVE  Sound(Late(q, x)) /\ Follows(q, Late(q, x))
<1> DEFINE a == Answered(q, x)
<1>1. Allowed(q, x) /\ x \in Statuses \ {0} /\ q \in Request
  BY DEF Allowed, Statuses, Sound
<1>2. Sound(a) /\ Follows(q, a) /\ a.conn = q.conn
  BY <1>1, IsAnswered, AnsweredFields
<1>3. Late(q, x) = [a EXCEPT !.late = TRUE]
  BY DEF Late
<1> HIDE DEF a
<1>4. a \in Request /\ Late(q, x) \in Request
  <2>1. a \in Request
    BY <1>2 DEF Sound
  <2>2. [a EXCEPT !.late = TRUE] \in Request
    BY <2>1 DEF Request
  <2> QED BY <1>3, <2>1, <2>2
<1>5. /\ Late(q, x).pc = a.pc /\ Late(q, x).path = a.path /\ Late(q, x).method = a.method
      /\ Late(q, x).body = a.body /\ Late(q, x).proc = a.proc /\ Late(q, x).conn = a.conn
      /\ Late(q, x).status = a.status /\ Late(q, x).planning = a.planning
  BY <1>3, <1>4 DEF Request
<1>6. Sound(Late(q, x))
  BY <1>2, <1>4, <1>5 DEF Sound, Due, Allowed
<1>7. Follows(q, Late(q, x))
  BY <1>2, <1>5 DEF Follows
<1> QED BY <1>6, <1>7

\* The end of the planning changes nothing else of a request.
LEMMA PlanningEnds ==
    ASSUME NEW q, Sound(q), q.pc # "free"
    PROVE  LET s == [q EXCEPT !.planning = FALSE] IN Sound(s) /\ Follows(q, s)
<1> DEFINE s == [q EXCEPT !.planning = FALSE]
<1>1. /\ q \in Request /\ s \in Request /\ s.path = q.path /\ s.method = q.method
      /\ s.pc = q.pc /\ s.body = q.body /\ s.proc = q.proc
      /\ s.conn = q.conn /\ s.status = q.status /\ s.late = q.late
  BY DEF Sound, Request
<1> HIDE DEF s
<1>2. Sound(s) /\ Follows(q, s)
  BY <1>1 DEF Sound, Due, Allowed, Follows
<1> QED BY <1>2 DEF s

\* What is done is sound, whatever was asked.
LEMMA DoneSound ==
    ASSUME NEW proc \in Processes, NEW conn \in BOOLEAN, NEW planning \in BOOLEAN
    PROVE  Sound([Free EXCEPT !.pc = "done", !.proc = proc, !.conn = conn,
                              !.planning = planning])
BY ServerAssumption DEF Free, Sound, Request, Pcs, Paths, Methods, Bodies, Statuses, Due, ReadsBody

LEMMA FreeSound == Free \in Request /\ Sound(Free)
BY ServerAssumption DEF Free, Sound, Request, Pcs, Paths, Methods, Bodies, Statuses, Due, ReadsBody

LEMMA CutSound ==
    ASSUME NEW q, Sound(q), q.pc # "free"
    PROVE  Sound(Cut(q)) /\ Follows(q, Cut(q)) /\ ~ Cut(q).conn
<1> DEFINE cut == [q EXCEPT !.conn = FALSE]
<1>1. /\ q \in Request /\ cut \in Request /\ cut.path = q.path /\ cut.method = q.method
      /\ cut.pc = q.pc /\ cut.body = q.body /\ cut.proc = q.proc
      /\ ~ cut.conn /\ cut.status = q.status /\ cut.late = q.late
  BY DEF Sound, Request
<1>2. q.pc \in {"connected"} \/ Cut(q) \in {cut, Answered(cut, 500)}
  BY DEF Cut
<1>3. q.pc = "connected" => Cut(q) = At(cut, "done")
  BY DEF Cut
<1> HIDE DEF cut
<1>4. Sound(cut) /\ (\A s : Follows(cut, s) => Follows(q, s))
  BY <1>1 DEF Sound, Due, Allowed, Follows
<1>5. Follows(q, cut)
  BY <1>1 DEF Follows
<1>6. q.pc = "connected" => Sound(At(cut, "done")) /\ Follows(cut, At(cut, "done"))
  BY <1>1, <1>4, GoesOn DEF Due, Pcs
<1>7. Sound(Answered(cut, 500)) /\ Follows(cut, Answered(cut, 500))
  <2>1. Allowed(cut, 500) /\ 500 \in Statuses \ {0}
    BY <1>1 DEF Allowed, Statuses
  <2> QED BY <1>4, <2>1, IsAnswered
<1>8. ~ At(cut, "done").conn /\ ~ Answered(cut, 500).conn
  BY <1>1, AtFields, AnsweredFields DEF Pcs, Statuses
<1> QED BY <1>1, <1>2, <1>3, <1>4, <1>5, <1>6, <1>7, <1>8

-----------------------------------------------------------------------------
(* The steps of the requests. *)

LEMMA BecomesPreserves ==
    ASSUME ServerInv, NEW r \in Requests, NEW outcomes, Becomes(r, outcomes),
           \A s \in outcomes : Sound(s) /\ Follows(req[r], s)
    PROVE  ServerInv'
<1>1. PICK s \in outcomes : req' = [req EXCEPT ![r] = s]
  BY DEF Becomes
<1>2. UNCHANGED <<migrationVars, phase, starts>> /\ store' = store
  BY DEF Becomes, migrationVars
<1>3. Sound(s) /\ Follows(req[r], s) /\ s \in Request
  BY <1>1 DEF Sound
<1>4. MigrationInv'
  BY <1>2, MigrationStutters DEF ServerInv
<1>5. RequestsInv'
  BY <1>1, <1>3 DEF ServerInv, RequestsInv
<1>6. ProcessesInv'
  BY <1>2 DEF ServerInv, ProcessesInv
<1>7. ServesInv'
  BY <1>1, <1>2, <1>3 DEF ServerInv, ServesInv, RequestsInv, Follows
<1> QED BY <1>4, <1>5, <1>6, <1>7 DEF ServerInv

\* A connection that is open keeps the store open.
LEMMA OpenWhileConnected ==
    ASSUME ServerInv, NEW r \in Requests, ~ Opened(req[r]) PROVE ~ req[r].conn
<1>1. req[r].proc \in Processes
  BY DEF ServerInv, RequestsInv, Sound, Request
<1> QED BY <1>1 DEF ServerInv, ServesInv, Opened

LEMMA ServePreserves ==
    ASSUME ServerInv, NEW r \in Requests, Serve(r) PROVE ServerInv'
<1> DEFINE q == req[r]
<1>1. Sound(q) /\ q \in Request
  BY DEF ServerInv, RequestsInv, Sound
<1>2. ~ Opened(q) => ~ q.conn
  BY OpenWhileConnected
<1>3. ASSUME NEW outcomes, Becomes(r, outcomes), \A s \in outcomes : Sound(s) /\ Follows(q, s)
      PROVE  ServerInv'
  BY <1>3, BecomesPreserves
<1>4. CASE ReadFile(r)
  BY <1>1, <1>3, <1>4, FileReadSound DEF ReadFile
<1>5. CASE Handle(r)
  BY <1>1, <1>3, <1>5, HandledSound DEF Handle
<1>6. CASE Authenticate(r)
  <2> DEFINE out == {Answered(q, 401)} \cup
                    IF Opened(q) THEN {Answered(q, 500)} \cup Authenticated(q) ELSE {Late(q, 500)}
  <2>1. q.pc = "auth" /\ Becomes(r, out)
    BY <1>6 DEF Authenticate
  <2>2. Allowed(q, 401) /\ Allowed(q, 500)
    BY <1>1, <2>1, UserDataErrors DEF Sound, Due
  <2>3. /\ Sound(Answered(q, 401)) /\ Follows(q, Answered(q, 401))
        /\ Sound(Answered(q, 500)) /\ Follows(q, Answered(q, 500))
    BY <1>1, <2>2, IsAnswered DEF Statuses
  <2>4. ~ Opened(q) => Sound(Late(q, 500)) /\ Follows(q, Late(q, 500))
    BY <1>1, <1>2, LateSound
  <2>5. \A s \in Authenticated(q) : Sound(s) /\ Follows(q, s)
    BY <1>1, <2>1, AuthenticatedSound
  <2>6. \A s \in out : Sound(s) /\ Follows(q, s)
    BY <2>3, <2>4, <2>5
  <2> QED BY <1>3, <2>1, <2>6
<1>7. CASE CallStore(r)
  <2> DEFINE out == IF Opened(q) THEN Called(q) ELSE {Late(q, 500)}
  <2>1. q.pc = "call" /\ Becomes(r, out)
    BY <1>7 DEF CallStore
  <2>2. \A s \in out : Sound(s) /\ Follows(q, s)
    BY <1>1, <1>2, <2>1, LateSound, CalledSound
  <2> QED BY <1>3, <2>1, <2>2
<1>8. CASE WriteStore(r)
  <2> DEFINE out == IF Opened(q) THEN {Answered(q, 201), Answered(q, 500)} ELSE {Late(q, 500)}
  <2>1. q.pc = "write" /\ Becomes(r, out)
    BY <1>8 DEF WriteStore
  <2>2. q.path \in {"saved", "feedback"} /\ q.method = "POST"
    BY <1>1, <2>1 DEF Sound, Due
  <2>3. Allowed(q, 201) /\ Allowed(q, 500)
    BY <2>2 DEF Allowed, Documented, BodyErrors, RuntimeErrors
  <2>4. /\ Sound(Answered(q, 201)) /\ Follows(q, Answered(q, 201))
        /\ Sound(Answered(q, 500)) /\ Follows(q, Answered(q, 500))
    BY <1>1, <2>3, IsAnswered DEF Statuses
  <2>5. \A s \in out : Sound(s) /\ Follows(q, s)
    BY <1>1, <1>2, <2>4, LateSound
  <2> QED BY <1>3, <2>1, <2>5
<1>9. CASE CheckReady(r)
  <2> DEFINE out == IF Opened(q) THEN {Answered(q, 200), Answered(q, 503)} ELSE {Late(q, 503)}
  <2>1. q.pc = "ready" /\ Becomes(r, out)
    BY <1>9 DEF CheckReady
  <2>2. Allowed(q, 200) /\ Allowed(q, 503)
    BY <1>1, <2>1 DEF Sound, Due, Allowed, Documented
  <2>3. /\ Sound(Answered(q, 200)) /\ Follows(q, Answered(q, 200))
        /\ Sound(Answered(q, 503)) /\ Follows(q, Answered(q, 503))
    BY <1>1, <2>2, IsAnswered DEF Statuses
  <2>4. \A s \in out : Sound(s) /\ Follows(q, s)
    BY <1>1, <1>2, <2>3, LateSound
  <2> QED BY <1>3, <2>1, <2>4
<1>10. CASE PlanTimesOut(r) \/ PlanAborted(r)
  <2>1. PICK x \in {504, 408} : q.pc = "plan" /\ Becomes(r, {Answered(q, x)})
    BY <1>10 DEF PlanTimesOut, PlanAborted
  <2>2. Allowed(q, x)
    BY <1>1, <2>1 DEF Sound, Due, Allowed, Documented
  <2>3. Sound(Answered(q, x)) /\ Follows(q, Answered(q, x))
    BY <1>1, <2>2, IsAnswered DEF Statuses
  <2> QED BY <1>3, <2>1, <2>3
<1>11. CASE PlanNotices(r)
  <2>1. q.pc # "free"
    BY <1>1, <1>11 DEF PlanNotices, Sound
  <2> QED BY <1>1, <1>3, <1>11, <2>1, PlanningEnds DEF PlanNotices
<1>12. CASE UpstreamAborted(r)
  <2>1. q.pc = "upstream" /\ Becomes(r, {Answered(q, 502)})
    BY <1>12 DEF UpstreamAborted
  <2>2. Allowed(q, 502)
    BY <1>1, <2>1 DEF Sound, Due, Allowed, Operations
  <2>3. Sound(Answered(q, 502)) /\ Follows(q, Answered(q, 502))
    BY <1>1, <2>2, IsAnswered DEF Statuses
  <2> QED BY <1>3, <2>1, <2>3
<1>13. CASE Respond(r)
  <2> DEFINE s == [Free EXCEPT !.pc = "done", !.proc = q.proc, !.conn = q.conn,
                               !.planning = q.planning]
  <2>1. q.pc = "answer" /\ Becomes(r, {s})
    BY <1>13 DEF Respond
  <2>2. Sound(s)
    BY <1>1, DoneSound DEF Request
  <2>3. Follows(q, s)
    BY DEF Follows, Free
  <2> QED BY <1>3, <2>1, <2>2, <2>3
<1> QED BY <1>4, <1>5, <1>6, <1>7, <1>8, <1>9, <1>10, <1>11, <1>12, <1>13 DEF Serve

LEMMA OutsidePreserves ==
    ASSUME ServerInv, NEW r \in Requests, Outside(r) PROVE ServerInv'
<1> DEFINE q == req[r]
<1>1. Sound(q) /\ q \in Request
  BY DEF ServerInv, RequestsInv, Sound
<1>2. ASSUME NEW outcomes, Becomes(r, outcomes), \A s \in outcomes : Sound(s) /\ Follows(q, s)
      PROVE  ServerInv'
  BY <1>2, BecomesPreserves
<1>3. CASE \E p \in Processes : Accept(r, p)
  <2>1. PICK p \in Processes : Accept(r, p)
    BY <1>3
  <2> DEFINE s == [Free EXCEPT !.pc = "connected", !.proc = p, !.conn = TRUE]
  <2>2. phase[p] = "listening" /\ req' = [req EXCEPT ![r] = s]
    BY <2>1 DEF Accept, Becomes
  <2>3. UNCHANGED <<migrationVars, phase, starts>> /\ store' = store
    BY <2>1 DEF Accept, Becomes, migrationVars
  <2>4. s \in Request /\ s.proc = p
    BY ServerAssumption DEF Free, Request, Pcs, Paths, Methods, Bodies, Statuses
  <2>5. Sound(s)
    BY <2>4 DEF Free, Sound, Due, ReadsBody
  <2> HIDE DEF s
  <2>6. MigrationInv'
    BY <2>3, MigrationStutters DEF ServerInv
  <2>7. RequestsInv'
    BY <2>2, <2>4, <2>5 DEF ServerInv, RequestsInv
  <2>8. ProcessesInv'
    BY <2>3 DEF ServerInv, ProcessesInv
  <2>9. ServesInv'
    BY <2>2, <2>3, <2>4 DEF ServerInv, ServesInv, RequestsInv
  <2> QED BY <2>6, <2>7, <2>8, <2>9 DEF ServerInv
<1>4. CASE Receive(r)
  <2>1. PICK i \in Inputs :
            Becomes(r, Dispatched([q EXCEPT !.path = i.path, !.method = i.method, !.body = i.body]))
    BY <1>4 DEF Receive
  <2> DEFINE asked == [q EXCEPT !.path = i.path, !.method = i.method, !.body = i.body]
  <2>2. q.pc = "connected"
    BY <1>4 DEF Receive
  <2>3. /\ i.path \in Paths /\ i.method \in Methods /\ i.body \in Bodies
        /\ <<i.path, i.method>> \notin ReadsBody => i.body = "none"
    BY DEF Inputs
  <2>4. /\ asked \in Request /\ asked.path = i.path /\ asked.method = i.method
        /\ asked.body = i.body /\ asked.pc = q.pc /\ asked.proc = q.proc
        /\ asked.conn = q.conn /\ asked.status = q.status /\ asked.late = q.late
    BY <1>1, <2>3 DEF Request
  <2> HIDE DEF asked
  <2>5. Sound(asked)
    BY <1>1, <2>2, <2>3, <2>4 DEF Sound, Due
  <2>6. \A s \in Dispatched(asked) : Sound(s) /\ Follows(q, s)
    BY <2>2, <2>4, <2>5, DispatchedSound DEF Follows
  <2> QED BY <1>2, <2>1, <2>6 DEF asked
<1>5. CASE ReadBody(r)
  <2>1. q.pc = "body" /\ Becomes(r, {At(q, "handler")})
    BY <1>5 DEF ReadBody
  <2>2. Due(q, "handler")
    BY DEF Due
  <2>3. Sound(At(q, "handler")) /\ Follows(q, At(q, "handler"))
    BY <1>1, <2>1, <2>2, GoesOn DEF Pcs
  <2> QED BY <1>2, <2>1, <2>3
<1>6. CASE PlanSettles(r)
  <2>1. q.pc = "plan" /\ Becomes(r, {[Answered(q, x) EXCEPT !.planning = FALSE] : x \in PlanStatuses})
    BY <1>6 DEF PlanSettles
  <2>2. ASSUME NEW x \in PlanStatuses
        PROVE  LET s == [Answered(q, x) EXCEPT !.planning = FALSE] IN Sound(s) /\ Follows(q, s)
    <3> DEFINE a == Answered(q, x)
    <3>1. Allowed(q, x) /\ x \in Statuses \ {0}
      BY <1>1, <2>1 DEF Sound, Due, Allowed, Documented, PlanStatuses, Statuses
    <3>2. Sound(a) /\ Follows(q, a)
      BY <1>1, <3>1, IsAnswered
    <3>3. Sound([a EXCEPT !.planning = FALSE]) /\ Follows(a, [a EXCEPT !.planning = FALSE])
      BY <3>2, PlanningEnds DEF Follows
    <3> HIDE DEF a
    <3>4. Follows(q, [a EXCEPT !.planning = FALSE])
      BY <3>2, <3>3 DEF Follows
    <3> QED BY <3>3, <3>4 DEF a
  <2>3. \A s \in {[Answered(q, x) EXCEPT !.planning = FALSE] : x \in PlanStatuses} :
            Sound(s) /\ Follows(q, s)
    BY <2>2
  <2> QED BY <1>2, <2>1, <2>3
<1>7. CASE UpstreamAnswers(r)
  <2>1. q.pc = "upstream" /\ Becomes(r, {Answered(q, x) : x \in {200, 502}})
    BY <1>7 DEF UpstreamAnswers
  <2>2. \A x \in {200, 502} : Allowed(q, x)
    BY <1>1, <2>1 DEF Sound, Due, Allowed, Operations
  <2>3. \A s \in {Answered(q, x) : x \in {200, 502}} : Sound(s) /\ Follows(q, s)
    BY <1>1, <2>2, IsAnswered DEF Statuses
  <2> QED BY <1>2, <2>1, <2>3
<1>8. CASE Disconnect(r)
  <2>1. q.pc # "free" /\ Becomes(r, {Cut(q)})
    BY <1>1, <1>8 DEF Disconnect, Sound
  <2> QED BY <1>1, <1>2, <2>1, CutSound
<1> QED BY <1>3, <1>4, <1>5, <1>6, <1>7, <1>8 DEF Outside

-----------------------------------------------------------------------------
(* The steps of the processes. *)

\* The connections of the requests in S are cut, the others left alone.
LEMMA CutPreserves ==
    ASSUME ServerInv, NEW S, \A r \in S : req[r].pc # "free",
           req' = [r \in Requests |-> IF r \in S THEN Cut(req[r]) ELSE req[r]]
    PROVE  /\ RequestsInv'
           /\ \A r \in Requests : req'[r].proc = req[r].proc /\ (req'[r].conn => req[r].conn)
<1>1. \A r \in Requests : Sound(req[r])
  BY DEF ServerInv, RequestsInv
<1>2. \A r \in Requests : Sound(req'[r]) /\ (r \in S => Follows(req[r], req'[r]))
                         /\ (r \notin S => req'[r] = req[r])
  BY <1>1, CutSound
<1>3. \A r \in Requests : req'[r] \in Request
  BY <1>2 DEF Sound
<1>4. RequestsInv'
  BY <1>2, <1>3 DEF RequestsInv
<1>5. \A r \in Requests : req'[r].proc = req[r].proc /\ (req'[r].conn => req[r].conn)
  BY <1>2 DEF Follows
<1> QED BY <1>4, <1>5

\* A step of one process leaves the stores of the others alone.
LEMMA OneStore ==
    ASSUME ServerInv, NEW p \in Processes, Upgrade(p) \/ CloseFile(p)
    PROVE  /\ MigrationInv'
           /\ \A q \in Processes \ {p} : store'[q] = store[q]
<1>1. MigrationInv'
  BY MigrationStep DEF ServerInv
<1>2. store \in [Processes -> {"closed", "opened", "begin", "run", "commit", "check", "open"}]
  BY DEF ServerInv, MigrationInv, MigrationTypeOK
<1>3. \E x : store' = [store EXCEPT ![p] = x]
  <2>1. CASE OpenFile(p) \/ BeginImmediate(p) \/ RunMigration(p) \/ CheckVersion(p) \/ CloseFile(p)
    BY <2>1 DEF OpenFile, BeginImmediate, RunMigration, CheckVersion, CloseFile
  <2>2. CASE ReadVersion(p)
    BY <2>2 DEF ReadVersion
  <2>3. CASE Commit(p)
    BY <2>3 DEF Commit
  <2> QED BY <2>1, <2>2, <2>3 DEF Upgrade
<1> QED BY <1>1, <1>2, <1>3

\* A process that does not serve, before and after, may do with its store what it likes.
LEMMA IdleStep ==
    ASSUME ServerInv, NEW p \in Processes, NEW x \in {"off", "starting", "closed"},
           Upgrade(p) \/ CloseFile(p) \/ UNCHANGED migrationVars,
           phase' = [phase EXCEPT ![p] = x], UNCHANGED req, starts' \in 0 .. MaxStarts,
           \A r \in Requests : req[r].proc = p => ~ req[r].conn
    PROVE  ServerInv'
<1>1. MigrationInv' /\ \A q \in Processes \ {p} : store'[q] = store[q]
  BY OneStore, MigrationStutters DEF ServerInv, migrationVars
<1>2. RequestsInv'
  BY DEF ServerInv, RequestsInv
<1>3. ProcessesInv'
  BY DEF ServerInv, ProcessesInv
<1>4. ServesInv'
  BY <1>1 DEF ServerInv, ServesInv, ProcessesInv
<1> QED BY <1>1, <1>2, <1>3, <1>4 DEF ServerInv

LEMMA NotServing ==
    ASSUME ServerInv, NEW p \in Processes, phase[p] \notin {"listening", "closing"}
    PROVE  \A r \in Requests : req[r].proc = p => ~ req[r].conn
BY DEF ServerInv, ServesInv

LEMMA OperatePreserves ==
    ASSUME ServerInv, NEW p \in Processes, Operate(p) PROVE ServerInv'
<1>1. phase \in [Processes -> {"off", "starting", "listening", "closing", "closed"}]
      /\ starts \in 0 .. MaxStarts /\ MaxStarts \in Nat
  BY ServerAssumption DEF ServerInv, ProcessesInv
<1>2. CASE Start(p)
  <2>1. Upgrade(p) /\ phase[p] = "off" /\ starts' \in 0 .. MaxStarts
    BY <1>1, <1>2 DEF Start, Upgrade
  <2> QED BY <1>2, <2>1, NotServing, IdleStep DEF Start
<1>3. CASE OpenStore(p)
  <2>1. /\ phase[p] = "starting" /\ Upgrade(p) /\ UNCHANGED <<req, starts>>
        /\ phase' = [phase EXCEPT ![p] = "starting"]
    BY <1>1, <1>3 DEF OpenStore
  <2> QED BY <1>1, <2>1, NotServing, IdleStep
<1>4. CASE StartFails(p)
  <2>1. /\ phase[p] = "starting" /\ CloseFile(p) /\ UNCHANGED <<req, starts>>
        /\ phase' = [phase EXCEPT ![p] = "off"]
    BY <1>4 DEF StartFails, OpenFails
  <2> QED BY <1>1, <2>1, NotServing, IdleStep
<1>5. CASE Listen(p) /\ \E q \in Processes : phase[q] = "listening"
  <2>1. /\ phase[p] = "starting" /\ CloseFile(p) /\ UNCHANGED <<req, starts>>
        /\ phase' = [phase EXCEPT ![p] = "off"]
    BY <1>5 DEF Listen
  <2> QED BY <1>1, <2>1, NotServing, IdleStep
<1>6. CASE Listen(p) /\ ~ \E q \in Processes : phase[q] = "listening"
  <2>1. /\ store[p] = "open" /\ UNCHANGED migrationVars /\ UNCHANGED <<req, starts>>
        /\ phase' = [phase EXCEPT ![p] = "listening"] /\ store' = store
    BY <1>6 DEF Listen, migrationVars
  <2>2. MigrationInv'
    BY <2>1, MigrationStutters DEF ServerInv
  <2>3. RequestsInv' /\ ProcessesInv'
    BY <2>1 DEF ServerInv, RequestsInv, ProcessesInv
  <2>4. ServesInv'
    BY <1>1, <2>1 DEF ServerInv, ServesInv, RequestsInv, Request
  <2> QED BY <2>2, <2>3, <2>4 DEF ServerInv
<1>7. CASE ShutDown(p)
  <2> DEFINE S == {r \in Of(p) : req[r].pc = "done"}
  <2>1. /\ phase[p] = "listening" /\ phase' = [phase EXCEPT ![p] = "closing"]
        /\ UNCHANGED migrationVars /\ starts' = starts /\ store' = store
        /\ req' = [r \in Requests |-> IF r \in S THEN Cut(req[r]) ELSE req[r]]
    BY <1>7 DEF ShutDown, migrationVars
  <2>2. \A r \in S : req[r].pc # "free"
    OBVIOUS
  <2> HIDE DEF S
  <2>3. /\ RequestsInv'
        /\ \A r \in Requests : req'[r].proc = req[r].proc /\ (req'[r].conn => req[r].conn)
    BY <2>1, <2>2, CutPreserves
  <2>4. MigrationInv' /\ ProcessesInv'
    BY <2>1, MigrationStutters DEF ServerInv, ProcessesInv
  <2>5. ServesInv'
    <3>1. \A r \in Requests : req'[r].conn => phase'[req'[r].proc] \in {"listening", "closing"}
      <4> SUFFICES ASSUME NEW r \in Requests, req'[r].conn
                   PROVE  phase'[req'[r].proc] \in {"listening", "closing"}
        OBVIOUS
      <4>1. req[r].conn /\ req'[r].proc = req[r].proc
        BY <2>3
      <4>2. phase[req[r].proc] \in {"listening", "closing"}
        BY <4>1 DEF ServerInv, ServesInv
      <4> QED BY <1>1, <2>1, <4>1, <4>2
    <3>2. \A q \in Processes : phase'[q] \in {"listening", "closing"} => store'[q] = "open"
      BY <1>1, <2>1, <2>2 DEF ServerInv, ServesInv
    <3> QED BY <3>1, <3>2 DEF ServesInv
  <2> QED BY <2>3, <2>4, <2>5 DEF ServerInv
<1>8. CASE Crash(p)
  <2> DEFINE gone == [Free EXCEPT !.pc = "done"]
  <2>1. /\ phase' = [phase EXCEPT ![p] = "off"] /\ starts' = starts
        /\ req' = [r \in Requests |-> IF r \in Of(p) THEN gone ELSE req[r]]
        /\ UNCHANGED migrationVars \/ CloseFile(p)
    BY <1>8 DEF Crash
  <2>2. Sound(gone) /\ gone \in Request /\ ~ gone.conn
    BY ServerAssumption DEF Free, Sound, Request, Pcs, Paths, Methods, Bodies, Statuses, Due, ReadsBody
  <2> HIDE DEF gone
  <2>3. MigrationInv' /\ \A q \in Processes \ {p} : store'[q] = store[q]
    BY <2>1, OneStore, MigrationStutters DEF ServerInv, migrationVars
  <2>4. RequestsInv'
    BY <2>1, <2>2 DEF ServerInv, RequestsInv
  <2>5. ProcessesInv'
    BY <2>1 DEF ServerInv, ProcessesInv
  <2>6. \A r \in Requests : req'[r].conn => req'[r] = req[r] /\ req[r].conn /\ req[r].proc # p
    BY <2>1, <2>2 DEF Of, ServerInv, RequestsInv, Sound
  <2>7. ServesInv'
    BY <1>1, <2>1, <2>3, <2>6 DEF ServerInv, ServesInv, RequestsInv, Request
  <2> QED BY <2>3, <2>4, <2>5, <2>7 DEF ServerInv
<1>9. CASE Misconfigured(p)
  <2>1. /\ phase[p] = "off" /\ starts' \in 0 .. MaxStarts /\ UNCHANGED <<migrationVars, req>>
        /\ phase' = [phase EXCEPT ![p] = "off"]
    BY <1>1, <1>9 DEF Misconfigured
  <2> QED BY <2>1, NotServing, IdleStep
<1> QED BY <1>2, <1>3, <1>4, <1>5, <1>6, <1>7, <1>8, <1>9 DEF Operate

LEMMA ClosePreserves ==
    ASSUME ServerInv, NEW p \in Processes, Close(p) PROVE ServerInv'
<1>1. phase \in [Processes -> {"off", "starting", "listening", "closing", "closed"}]
      /\ starts \in 0 .. MaxStarts
  BY DEF ServerInv, ProcessesInv
<1>2. CASE ForceClose(p)
  <2> DEFINE S == {r \in Of(p) : req[r].conn}
  <2>1. /\ UNCHANGED <<migrationVars, phase, starts>>
        /\ req' = [r \in Requests |-> IF r \in Of(p) /\ req[r].conn THEN Cut(req[r]) ELSE req[r]]
    BY <1>2 DEF ForceClose
  <2>2. /\ \A r \in S : req[r].pc # "free"
        /\ req' = [r \in Requests |-> IF r \in S THEN Cut(req[r]) ELSE req[r]]
        /\ store' = store
    BY <2>1 DEF Of, migrationVars
  <2> HIDE DEF S
  <2>3. /\ RequestsInv'
        /\ \A r \in Requests : req'[r].proc = req[r].proc /\ (req'[r].conn => req[r].conn)
    BY <2>1, <2>2, CutPreserves
  <2>4. MigrationInv' /\ ProcessesInv'
    BY <2>1, MigrationStutters DEF ServerInv, ProcessesInv
  <2>5. ServesInv'
    <3>1. \A r \in Requests : req'[r].conn => phase'[req'[r].proc] \in {"listening", "closing"}
      <4> SUFFICES ASSUME NEW r \in Requests, req'[r].conn
                   PROVE  phase'[req'[r].proc] \in {"listening", "closing"}
        OBVIOUS
      <4>1. req[r].conn /\ req'[r].proc = req[r].proc
        BY <2>3
      <4>2. phase[req[r].proc] \in {"listening", "closing"}
        BY <4>1 DEF ServerInv, ServesInv
      <4> QED BY <1>1, <2>1, <4>1, <4>2
    <3>2. \A q \in Processes : phase'[q] \in {"listening", "closing"} => store'[q] = "open"
      BY <1>1, <2>1, <2>2 DEF ServerInv, ServesInv
    <3> QED BY <3>1, <3>2 DEF ServesInv
  <2> QED BY <2>3, <2>4, <2>5 DEF ServerInv
<1>3. CASE ServerClosed(p)
  <2>1. \A r \in Requests : req[r].proc = p => ~ req[r].conn
    BY <1>3 DEF ServerClosed, Of, ServerInv, RequestsInv, Sound
  <2> QED BY <1>1, <1>3, <2>1, IdleStep DEF ServerClosed
<1>4. CASE Exit(p)
  <2>1. phase[p] = "closed"
    BY <1>4 DEF Exit
  <2> QED BY <1>1, <1>4, <2>1, NotServing, IdleStep DEF Exit
<1> QED BY <1>2, <1>3, <1>4 DEF Close

-----------------------------------------------------------------------------
(* The theorems. *)

LEMMA ServerStarts == Init => ServerInv
<1> SUFFICES ASSUME Init PROVE ServerInv
  OBVIOUS
<1>1. MigrationInv
  BY MigrationStarts DEF Init
<1>2. RequestsInv
  BY FreeSound DEF Init, RequestsInv
<1>3. ProcessesInv
  BY ServerAssumption DEF Init, ProcessesInv
<1>4. ServesInv
  BY DEF Init, ServesInv, Free
<1> QED BY <1>1, <1>2, <1>3, <1>4 DEF ServerInv

LEMMA ServerStep == ServerInv /\ [Next]_vars => ServerInv'
<1> SUFFICES ASSUME ServerInv, [Next]_vars PROVE ServerInv'
  OBVIOUS
<1>1. ASSUME NEW r \in Requests, Serve(r) \/ Outside(r) PROVE ServerInv'
  BY <1>1, ServePreserves, OutsidePreserves
<1>2. ASSUME NEW p \in Processes, Close(p) \/ Operate(p) PROVE ServerInv'
  BY <1>2, ClosePreserves, OperatePreserves
<1>3. CASE UNCHANGED vars
  <2>1. UNCHANGED migrationVars /\ UNCHANGED <<store, phase, req, starts>>
    BY <1>3 DEF vars, migrationVars
  <2>2. MigrationInv'
    BY <2>1, MigrationStutters DEF ServerInv
  <2> QED BY <2>1, <2>2 DEF ServerInv, RequestsInv, ProcessesInv, ServesInv
<1> QED BY <1>1, <1>2, <1>3 DEF Next, AllOff

LEMMA ServerInvariant == Spec => []ServerInv
BY ServerStarts, ServerStep, PTL DEF Spec

\* The variables of the runtime keep their types, and a status is kept exactly from the
\* moment the answer is known until it is sent.
THEOREM ServerTypes == Spec => []TypeOK
<1>1. ServerInv => TypeOK
  BY DEF ServerInv, MigrationInv, RequestsInv, ProcessesInv, Sound, TypeOK
<1> QED BY <1>1, ServerInvariant, PTL

\* However many processes open the file and wherever they die, the schema is the one the
\* version names, unless two have found the file empty at one time.
THEOREM UpgradesAreSafe == Spec => []UpgradeSafe
<1>1. ServerInv => UpgradeSafe
  BY MigrationInvSafe DEF ServerInv
<1> QED BY <1>1, ServerInvariant, PTL

\* No client that is still connected is answered from a closed store: a store is closed
\* only when no connection of its process is left.
THEOREM ClosedStoreIsUnseen == Spec => []ClosedStoreUnseen
<1>1. ServerInv => ClosedStoreUnseen
  BY DEF ServerInv, RequestsInv, Sound, ClosedStoreUnseen
<1> QED BY <1>1, ServerInvariant, PTL

\* Whatever fails on the way, a connected client of a documented operation gets one of
\* the statuses the document names for it.
THEOREM AnswersAreDocumented == Spec => []AnswersDocumented
<1>1. ServerInv => AnswersDocumented
  BY DEF ServerInv, RequestsInv, Sound, Allowed, AnswersDocumented
<1> QED BY <1>1, ServerInvariant, PTL
=============================================================================
