----------------------------- MODULE Migration -----------------------------
(***************************************************************************)
(* The schema upgrade that opens the SQLite store: several processes may   *)
(* open one file, each reads the version of its schema, and then runs the  *)
(* migrations it found pending, one transaction each.                      *)
(***************************************************************************)
EXTENDS Integers, FiniteSetsExt

CONSTANTS
    Processes,     \* that may open the file
    FileVersions   \* the schema versions a file may start with

Latest   == 2
Versions == 0 .. Latest + 1   \* the last stands for every newer one

ASSUME FileAssumption == FileVersions \subseteq Versions

VARIABLES
    version,  \* PRAGMA user_version, committed
    schema,   \* the migrations whose changes the file holds, committed
    store,    \* per process: where it is in opening the store
    pending,  \* per process: the migrations it has still to run
    writer,   \* the processes that hold the write lock, one at most
    raced     \* history: two processes have found the file empty at one time

fileVars      == <<version, schema>>
migrationVars == <<fileVars, store, pending, writer, raced>>

Migrations == 1 .. Latest
First(p)   == Min(pending[p])

MigrationTypeOK ==
    /\ version \in Versions /\ schema \subseteq 1 .. Latest + 1
    /\ store \in [Processes -> {"closed", "opened", "begin", "run", "commit", "check", "open"}]
    /\ pending \in [Processes -> SUBSET Migrations]
    /\ writer \subseteq Processes /\ raced \in BOOLEAN

MigrationInit ==
    /\ version \in FileVersions /\ schema = 1 .. version
    /\ store = [p \in Processes |-> "closed"]
    /\ pending = [p \in Processes |-> {}]
    /\ writer = {} /\ raced = FALSE

\* new DatabaseSync and its two PRAGMAs.
OpenFile(p) ==
    /\ store[p] = "closed"
    /\ store' = [store EXCEPT ![p] = "opened"]
    /\ UNCHANGED <<fileVars, pending, writer, raced>>

\* schemaVersion, outside of every transaction, and the list of pending migrations.
\* A schema newer than the code is refused.
ReadVersion(p) ==
    LET found == {m \in Migrations : m > version} IN
    /\ store[p] = "opened" /\ version <= Latest
    /\ pending' = [pending EXCEPT ![p] = found]
    /\ store' = [store EXCEPT ![p] = IF found = {} THEN "check" ELSE "begin"]
    /\ raced' = (raced \/ (1 \in found /\ \E q \in Processes : 1 \in pending[q]))
    /\ UNCHANGED <<fileVars, writer>>

\* BEGIN IMMEDIATE: waits for the write lock.
BeginImmediate(p) ==
    /\ store[p] = "begin" /\ writer = {}
    /\ writer' = {p}
    /\ store' = [store EXCEPT ![p] = "run"]
    /\ UNCHANGED <<fileVars, pending, raced>>

\* The tables of version 1 are created IF NOT EXISTS; the column of version 2 is added
\* once only, and to a table that exists.
Applicable(m) == m = 1 \/ (m = 2 /\ 1 \in schema /\ 2 \notin schema)

\* The migration's SQL: nothing of it is seen before COMMIT.
RunMigration(p) ==
    /\ store[p] = "run" /\ Applicable(First(p))
    /\ store' = [store EXCEPT ![p] = "commit"]
    /\ UNCHANGED <<fileVars, pending, writer, raced>>

CommitTwice(p) ==  \* mutant: the version is written after the transaction has ended
    LET m == First(p) IN
    /\ store[p] = "commit"
    /\ schema' = schema \cup {m}
    /\ writer' = writer \ {p}
    /\ pending' = [pending EXCEPT ![p] = @ \ {m}]
    /\ store' = [store EXCEPT ![p] = IF pending'[p] = {} THEN "check" ELSE "begin"]
    /\ version' \in {version, m}
    /\ UNCHANGED raced

\* PRAGMA user_version = m and COMMIT: both changes or none.
Commit(p) ==
    LET m == First(p) IN
    /\ store[p] = "commit"
    /\ schema' = schema \cup {m} /\ version' = m
    /\ writer' = writer \ {p}
    /\ pending' = [pending EXCEPT ![p] = @ \ {m}]
    /\ store' = [store EXCEPT ![p] = IF pending'[p] = {} THEN "check" ELSE "begin"]
    /\ UNCHANGED raced

CheckVersion(p) ==
    /\ store[p] = "check" /\ version = Latest
    /\ store' = [store EXCEPT ![p] = "open"]
    /\ UNCHANGED <<fileVars, pending, writer, raced>>

\* The store is closed, or the process ends: an open transaction is rolled back.
CloseFile(p) ==
    /\ store[p] # "closed"
    /\ store' = [store EXCEPT ![p] = "closed"]
    /\ pending' = [pending EXCEPT ![p] = {}]
    /\ writer' = writer \ {p}
    /\ UNCHANGED <<fileVars, raced>>

\* Any statement of the upgrade fails: an unsupported version, a lock not had in five
\* seconds, a column that is there already, a full disk, a version that is not the
\* latest.  The transaction is rolled back, the file closed and the error thrown.
OpenFails(p) == store[p] # "open" /\ CloseFile(p)

Upgrade(p) ==
    \/ OpenFile(p) \/ ReadVersion(p) \/ BeginImmediate(p) \/ RunMigration(p)
    \/ Commit(p) \/ CheckVersion(p)

-----------------------------------------------------------------------------
(* Properties. *)

\* Wherever an upgrade fails or its process dies, the version tells which migrations
\* the file holds, so that the next start goes on from there; and a migration is found
\* to be done already only when nothing is left to do.  Excused: two processes that
\* both found the file empty, where the second runs version 1 again and sets the
\* version back, so that no later start succeeds.
UpgradeSafe ==
    ~ raced =>
      /\ schema = 1 .. version
      /\ \A p \in Processes : store[p] = "run" /\ ~ Applicable(First(p)) => version = Latest
=============================================================================
