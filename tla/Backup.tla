------------------------------- MODULE Backup -------------------------------
(***************************************************************************)
(* Verified backups of the SQLite database: runs of                        *)
(* createVerifiedSqliteBackup by the scheduler's loop and by a manual      *)
(* command, which share one backup directory with no lock between them.    *)
(* A run is synchronous once the online copy is made, but the other        *)
(* process and a crash come between any two of its file operations, so     *)
(* each is a step.                                                         *)
(*                                                                         *)
(* Names stand for the millisecond in a backup's file name; a run's is not *)
(* that of a run in progress or of a deleted backup still referred to.     *)
(* They are numbers for the order in which a directory is listed.          *)
(***************************************************************************)
EXTENDS Integers, FiniteSets

CONSTANTS
    Procs,      \* processes that make backups
    Scheduler,  \* the one that runs the scheduler's loop
    MaxYoung,   \* bound: unexpired backups when the scheduler begins another
    MaxNames,   \* bound: backups in the directory
    MaxFaults   \* bound: manual commands, crashes, failing operations, damages

ASSUME ConstantsAssumption ==
    /\ Scheduler \in Procs
    /\ MaxNames \in Nat \ {0} /\ {MaxYoung, MaxFaults} \subseteq Nat

VARIABLES
    source,      \* the database: "sound", or fails its checks
    file,        \* the backups in the directory
    meta,        \* last-success.json: the backup it names, None or Torn
    run,         \* per process: its run
    faults,      \* bounded count
    drilled,     \* history: backups whose restore drill passed
    published,   \* history: some run succeeded
    excused      \* history: what can cost the last backup, see BackupKept

vars == <<source, file, meta, run, faults, drilled, published, excused>>

Names  == 1 .. MaxNames
None   == 0
Torn   == -1
NoFile == [exists |-> FALSE, sound |-> FALSE, old |-> FALSE]
Idle   == [pc |-> "idle", name |-> 0, sound |-> FALSE, todo |-> {}]
Steps  == {"idle", "copy", "verify", "rename", "drill", "list", "expire", "write"}

TypeOK ==
    /\ source \in {"sound", "damaged"}
    /\ file \in [Names -> [exists : BOOLEAN, sound : BOOLEAN, old : BOOLEAN]]
    /\ meta \in Names \cup {None, Torn}
    /\ run \in [Procs -> [pc : Steps, name : 0 .. MaxNames, sound : BOOLEAN,
                          todo : SUBSET Names]]
    /\ faults \in 0 .. MaxFaults
    /\ drilled \subseteq Names
    /\ {published, excused} \subseteq BOOLEAN

Init ==
    /\ source = "sound"
    /\ file = [n \in Names |-> NoFile]
    /\ meta = None
    /\ run = [p \in Procs |-> Idle]
    /\ faults = 0
    /\ drilled = {} /\ published = FALSE /\ excused = FALSE

Files == {n \in Names : file[n].exists}

\* readBackupMetadata: the metadata parses and the file it names is there.  It
\* compares the size, which is that of every other backup at worst, not the digest.
Readable == meta \in Files

-----------------------------------------------------------------------------
(* One run, operation by operation. *)

Running(p) == run[p].pc # "idle"

AfterWithoutDrill(pc) ==  \* mutant: the copy's own check is taken for the drill
    CASE pc = "copy" -> "verify" [] pc = "verify" -> "rename" [] pc = "rename" -> "list"
      [] pc = "list" -> "expire" [] pc = "expire" -> "write"

\* The order of the operations.
After(pc) ==
    CASE pc = "copy" -> "verify" [] pc = "verify" -> "rename" [] pc = "rename" -> "drill"
      [] pc = "drill" -> "list" [] pc = "list" -> "expire" [] pc = "expire" -> "write"

Advance(p) == run' = [run EXCEPT ![p].pc = After(run[p].pc)]

Histories == <<drilled, published, excused>>

NameUnchecked(n) == TRUE  \* mutant: DATABASE_BACKUP_ALREADY_EXISTS is never raised

\* No backup of that name may exist.
NameFree(n) == ~ file[n].exists

Fault == faults < MaxFaults /\ faults' = faults + 1

Start(p) ==
    /\ ~ Running(p)
    /\ \/ p # Scheduler /\ Fault
       \/ /\ p = Scheduler /\ UNCHANGED faults
          /\ Cardinality({n \in Files : ~ file[n].old}) <= MaxYoung
    /\ \E n \in Names :
        /\ NameFree(n)
        /\ \A q \in Procs : n # run[q].name /\ n \notin run[q].todo
        /\ n # meta \/ file[n].exists
        /\ run' = [run EXCEPT ![p] = [Idle EXCEPT !.pc = "copy", !.name = n]]
    /\ excused' = (excused \/ \E q \in Procs : Running(q))
    /\ UNCHANGED <<source, file, meta, drilled, published>>

\* The online copy is that of the database as it is when it completes.
Copy(p) ==
    /\ run[p].pc = "copy"
    /\ run' = [run EXCEPT ![p].pc = After("copy"), ![p].sound = (source = "sound")]
    /\ UNCHANGED <<source, file, meta, faults, Histories>>

\* verifySqliteDatabase of the partial file.
Verify(p) ==
    /\ run[p].pc = "verify" /\ run[p].sound
    /\ Advance(p)
    /\ UNCHANGED <<source, file, meta, faults, Histories>>

Rename(p) ==
    /\ run[p].pc = "rename"
    /\ Advance(p)
    /\ file' = [file EXCEPT ![run[p].name] =
                    [exists |-> TRUE, sound |-> run[p].sound, old |-> FALSE]]
    /\ drilled' = drilled \ {run[p].name}
    /\ UNCHANGED <<source, meta, faults, published, excused>>

Drill(p) ==
    /\ run[p].pc = "drill" /\ file[run[p].name].sound
    /\ Advance(p)
    /\ drilled' = drilled \cup {run[p].name}
    /\ UNCHANGED <<source, file, meta, faults, published, excused>>

\* The size and the digest of the backup are taken, and the directory is listed.
List(p) ==
    /\ run[p].pc = "list" /\ file[run[p].name].exists
    /\ run' = [run EXCEPT ![p].pc = After("list"), ![p].todo = Files \ {run[p].name}]
    /\ UNCHANGED <<source, file, meta, faults, Histories>>

\* removeExpiredBackups, entry by entry: the run fails when one is gone.
Entry(p) == CHOOSE n \in run[p].todo : \A m \in run[p].todo : n <= m

ExpiredAlways(n) == TRUE  \* mutant: the age is not compared with the cutoff

Expired(n) == file[n].old

Expire(p) ==
    /\ run[p].pc = "expire" /\ run[p].todo # {}
    /\ file[Entry(p)].exists
    /\ file' = IF Expired(Entry(p)) THEN [file EXCEPT ![Entry(p)] = NoFile] ELSE file
    /\ run' = [run EXCEPT ![p].todo = @ \ {Entry(p)}]
    /\ UNCHANGED <<source, meta, faults, Histories>>

\* writeFileSync truncates last-success.json, then writes it.
OpenMetadata(p) ==
    /\ run[p].pc = "expire" /\ run[p].todo = {}
    /\ Advance(p)
    /\ meta' = Torn
    /\ UNCHANGED <<source, file, faults, Histories>>

WriteMetadata(p) ==
    /\ run[p].pc = "write"
    /\ meta' = run[p].name
    /\ run' = [run EXCEPT ![p] = Idle]
    /\ published' = TRUE
    /\ UNCHANGED <<source, file, faults, drilled, excused>>

-----------------------------------------------------------------------------
(* Failures. *)

\* Operations that cannot succeed: a check that fails, a file that is gone.
Blocked(p) ==
    \/ run[p].pc = "verify" /\ ~ run[p].sound
    \/ run[p].pc = "drill" /\ ~ file[run[p].name].sound
    \/ run[p].pc = "list" /\ ~ file[run[p].name].exists
    \/ run[p].pc = "expire" /\ run[p].todo # {} /\ ~ file[Entry(p)].exists

FailToStop(p) ==  \* mutant: the scheduler's loop does not catch the error
    /\ run' = [run EXCEPT ![p] = [Idle EXCEPT !.pc = "stopped"]]
    /\ file' = IF run[p].pc = "copy" THEN file ELSE [file EXCEPT ![run[p].name] = NoFile]
    /\ UNCHANGED <<source, meta, drilled, published>>

\* The backup is removed with the partial file; the scheduler tries again later.
Fail(p) ==
    /\ run' = [run EXCEPT ![p] = Idle]
    /\ file' = IF run[p].pc = "copy" THEN file ELSE [file EXCEPT ![run[p].name] = NoFile]
    /\ UNCHANGED <<source, meta, drilled, published>>

FailBlocked(p) == Blocked(p) /\ Fail(p) /\ UNCHANGED <<faults, excused>>

\* Any operation may fail: no space, no permission, SQLITE_BUSY.
FailOperation(p) ==
    /\ Running(p) /\ Fault /\ Fail(p)
    /\ excused' = \/ excused
                  \/ run[p].pc = "write" \/ (run[p].pc = "expire" /\ run[p].todo = {})

\* The process dies, and is started again; what is in the directory stays.
Crash(p) ==
    /\ Running(p) /\ Fault
    /\ run' = [run EXCEPT ![p] = Idle]
    /\ UNCHANGED <<source, file, meta, Histories>>

\* The database fails its checks until an operator restores it.
Damage ==
    /\ source = "sound" /\ Fault /\ source' = "damaged"
    /\ UNCHANGED <<file, meta, run, Histories>>

Repair ==
    /\ source = "damaged" /\ source' = "sound"
    /\ UNCHANGED <<file, meta, run, faults, Histories>>

\* A backup grows older than the retention period, of a day at least: no run lasts
\* that long.
Age(n) ==
    /\ file[n].exists /\ ~ file[n].old
    /\ \A p \in Procs : run[p].name # n
    /\ file' = [file EXCEPT ![n].old = TRUE]
    /\ UNCHANGED <<source, meta, run, faults, Histories>>

-----------------------------------------------------------------------------
Work(p) ==
    \/ Copy(p) \/ Verify(p) \/ Rename(p) \/ Drill(p) \/ List(p) \/ Expire(p)
    \/ OpenMetadata(p) \/ WriteMetadata(p) \/ FailBlocked(p)

Next ==
    \/ \E p \in Procs : Start(p) \/ Work(p) \/ FailOperation(p) \/ Crash(p)
    \/ \E n \in Names : Age(n)
    \/ Damage \/ Repair

\* A run in progress goes on, the scheduler's loop begins the next one, files grow
\* old and a damaged database is restored.
Fairness ==
    /\ \A p \in Procs : WF_vars(Work(p))
    /\ WF_vars(Start(Scheduler))
    /\ \A n \in Names : WF_vars(Age(n))
    /\ WF_vars(Repair)

Spec == Init /\ [][Next]_vars /\ Fairness
-----------------------------------------------------------------------------
(* Properties. *)

\* Every variable has its type; and a backup that last-success.json names is sound, and its restore drill passed,
\* whatever other runs do to the directory and wherever one crashes.
PublishedVerified == TypeOK /\ (Readable => file[meta].sound /\ meta \in drilled)

\* Once a run has succeeded there is a sound backup, although runs remove expired ones
\* and their own on failure, wherever a run crashes or fails.  Two cases are excused,
\* for they do cost the last backup: last-success.json cannot be written, after the
\* expired backups are gone; and two runs overlap, where each can find an entry of its
\* listing gone, fail and remove its own backup.
BackupKept == published /\ ~ excused => \E n \in Files : file[n].sound

\* A run never removes a published backup before it has expired.
PublishedKept ==
    [][\A n \in Files : ~ file[n].old /\ ~ file'[n].exists => meta # n]_vars

\* The scheduler publishes again and again after every fault, also after a crash
\* that leaves last-success.json torn.
PublishesAgain == []<>Readable

\* docs/OPERATIONS.md: expired backups are deleted after last-success.json was updated.
RetentionAfterPublication ==
    [][\A n \in Files : file[n].old /\ ~ file'[n].exists =>
          \E p \in Procs : run[p].pc = "expire" /\ meta = run[p].name]_vars
=============================================================================
