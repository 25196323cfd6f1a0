---------------------------- MODULE BackupProofs ----------------------------
(***************************************************************************)
(* The safety properties of Backup, for every set of processes, every size *)
(* of the directory and every number of faults.                            *)
(***************************************************************************)
EXTENDS Backup, WellFoundedInduction, TLAPS

\* Runs in progress have names of their own, and last-success.json names none of them.
NamesInv ==
    /\ \A p \in Procs : ~ Running(p) => run[p] = Idle
    /\ \A p \in Procs : Running(p) => run[p].name \in Names /\ run[p].name # meta
    /\ \A p, q \in Procs : Running(p) /\ Running(q) /\ run[p].name = run[q].name => p = q

\* What is known of a run's backup before it awaits each operation.
Known(p) ==
    /\ run[p].pc \in {"copy", "verify", "rename"} => ~ file[run[p].name].exists
    /\ run[p].pc = "rename" => run[p].sound
    /\ run[p].pc \in {"drill", "list", "expire", "write"} =>
          file[run[p].name].exists /\ ~ file[run[p].name].old
    /\ run[p].pc \in {"list", "expire", "write"} => run[p].name \in drilled

\* Only verified copies get a name in the directory.
SoundInv == \A n \in Files : file[n].sound

\* A run that nothing excuses is alone; its listing is that of the directory, and when it
\* fails before it could publish, another backup is there.
AloneInv ==
    ~ excused =>
      /\ \A p, q \in Procs : Running(p) /\ Running(q) => p = q
      /\ \A p \in Procs : run[p].pc = "expire" => run[p].todo \subseteq Files \ {run[p].name}
      /\ published => Files # {}
      /\ \A p \in Procs : published /\ run[p].pc \in {"copy", "verify", "rename", "drill", "list"}
                             => Files \ {run[p].name} # {}

BackupInv ==
    /\ TypeOK /\ NamesInv
    /\ \A p \in Procs : Known(p)
    /\ SoundInv
    /\ Readable => meta \in drilled
    /\ AloneInv

Record == [pc : Steps, name : 0 .. MaxNames, sound : BOOLEAN, todo : SUBSET Names]
Entries == [exists : BOOLEAN, sound : BOOLEAN, old : BOOLEAN]

-----------------------------------------------------------------------------
LEMMA LeastName ==
    ASSUME NEW B \in SUBSET Names, B # {}
    PROVE  \E n \in B : \A m \in B : n <= m
<1> DEFINE Below == {p \in Nat \X Nat : p[1] < p[2]}
<1>0. B \subseteq Nat
  BY DEF Names
<1>1. Below = OpToRel(<, Nat)
  BY DEF OpToRel
<1>2. IsWellFoundedOn(Below, Nat)
  BY <1>1, NatLessThanWellFounded
<1>3. \A m, n \in Nat : m < n => <<m, n>> \in Below
  OBVIOUS
<1> HIDE DEF Below
<1>4. PICK n \in B : \A m \in B : ~ (<<m, n>> \in Below)
  BY <1>0, <1>2, WFMin
<1>5. ASSUME NEW m \in B PROVE n <= m
  <2>1. m \in Nat /\ n \in Nat
    BY <1>0
  <2>2. ~ (m < n)
    BY <1>3, <1>4, <2>1, Zenon
  <2> QED BY <2>1, <2>2
<1> QED BY <1>5

\* The listing is gone through in order: the next entry is one of those left.
LEMMA EntryOfTodo ==
    ASSUME TypeOK, NEW p \in Procs, run[p].todo # {}
    PROVE  Entry(p) \in run[p].todo
<1>1. run[p].todo \in SUBSET Names
  BY DEF TypeOK
<1>2. \E n \in run[p].todo : \A m \in run[p].todo : n <= m
  BY <1>1, LeastName
<1> QED BY <1>2, Zenon DEF Entry

\* The run of a process changes: those of the others do not.
LEMMA RunChanges ==
    ASSUME TypeOK, NEW p \in Procs, NEW r \in Record, run' = [run EXCEPT ![p] = r]
    PROVE  /\ run' \in [Procs -> Record]
           /\ run'[p] = r
           /\ \A q \in Procs : q # p => run'[q] = run[q]
<1>1. run \in [Procs -> Record]
  BY Zenon DEF TypeOK, Record
<1> HIDE DEF Record
<1> QED BY <1>1

\* One step of a run that neither ends it nor touches the directory or the metadata, nor
\* the histories.
LEMMA Works ==
    ASSUME BackupInv, NEW p \in Procs, Running(p), NEW r \in Record,
           run' = [run EXCEPT ![p] = r], r.name = run[p].name, r.pc # "idle",
           UNCHANGED <<source, file, meta, faults, Histories>>,
           Known(p)',
           ~ excused /\ r.pc = "expire" => r.todo \subseteq Files \ {r.name},
           r.pc \in {"copy", "verify", "rename", "drill", "list"} =>
             run[p].pc \in {"copy", "verify", "rename", "drill", "list"}
    PROVE  BackupInv'
<1> USE DEF BackupInv
<1>1. /\ run' \in [Procs -> Record] /\ run'[p] = r
      /\ \A q \in Procs : q # p => run'[q] = run[q]
  BY RunChanges
<1>2. /\ file' = file /\ meta' = meta /\ drilled' = drilled /\ source' = source
      /\ faults' = faults /\ published' = published /\ excused' = excused
      /\ Files' = Files
  BY DEF Histories, Files
<1>3. TypeOK'
  BY <1>1, <1>2 DEF TypeOK, Record
<1>4. \A q \in Procs : Running(q)' <=> Running(q)
  BY <1>1 DEF Running
<1>5. \A q \in Procs : run'[q].name = run[q].name
  BY <1>1
<1>6. NamesInv'
  BY <1>1, <1>2, <1>4, <1>5 DEF NamesInv, Running
<1>7. \A q \in Procs : Known(q)'
  BY <1>1, <1>2 DEF Known
<1>8. SoundInv' /\ (Readable => meta \in drilled)'
  BY <1>2 DEF SoundInv, Readable
<1>9. AloneInv'
  BY <1>1, <1>2, <1>4, <1>5 DEF AloneInv
<1> QED BY <1>3, <1>6, <1>7, <1>8, <1>9

LEMMA CopyPreserves == ASSUME BackupInv, NEW p \in Procs, Copy(p) PROVE BackupInv'
<1> DEFINE r == [run[p] EXCEPT !.pc = "verify", !.sound = (source = "sound")]
<1>1. run[p] \in Record /\ run \in [Procs -> Record]
  BY DEF BackupInv, TypeOK, Record
<1>2. r \in Record /\ r.pc = "verify" /\ r.name = run[p].name
  BY <1>1 DEF Record, Steps
<1>3. run' = [run EXCEPT ![p] = r]
  BY <1>1 DEF Copy, After
<1>4. run[p].pc = "copy" /\ UNCHANGED <<source, file, meta, faults, Histories>>
  BY DEF Copy
<1>5. run'[p] = r
  BY <1>1, <1>3
<1> HIDE DEF r
<1>6. Known(p)'
  BY <1>2, <1>4, <1>5 DEF Known, BackupInv
<1> QED BY <1>2, <1>3, <1>4, <1>6, Works DEF Running

LEMMA VerifyPreserves == ASSUME BackupInv, NEW p \in Procs, Verify(p) PROVE BackupInv'
<1> DEFINE r == [run[p] EXCEPT !.pc = "rename"]
<1>1. run[p] \in Record /\ run \in [Procs -> Record]
  BY DEF BackupInv, TypeOK, Record
<1>2. r \in Record /\ r.pc = "rename" /\ r.name = run[p].name /\ r.sound = run[p].sound
  BY <1>1 DEF Record, Steps
<1>3. run' = [run EXCEPT ![p] = r]
  BY <1>1 DEF Verify, Advance, After
<1>4. /\ run[p].pc = "verify" /\ run[p].sound
      /\ UNCHANGED <<source, file, meta, faults, Histories>>
  BY DEF Verify
<1>5. run'[p] = r
  BY <1>1, <1>3
<1> HIDE DEF r
<1>6. Known(p)'
  BY <1>2, <1>4, <1>5 DEF Known, BackupInv
<1> QED BY <1>2, <1>3, <1>4, <1>6, Works DEF Running

LEMMA ListPreserves == ASSUME BackupInv, NEW p \in Procs, List(p) PROVE BackupInv'
<1> DEFINE r == [run[p] EXCEPT !.pc = "expire", !.todo = Files \ {run[p].name}]
<1>1. run[p] \in Record /\ run \in [Procs -> Record]
  BY DEF BackupInv, TypeOK, Record
<1>2. /\ r \in Record /\ r.pc = "expire" /\ r.name = run[p].name
      /\ r.todo = Files \ {run[p].name}
  BY <1>1 DEF Record, Steps, Files
<1>3. run' = [run EXCEPT ![p] = r]
  BY <1>1 DEF List, After
<1>4. run[p].pc = "list" /\ UNCHANGED <<source, file, meta, faults, Histories>>
  BY DEF List
<1>5. run'[p] = r
  BY <1>1, <1>3
<1> HIDE DEF r
<1>6. Known(p)'
  BY <1>2, <1>4, <1>5 DEF Known, BackupInv, Histories
<1> QED BY <1>2, <1>3, <1>4, <1>6, Works DEF Running

LEMMA OpenMetadataPreserves == ASSUME BackupInv, NEW p \in Procs, OpenMetadata(p) PROVE BackupInv'
<1> USE DEF BackupInv
<1> DEFINE r == [run[p] EXCEPT !.pc = "write"]
<1>1. run[p] \in Record /\ run \in [Procs -> Record]
  BY DEF TypeOK, Record
<1>2. r \in Record /\ r.pc = "write" /\ r.name = run[p].name
  BY <1>1 DEF Record, Steps
<1>3. run' = [run EXCEPT ![p] = r]
  BY <1>1 DEF OpenMetadata, Advance, After
<1>4. /\ run[p].pc = "expire" /\ meta' = Torn
      /\ UNCHANGED <<source, file, faults, Histories>>
  BY DEF OpenMetadata
<1>5. /\ run' \in [Procs -> Record] /\ run'[p] = r
      /\ \A q \in Procs : q # p => run'[q] = run[q]
  BY <1>2, <1>3, RunChanges
<1> HIDE DEF r
<1>6. /\ file' = file /\ drilled' = drilled /\ source' = source
      /\ faults' = faults /\ published' = published /\ excused' = excused /\ Files' = Files
  BY <1>4 DEF Histories, Files
<1>7. TypeOK'
  BY <1>4, <1>5, <1>6 DEF TypeOK, Record
<1>8. \A q \in Procs : (Running(q)' <=> Running(q)) /\ run'[q].name = run[q].name
  BY <1>2, <1>4, <1>5 DEF Running
<1>9. NamesInv'
  BY <1>2, <1>4, <1>5, <1>8 DEF NamesInv, Running, Names, Torn
<1>10. \A q \in Procs : Known(q)'
  BY <1>2, <1>4, <1>5, <1>6 DEF Known
<1>11. SoundInv' /\ ~ Readable'
  BY <1>4, <1>6 DEF SoundInv, Readable, Files, Torn, Names
<1>12. AloneInv'
  BY <1>2, <1>4, <1>5, <1>6, <1>8 DEF AloneInv
<1> QED BY <1>7, <1>9, <1>10, <1>11, <1>12

LEMMA DrillPreserves == ASSUME BackupInv, NEW p \in Procs, Drill(p) PROVE BackupInv'
<1> USE DEF BackupInv
<1> DEFINE r == [run[p] EXCEPT !.pc = "list"]
<1>1. run[p] \in Record /\ run \in [Procs -> Record]
  BY DEF TypeOK, Record
<1>2. r \in Record /\ r.pc = "list" /\ r.name = run[p].name
  BY <1>1 DEF Record, Steps
<1>3. run' = [run EXCEPT ![p] = r]
  BY <1>1 DEF Drill, Advance, After
<1>4. /\ run[p].pc = "drill" /\ drilled' = drilled \cup {run[p].name}
      /\ UNCHANGED <<source, file, meta, faults, published, excused>>
  BY DEF Drill
<1>5. /\ run' \in [Procs -> Record] /\ run'[p] = r
      /\ \A q \in Procs : q # p => run'[q] = run[q]
  BY <1>2, <1>3, RunChanges
<1> HIDE DEF r
<1>6. Files' = Files
  BY <1>4 DEF Files
<1>7. \A q \in Procs : (Running(q)' <=> Running(q)) /\ run'[q].name = run[q].name
  BY <1>2, <1>4, <1>5 DEF Running
<1>8. TypeOK'
  BY <1>4, <1>5, <1>7 DEF TypeOK, Record, NamesInv, Running
<1>9. NamesInv'
  BY <1>2, <1>4, <1>5, <1>7 DEF NamesInv, Running
<1>10. \A q \in Procs : Known(q)'
  BY <1>2, <1>4, <1>5 DEF Known
<1>11. SoundInv' /\ (Readable => meta \in drilled)'
  BY <1>4, <1>6 DEF SoundInv, Readable
<1>12. AloneInv'
  BY <1>2, <1>4, <1>5, <1>6, <1>7 DEF AloneInv
<1> QED BY <1>8, <1>9, <1>10, <1>11, <1>12

LEMMA RenamePreserves == ASSUME BackupInv, NEW p \in Procs, Rename(p) PROVE BackupInv'
<1> USE DEF BackupInv
<1> DEFINE r == [run[p] EXCEPT !.pc = "drill"]
<1>1. run[p] \in Record /\ run \in [Procs -> Record] /\ run[p].name \in Names
  BY DEF TypeOK, Record, NamesInv, Running, Rename
<1>2. r \in Record /\ r.pc = "drill" /\ r.name = run[p].name
  BY <1>1 DEF Record, Steps
<1>3. run' = [run EXCEPT ![p] = r]
  BY <1>1 DEF Rename, Advance, After
<1>4. /\ run[p].pc = "rename" /\ drilled' = drilled \ {run[p].name}
      /\ UNCHANGED <<source, meta, faults, published, excused>>
  BY DEF Rename
<1>5. /\ run' \in [Procs -> Record] /\ run'[p] = r
      /\ \A q \in Procs : q # p => run'[q] = run[q]
  BY <1>2, <1>3, RunChanges
<1> HIDE DEF r
<1>6. /\ run[p].sound /\ ~ file[run[p].name].exists
  BY <1>4 DEF Known
<1>7. /\ file' \in [Names -> Entries]
      /\ file'[run[p].name] = [exists |-> TRUE, sound |-> TRUE, old |-> FALSE]
      /\ \A n \in Names : n # run[p].name => file'[n] = file[n]
  BY <1>1, <1>6 DEF Rename, TypeOK, Entries, Record
<1>8. Files' = Files \cup {run[p].name}
  BY <1>1, <1>7 DEF Files
<1>9. \A q \in Procs : (Running(q)' <=> Running(q)) /\ run'[q].name = run[q].name
  BY <1>2, <1>4, <1>5 DEF Running
<1>10. TypeOK'
  BY <1>4, <1>5, <1>7 DEF TypeOK, Record, Entries
<1>11. NamesInv'
  BY <1>2, <1>4, <1>5, <1>9 DEF NamesInv, Running
<1>12. \A q \in Procs : q # p /\ Running(q) => run[q].name # run[p].name /\ run[q].name \in Names
  BY <1>4 DEF NamesInv, Running
<1>13. \A q \in Procs : Known(q)'
  BY <1>1, <1>2, <1>4, <1>5, <1>7, <1>12 DEF Known, Running
<1>14. SoundInv'
  BY <1>7, <1>8 DEF SoundInv, Files
<1>15. (Readable => meta \in drilled)'
  BY <1>4, <1>8 DEF Readable, NamesInv, Running
<1>16. AloneInv'
  <2>1. \A q \in Procs : run'[q].pc = "expire" => run'[q].todo = run[q].todo /\ run[q].pc = "expire"
    BY <1>2, <1>5
  <2>2. ~ excused /\ published => Files \ {run[p].name} # {}
    BY <1>4 DEF AloneInv
  <2>3. ~ excused => \A q \in Procs : Running(q) => q = p
    BY <1>4 DEF AloneInv, Running
  <2> QED BY <1>2, <1>4, <1>5, <1>8, <1>9, <2>1, <2>2, <2>3 DEF AloneInv, Running
<1> QED BY <1>10, <1>11, <1>13, <1>14, <1>15, <1>16

\* Entry by entry the expired backups go; the run's own stays.
LEMMA ExpirePreserves == ASSUME BackupInv, NEW p \in Procs, Expire(p) PROVE BackupInv'
<1> USE DEF BackupInv
<1> DEFINE e == Entry(p)
           r == [run[p] EXCEPT !.todo = @ \ {e}]
<1>1. run[p] \in Record /\ run \in [Procs -> Record]
  BY DEF TypeOK, Record
<1>2. /\ r \in Record /\ r.pc = run[p].pc /\ r.name = run[p].name
      /\ r.todo = run[p].todo \ {e}
  BY <1>1 DEF Record
<1>3. run' = [run EXCEPT ![p] = r]
  BY <1>1 DEF Expire
<1>4. /\ run[p].pc = "expire" /\ run[p].todo # {} /\ file[e].exists
      /\ file' = IF file[e].old THEN [file EXCEPT ![e] = NoFile] ELSE file
      /\ UNCHANGED <<source, meta, faults, Histories>>
  BY DEF Expire, Expired
<1>5. e \in run[p].todo /\ e \in Names
  BY <1>1, <1>4, EntryOfTodo DEF Record
<1> HIDE DEF e
<1>6. /\ run' \in [Procs -> Record] /\ run'[p] = r
      /\ \A q \in Procs : q # p => run'[q] = run[q]
  BY <1>2, <1>3, RunChanges
<1> HIDE DEF r
<1>7. /\ file' \in [Names -> Entries]
      /\ \A n \in Names : file'[n] = file[n] \/ (n = e /\ file[n].old /\ file'[n] = NoFile)
  <2>1. file \in [Names -> Entries] /\ NoFile \in Entries
    BY DEF TypeOK, Entries, NoFile
  <2> QED BY <1>4, <1>5, <2>1
<1>8. /\ drilled' = drilled /\ source' = source /\ meta' = meta
      /\ faults' = faults /\ published' = published /\ excused' = excused
  BY <1>4 DEF Histories
<1>9. Files' \subseteq Files /\ Files \ {e} \subseteq Files'
  BY <1>7 DEF Files, NoFile
<1>10. \A q \in Procs :
        /\ Running(q)' <=> Running(q)
        /\ run'[q].name = run[q].name /\ run'[q].pc = run[q].pc
        /\ run'[q].sound = run[q].sound
  <2>1. r.sound = run[p].sound
    BY <1>1 DEF r
  <2> QED BY <1>2, <1>6, <2>1 DEF Running
<1>11. TypeOK'
  BY <1>6, <1>7, <1>8 DEF TypeOK, Record, Entries
<1>12. NamesInv'
  <2>1. Running(p)
    BY <1>4 DEF Running
  <2> QED BY <1>6, <1>8, <1>10, <2>1 DEF NamesInv
<1>13. \A q \in Procs : Running(q) => run[q].name \in Names
  BY DEF NamesInv
<1>14. \A q \in Procs : Known(q)'
  BY <1>7, <1>8, <1>10, <1>13 DEF Known, Running, NoFile
<1>15. SoundInv' /\ (Readable => meta \in drilled)'
  BY <1>7, <1>8, <1>9 DEF SoundInv, Readable, Files, NoFile
<1>16. AloneInv'
  <2>1. ~ excused => \A q \in Procs : Running(q) => q = p
    BY <1>4 DEF AloneInv, Running
  <2>2. run[p].name \in Files' /\ Running(p)
    <3>1. run[p].name \in Names /\ file[run[p].name].exists /\ ~ file[run[p].name].old
      BY <1>4, <1>13 DEF Known, Running
    <3> QED BY <1>4, <1>7, <3>1 DEF Files, Running
  <2>3. ~ excused => r.todo \subseteq Files' \ {run[p].name}
    BY <1>2, <1>4, <1>9 DEF AloneInv
  <2> QED BY <1>2, <1>4, <1>6, <1>8, <1>10, <2>1, <2>2, <2>3 DEF AloneInv, Running
<1> QED BY <1>11, <1>12, <1>14, <1>15, <1>16

\* Only Fail and Crash end a run without success.
LEMMA Ends ==
    ASSUME TypeOK, NEW p \in Procs, run' = [run EXCEPT ![p] = Idle]
    PROVE  /\ run' \in [Procs -> Record] /\ run'[p] = Idle /\ ~ Running(p)'
           /\ \A q \in Procs : q # p => run'[q] = run[q]
           /\ \A q \in Procs : Running(q)' => Running(q) /\ q # p
<1>1. Idle \in Record /\ Idle.pc = "idle"
  BY ConstantsAssumption DEF Record, Idle, Steps
<1>2. /\ run' \in [Procs -> Record] /\ run'[p] = Idle
      /\ \A q \in Procs : q # p => run'[q] = run[q]
  BY <1>1, RunChanges
<1> QED BY <1>1, <1>2 DEF Running

LEMMA WriteMetadataPreserves ==
    ASSUME BackupInv, NEW p \in Procs, WriteMetadata(p) PROVE BackupInv'
<1> USE DEF BackupInv
<1>1. /\ run[p].pc = "write" /\ meta' = run[p].name /\ published' = TRUE
      /\ run' = [run EXCEPT ![p] = Idle]
      /\ UNCHANGED <<source, file, faults, drilled, excused>>
  BY DEF WriteMetadata
<1>2. /\ run' \in [Procs -> Record] /\ run'[p] = Idle /\ ~ Running(p)'
      /\ \A q \in Procs : q # p => run'[q] = run[q]
      /\ \A q \in Procs : Running(q)' => Running(q) /\ q # p
  BY <1>1, Ends
<1>3. Files' = Files
  BY <1>1 DEF Files
<1>4. /\ run[p].name \in Names /\ file[run[p].name].exists /\ run[p].name \in drilled
      /\ run[p].name \in Files
  BY <1>1 DEF NamesInv, Known, Running, Files
<1>5. TypeOK'
  BY <1>1, <1>2, <1>4 DEF TypeOK, Record
<1>6. NamesInv'
  BY <1>1, <1>2 DEF NamesInv, Running
<1>7. \A q \in Procs : Known(q)'
  BY <1>1, <1>2 DEF Known, Idle
<1>8. SoundInv' /\ (Readable => meta \in drilled)'
  BY <1>1, <1>3, <1>4 DEF SoundInv
<1>9. AloneInv'
  <2>1. ~ excused => \A q \in Procs : ~ Running(q)'
    BY <1>1, <1>2 DEF AloneInv, Running
  <2> QED BY <1>1, <1>3, <1>4, <2>1 DEF AloneInv, Running
<1> QED BY <1>5, <1>6, <1>7, <1>8, <1>9

\* Other than by success a run ends by Fail, which removes its backup, or by a crash.
LEMMA EndPreserves ==
    ASSUME BackupInv, NEW p \in Procs, Running(p),
           run' = [run EXCEPT ![p] = Idle],
           \/ file' = file
           \/ file' = [file EXCEPT ![run[p].name] = NoFile]
              /\ (~ excused' /\ published => Files \ {run[p].name} # {}),
           UNCHANGED <<source, meta, drilled, published>>,
           faults' \in 0 .. MaxFaults, excused' \in BOOLEAN, excused => excused'
    PROVE  BackupInv'
<1> USE DEF BackupInv
<1>1. /\ run' \in [Procs -> Record] /\ run'[p] = Idle /\ ~ Running(p)'
      /\ \A q \in Procs : q # p => run'[q] = run[q]
      /\ \A q \in Procs : Running(q)' => Running(q) /\ q # p
  BY Ends
<1>2. run[p].name \in Names
  BY DEF NamesInv
<1>3. /\ file' \in [Names -> Entries]
      /\ \A n \in Names : \/ file'[n] = file[n]
                          \/ n = run[p].name /\ file'[n] = NoFile
  <2>1. file \in [Names -> Entries] /\ NoFile \in Entries
    BY DEF TypeOK, Entries, NoFile
  <2> QED BY <1>2, <2>1
<1>4. Files' \subseteq Files
  BY <1>3 DEF Files, NoFile
<1>5. TypeOK'
  BY <1>1, <1>3 DEF TypeOK, Record, Entries
<1>6. NamesInv'
  BY <1>1 DEF NamesInv, Running
<1>7. ASSUME NEW q \in Procs PROVE Known(q)'
  <2>1. CASE Running(q)'
    <3>1. run[q].name # run[p].name /\ run[q].name \in Names /\ q # p /\ run'[q] = run[q]
      BY <1>1, <2>1 DEF NamesInv
    <3> QED BY <1>3, <3>1 DEF Known
  <2>2. CASE ~ Running(q)'
    BY <2>2 DEF Known, Running
  <2> QED BY <2>1, <2>2
<1>8. SoundInv' /\ (Readable => meta \in drilled)'
  BY <1>3, <1>4 DEF SoundInv, Readable, Files, NoFile
<1>9. AloneInv'
  <2> SUFFICES ASSUME ~ excused' PROVE AloneInv'
    BY DEF AloneInv
  <2>1. \A q \in Procs : ~ Running(q)'
    BY <1>1 DEF AloneInv
  <2>2. published => Files' # {}
    <3>1. CASE file' = file
      BY <3>1 DEF AloneInv, Files
    <3>2. CASE file' # file
      <4>1. published => Files \ {run[p].name} # {}
        BY <3>2
      <4>2. Files \ {run[p].name} \subseteq Files'
        BY <1>3 DEF Files
      <4> QED BY <4>1, <4>2
    <3> QED BY <3>1, <3>2
  <2> QED BY <2>1, <2>2 DEF AloneInv, Running
<1> QED BY <1>5, <1>6, <1>7, <1>8, <1>9

LEMMA FailBlockedPreserves ==
    ASSUME BackupInv, NEW p \in Procs, FailBlocked(p) PROVE BackupInv'
<1> USE DEF BackupInv
<1>1. /\ Running(p) /\ faults' \in 0 .. MaxFaults /\ excused' = excused /\ excused \in BOOLEAN
      /\ run' = [run EXCEPT ![p] = Idle]
      /\ UNCHANGED <<source, meta, drilled, published>>
      /\ file' = file \/ file' = [file EXCEPT ![run[p].name] = NoFile]
  BY DEF FailBlocked, Blocked, Fail, Running, TypeOK
<1>2. ~ excused /\ published => Files \ {run[p].name} # {}
  <2>1. CASE run[p].pc \in {"verify", "drill", "list"}
    BY <2>1 DEF AloneInv
  <2>2. CASE run[p].pc = "expire" /\ run[p].todo # {} /\ ~ file[Entry(p)].exists
    <3>1. Entry(p) \in run[p].todo
      BY <2>2, EntryOfTodo
    <3>2. ~ excused => Entry(p) \in Files
      BY <2>2, <3>1 DEF AloneInv
    <3> QED BY <2>2, <3>2 DEF Files
  <2> QED BY <2>1, <2>2 DEF FailBlocked, Blocked
<1> QED BY <1>1, <1>2, EndPreserves

LEMMA FailOperationPreserves ==
    ASSUME BackupInv, NEW p \in Procs, FailOperation(p) PROVE BackupInv'
<1> USE DEF BackupInv
<1>1. /\ Running(p) /\ faults' \in 0 .. MaxFaults
      /\ run' = [run EXCEPT ![p] = Idle]
      /\ UNCHANGED <<source, meta, drilled, published>>
      /\ file' = file \/ file' = [file EXCEPT ![run[p].name] = NoFile]
  BY ConstantsAssumption DEF FailOperation, Fault, Fail, TypeOK
<1>2. /\ excused' \in BOOLEAN
      /\ excused => excused'
      /\ ~ excused' => ~ excused /\ run[p].pc # "write"
                       /\ (run[p].pc = "expire" => run[p].todo # {})
  BY DEF FailOperation, TypeOK
<1>3. ~ excused' /\ published => Files \ {run[p].name} # {}
  <2>1. CASE run[p].pc \in {"copy", "verify", "rename", "drill", "list"}
    BY <1>2, <2>1 DEF AloneInv
  <2>2. CASE run[p].pc = "expire"
    BY <1>2, <2>2 DEF AloneInv
  <2>3. run[p].pc \in Steps /\ run[p].pc # "idle"
    BY <1>1 DEF TypeOK, Running
  <2> QED BY <1>2, <2>1, <2>2, <2>3 DEF Steps
<1> QED BY <1>1, <1>2, <1>3, EndPreserves

LEMMA CrashPreserves == ASSUME BackupInv, NEW p \in Procs, Crash(p) PROVE BackupInv'
<1>1. /\ Running(p) /\ faults' \in 0 .. MaxFaults /\ excused' = excused /\ excused \in BOOLEAN
      /\ run' = [run EXCEPT ![p] = Idle] /\ file' = file
      /\ UNCHANGED <<source, meta, drilled, published>>
  BY ConstantsAssumption DEF Crash, Fault, Histories, TypeOK, BackupInv
<1> QED BY <1>1, EndPreserves

LEMMA StartPreserves == ASSUME BackupInv, NEW p \in Procs, Start(p) PROVE BackupInv'
<1> USE DEF BackupInv
<1>1. /\ ~ Running(p) /\ faults' \in 0 .. MaxFaults
      /\ excused' = (excused \/ \E q \in Procs : Running(q))
      /\ UNCHANGED <<source, file, meta, drilled, published>>
  BY ConstantsAssumption DEF Start, Fault, TypeOK
<1>2. PICK n \in Names :
        /\ ~ file[n].exists
        /\ \A q \in Procs : n # run[q].name
        /\ n # meta
        /\ run' = [run EXCEPT ![p] = [Idle EXCEPT !.pc = "copy", !.name = n]]
  BY DEF Start, NameFree
<1> DEFINE r == [Idle EXCEPT !.pc = "copy", !.name = n]
<1>3. r \in Record /\ r.pc = "copy" /\ r.name = n
  <2>1. Idle \in Record
    BY ConstantsAssumption DEF Idle, Record, Steps
  <2>2. n \in 0 .. MaxNames /\ "copy" \in Steps
    BY ConstantsAssumption DEF Names, Steps
  <2> QED BY <2>1, <2>2 DEF Record
<1>4. /\ run' \in [Procs -> Record] /\ run'[p] = r
      /\ \A q \in Procs : q # p => run'[q] = run[q]
  BY <1>2, <1>3, RunChanges
<1> HIDE DEF r
<1>5. Files' = Files
  BY <1>1 DEF Files
<1>6. Running(p)' /\ \A q \in Procs : q # p => (Running(q)' <=> Running(q))
  BY <1>3, <1>4 DEF Running
<1>7. TypeOK'
  BY <1>1, <1>4 DEF TypeOK, Record
<1>8. NamesInv'
  BY <1>1, <1>2, <1>3, <1>4, <1>6 DEF NamesInv
<1>9. \A q \in Procs : Known(q)'
  BY <1>1, <1>2, <1>3, <1>4 DEF Known
<1>10. SoundInv' /\ (Readable => meta \in drilled)'
  BY <1>1, <1>5 DEF SoundInv, Readable
<1>11. AloneInv'
  <2> SUFFICES ASSUME ~ excused' PROVE AloneInv'
    BY DEF AloneInv
  <2>1. ~ excused /\ \A q \in Procs : ~ Running(q)
    BY <1>1
  <2>2. \A q \in Procs : Running(q)' => q = p
    BY <1>6, <2>1
  <2>3. Files \ {n} = Files
    BY <1>2 DEF Files
  <2>4. published' => Files' # {} /\ Files' \ {n} # {}
    BY <1>1, <1>5, <2>1, <2>3 DEF AloneInv
  <2>5. \A q \in Procs : run'[q].pc # "idle" => q = p
    BY <2>2 DEF Running
  <2> QED BY <1>3, <1>4, <2>2, <2>4, <2>5 DEF AloneInv
<1> QED BY <1>7, <1>8, <1>9, <1>10, <1>11

LEMMA AgePreserves == ASSUME BackupInv, NEW n \in Names, Age(n) PROVE BackupInv'
<1> USE DEF BackupInv
<1>1. /\ file[n].exists /\ \A p \in Procs : run[p].name # n
      /\ file' = [file EXCEPT ![n].old = TRUE]
      /\ source' = source /\ meta' = meta /\ run' = run /\ faults' = faults
      /\ drilled' = drilled /\ published' = published /\ excused' = excused
  BY DEF Age, Histories
<1>2. /\ file' \in [Names -> Entries]
      /\ \A m \in Names : /\ file'[m].exists = file[m].exists
                          /\ file'[m].sound = file[m].sound
                          /\ m # n => file'[m] = file[m]
  BY <1>1 DEF TypeOK, Entries
<1>3. Files' = Files
  BY <1>2 DEF Files
<1>4. TypeOK' /\ NamesInv'
  BY <1>1, <1>2 DEF TypeOK, Entries, NamesInv, Running
<1>5. \A p \in Procs : Known(p)'
  <2>1. \A p \in Procs : Running(p) => run[p].name \in Names /\ run[p].name # n
    BY <1>1 DEF NamesInv
  <2> QED BY <1>1, <1>2, <2>1 DEF Known, Running
<1>6. SoundInv' /\ (Readable => meta \in drilled)'
  BY <1>1, <1>2, <1>3 DEF SoundInv, Readable, Files
<1>7. AloneInv'
  BY <1>1, <1>3 DEF AloneInv, Running
<1> QED BY <1>4, <1>5, <1>6, <1>7

LEMMA BackupStutters ==
    ASSUME BackupInv, source' \in {"sound", "damaged"}, faults' \in 0 .. MaxFaults,
           UNCHANGED <<file, meta, run, Histories>>
    PROVE  BackupInv'
BY DEF BackupInv, TypeOK, NamesInv, Running, Known, SoundInv, Readable, AloneInv, Files, Histories

LEMMA BackupStarts == Init => BackupInv
<1> SUFFICES ASSUME Init PROVE BackupInv
  OBVIOUS
<1>1. TypeOK
  <2>1. NoFile \in Entries /\ Idle \in Record
    BY ConstantsAssumption DEF NoFile, Entries, Idle, Record, Steps
  <2>2. file \in [Names -> Entries] /\ run \in [Procs -> Record]
    BY <2>1 DEF Init
  <2>3. {published, excused} \subseteq BOOLEAN /\ meta = None /\ drilled \subseteq Names
    BY DEF Init
  <2>4. source \in {"sound", "damaged"} /\ faults \in 0 .. MaxFaults
    BY ConstantsAssumption DEF Init
  <2> QED BY <2>2, <2>3, <2>4 DEF TypeOK, Record, Entries
<1>2. Files = {} /\ \A p \in Procs : ~ Running(p) /\ run[p] = Idle
  BY DEF Init, Files, NoFile, Running, Idle
<1> QED BY <1>1, <1>2 DEF BackupInv, NamesInv, Known, SoundInv, Readable, AloneInv, Running, Init

LEMMA BackupStep == BackupInv /\ [Next]_vars => BackupInv'
<1> SUFFICES ASSUME BackupInv, [Next]_vars PROVE BackupInv'
  OBVIOUS
<1>1. ASSUME NEW p \in Procs, Start(p) \/ Work(p) \/ FailOperation(p) \/ Crash(p) PROVE BackupInv'
  BY <1>1, StartPreserves, FailOperationPreserves, CrashPreserves, CopyPreserves, VerifyPreserves,
     RenamePreserves, DrillPreserves, ListPreserves, ExpirePreserves, OpenMetadataPreserves,
     WriteMetadataPreserves, FailBlockedPreserves DEF Work
<1>2. ASSUME NEW n \in Names, Age(n) PROVE BackupInv'
  BY <1>2, AgePreserves
<1>3. ASSUME Damage \/ Repair PROVE BackupInv'
  <2>1. faults \in 0 .. MaxFaults
    BY DEF BackupInv, TypeOK
  <2>2. source' \in {"sound", "damaged"} /\ faults' \in 0 .. MaxFaults
    BY <1>3, <2>1, ConstantsAssumption DEF Damage, Repair, Fault
  <2> QED BY <1>3, <2>2, BackupStutters DEF Damage, Repair
<1>4. CASE UNCHANGED vars
  <2>1. source \in {"sound", "damaged"} /\ faults \in 0 .. MaxFaults
    BY DEF BackupInv, TypeOK
  <2> QED BY <1>4, <2>1, BackupStutters DEF vars, Histories
<1> QED BY <1>1, <1>2, <1>3, <1>4 DEF Next

LEMMA BackupInvariant == Spec => []BackupInv
BY BackupStarts, BackupStep, PTL DEF Spec

-----------------------------------------------------------------------------
\* However many processes share the directory and wherever they crash or fail, a backup
\* that last-success.json names is sound and has passed its restore drill.
THEOREM PublishedIsVerified == Spec => []PublishedVerified
<1>1. BackupInv => PublishedVerified
  BY DEF BackupInv, SoundInv, Readable, PublishedVerified
<1> QED BY <1>1, BackupInvariant, PTL

\* Once a run has succeeded a sound backup is there for ever, unless two runs overlapped or
\* last-success.json could not be written after the expired backups had gone.
THEOREM BackupIsKept == Spec => []BackupKept
<1>1. BackupInv => BackupKept
  BY DEF BackupInv, SoundInv, AloneInv, BackupKept
<1> QED BY <1>1, BackupInvariant, PTL

\* No step of any run removes a backup that is published and has not expired: a run
\* removes those that are old, and its own, which it never published.
THEOREM PublishedIsKept == Spec => PublishedKept
<1> DEFINE Keeps == \A n \in Files : ~ file[n].old /\ ~ file'[n].exists => meta # n
<1>1. BackupInv /\ [Next]_vars => [Keeps]_vars
  <2> SUFFICES ASSUME BackupInv, Next, NEW n \in Files, ~ file[n].old, ~ file'[n].exists
               PROVE  meta # n
    BY DEF Keeps
  <2> USE DEF BackupInv
  <2>1. n \in Names /\ file[n].exists /\ file \in [Names -> Entries]
    BY DEF Files, TypeOK, Entries
  <2>2. file' # file
    BY <2>1
  <2>3. ASSUME NEW p \in Procs, Fail(p), Running(p) PROVE meta # n
    <3>1. run[p].name \in Names /\ run[p].name # meta
      BY <2>3 DEF NamesInv
    <3>2. file' = [file EXCEPT ![run[p].name] = NoFile]
      BY <2>2, <2>3 DEF Fail
    <3> QED BY <2>1, <3>1, <3>2
  <2>4. ASSUME NEW p \in Procs, Expire(p) PROVE FALSE
    <3>1. file' = [file EXCEPT ![Entry(p)] = NoFile] /\ file[Entry(p)].old
      BY <2>2, <2>4 DEF Expire, Expired
    <3>2. n # Entry(p)
      BY <3>1
    <3> QED BY <2>1, <3>1, <3>2
  <2>5. ASSUME NEW p \in Procs, Rename(p) PROVE FALSE
    BY <2>1, <2>5 DEF Rename
  <2>6. ASSUME NEW m \in Names, Age(m) PROVE FALSE
    BY <2>1, <2>6 DEF Age, Entries
  <2> QED
    BY <2>2, <2>3, <2>4, <2>5, <2>6
    DEF Next, Work, Start, Copy, Verify, Drill, List, OpenMetadata, WriteMetadata, FailBlocked,
        Blocked, Running, FailOperation, Crash, Damage, Repair
<1> QED BY <1>1, BackupInvariant, PTL DEF Spec, PublishedKept, Keeps
=============================================================================
