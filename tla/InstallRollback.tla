--------------------------- MODULE InstallRollback ---------------------------
(***************************************************************************)
(* Installer snapshots and rollback (upgrade.py), driven by install.sh: an *)
(* attempt quiesces the services, copies the installation, replaces it and *)
(* lets setup verify it; a failed attempt is restored target by target,    *)
(* and what the server accepted meanwhile is merged into the restored      *)
(* database.  Any step can fail or be killed, the machine can reboot, and  *)
(* a restore can be run again.                                             *)
(*                                                                         *)
(* A database stands for the file with its sidecars, and a set of accepted *)
(* reports, events and devices for its rows.                               *)
(***************************************************************************)
EXTENDS Naturals, Sequences, SequencesExt

CONSTANTS
    Order,        \* the targets, in the order of targets()
    Database,     \* the one that is data/inventory.db
    Evidence,     \* what the server can accept
    NoDatabase,   \* stands in the place of the rows of a database that does not exist
    MaxAttempts,  \* bound on installer runs
    MaxFailures   \* bound on failed or killed steps, reboots and repeated restores

Target == ToSet(Order)
File == Target \ {Database}

ASSUME RollbackAssumption ==
    /\ Order \in Seq(Target)
    /\ \A m, n \in DOMAIN Order : Order[m] = Order[n] => m = n
    /\ Database \in Target
    /\ {MaxAttempts, MaxFailures} \subseteq Nat
    /\ NoDatabase \notin Evidence

Missing == {NoDatabase}

VARIABLES
    pc,           \* where the installer is; "stuck" is a restore that did not finish
    next,         \* the target it is at
    moved,        \* restore has moved that target away
    attempt,      \* installer runs so far
    live,         \* files: the run that wrote each of them, or 0
    db,           \* rows of the database, or Missing
    backup,       \* the copy the current run made
    failed,       \* databases in the failed-state directories of that backup
    archive,      \* rows in the directories of earlier backups
    running,      \* the server runs
    accepted,     \* history: all the server ever accepted
    interrupted,  \* history: a restore of this backup did not finish
    failures

installation == <<live, db>>
saved == <<backup, failed, archive>>
loop == <<next, moved>>
vars == <<pc, loop, attempt, installation, saved, running, accepted, interrupted, failures>>

Rows == (SUBSET Evidence) \cup {Missing}
RowsIn(d) == d \ Missing
Backup == [files : [File -> 0..MaxAttempts], db : Rows, known : SUBSET Evidence,
           manifest : BOOLEAN]
NoFiles == [f \in File |-> 0]

TypeOK ==
    /\ pc \in {"idle", "snapshot", "install", "killed", "restore", "start", "stuck", "restored"}
    /\ next \in 1..(Len(Order) + 1) /\ moved \in BOOLEAN
    /\ attempt \in 0..MaxAttempts
    /\ live \in [File -> 0..MaxAttempts]
    /\ db \in Rows
    /\ backup \in Backup
    /\ failed \in Seq(Rows)
    /\ archive \subseteq Evidence /\ accepted \subseteq Evidence
    /\ running \in BOOLEAN /\ interrupted \in BOOLEAN
    /\ failures \in 0..MaxFailures
    \* A server that runs has its database.
    /\ running => db # Missing

Init ==
    /\ pc = "idle" /\ next = 1 /\ moved = FALSE /\ attempt = 0
    /\ live = NoFiles /\ db = Missing
    /\ backup = [files |-> NoFiles, db |-> Missing, known |-> {}, manifest |-> FALSE]
    /\ failed = <<>> /\ archive = {}
    /\ running = FALSE /\ accepted = {}
    /\ interrupted = FALSE /\ failures = 0

-----------------------------------------------------------------------------
(* The server. *)

Accept(e) ==
    /\ running
    /\ e \notin accepted
    /\ db' = db \cup {e}
    /\ accepted' = accepted \cup {e}
    /\ UNCHANGED <<pc, loop, attempt, live, saved, running, interrupted, failures>>

Startable == \A f \in File : live[f] # 0

\* A server that finds no database creates one.
Opened(d) == IF d = Missing THEN {} ELSE d

StartServer ==
    /\ running' = Startable
    /\ db' = IF Startable THEN Opened(db) ELSE db

Failure ==
    /\ failures < MaxFailures
    /\ failures' = failures + 1

\* The services are enabled: they come back whatever the installer left.
Reboot ==
    /\ pc \in {"idle", "killed", "stuck", "restored"} /\ ~running
    /\ Startable
    /\ Failure
    /\ StartServer
    /\ UNCHANGED <<pc, loop, attempt, live, saved, accepted, interrupted>>

-----------------------------------------------------------------------------
(* snapshot, with the services stopped. *)

BeginSnapshot ==
    /\ pc \in {"idle", "killed", "stuck", "restored"}
    /\ attempt < MaxAttempts
    /\ attempt' = attempt + 1
    /\ pc' = "snapshot" /\ next' = 1 /\ moved' = FALSE
    /\ running' = FALSE
    /\ backup' = [files |-> NoFiles, db |-> Missing, known |-> accepted, manifest |-> FALSE]
    /\ failed' = <<>>
    /\ archive' = archive \cup RowsIn(backup.db) \cup UNION {RowsIn(d) : d \in ToSet(failed)}
    /\ interrupted' = FALSE
    /\ UNCHANGED <<installation, accepted, failures>>

Copied == next > Len(Order)

CopyTarget ==
    /\ pc = "snapshot" /\ ~Copied
    /\ backup' = IF Order[next] = Database THEN [backup EXCEPT !.db = db]
                 ELSE [backup EXCEPT !.files[Order[next]] = live[Order[next]]]
    /\ next' = next + 1
    /\ UNCHANGED <<pc, moved, attempt, installation, failed, archive, running,
                   accepted, interrupted, failures>>

WriteManifest ==
    /\ pc = "snapshot" /\ Copied
    /\ pc' = "install"
    /\ backup' = [backup EXCEPT !.manifest = TRUE]
    /\ UNCHANGED <<loop, attempt, installation, failed, archive, running, accepted,
                   interrupted, failures>>

\* A step raises, and the services are started again, or the process is killed.
SnapshotFails ==
    /\ pc = "snapshot"
    /\ Failure
    /\ pc' = "idle"
    /\ StartServer \/ UNCHANGED <<running, db>>
    /\ UNCHANGED <<loop, attempt, live, saved, accepted, interrupted>>

-----------------------------------------------------------------------------
(* The installation proper (install.sh and setup). *)

Replace(f) ==
    /\ pc = "install"
    /\ live' = [live EXCEPT ![f] = attempt]
    /\ UNCHANGED <<pc, loop, attempt, db, saved, running, accepted, interrupted, failures>>

\* Setup starts the new server to verify it.
Launch ==
    /\ pc = "install" /\ ~running
    /\ Startable
    /\ StartServer
    /\ UNCHANGED <<pc, loop, attempt, live, saved, accepted, interrupted, failures>>

Complete ==
    /\ pc = "install" /\ running
    /\ \A f \in File : live[f] = attempt
    /\ pc' = "idle"
    /\ UNCHANGED <<loop, attempt, installation, saved, running, accepted,
                   interrupted, failures>>

InstallKilled ==
    /\ pc = "install"
    /\ Failure
    /\ pc' = "killed"
    /\ UNCHANGED <<loop, attempt, installation, saved, running, accepted, interrupted>>

-----------------------------------------------------------------------------
(* restore. *)

\* Each run has a directory of its own for what it moves away.
\* Mutant: the directory of an earlier run is used again.
FreshReused(dirs) == IF dirs = <<>> THEN <<Missing>> ELSE dirs
Fresh(dirs) == Append(dirs, Missing)

\* The installer's exit trap runs restore; so may anybody, at any later time.
BeginRestore ==
    /\ backup.manifest
    /\ \/ pc \in {"install", "idle", "restored"} /\ Failure
       \/ pc \in {"killed", "stuck"} /\ UNCHANGED failures
    /\ pc' = "restore" /\ next' = 1 /\ moved' = FALSE
    /\ running' = FALSE
    /\ failed' = Fresh(failed)
    /\ UNCHANGED <<attempt, installation, backup, archive, accepted, interrupted>>

\* Mutant: only what the snapshot had is moved away.
LeavesListed(t) == IF t = Database THEN backup.db # Missing ELSE backup.files[t] # 0
Leaves(t) == t \in Target

MoveAway ==
    /\ pc = "restore" /\ ~Copied /\ ~moved
    /\ LET t == Order[next] IN
         IF ~Leaves(t) THEN UNCHANGED <<live, db, failed>>
         ELSE IF t = Database
         THEN /\ db' = Missing
              /\ failed' = IF db = Missing THEN failed
                           ELSE [failed EXCEPT ![Len(failed)] = db]
              /\ UNCHANGED live
         ELSE /\ live' = [live EXCEPT ![t] = 0]
              /\ UNCHANGED <<db, failed>>
    /\ moved' = TRUE
    /\ UNCHANGED <<pc, next, attempt, backup, archive, running, accepted,
                   interrupted, failures>>

CopyBack ==
    /\ pc = "restore" /\ ~Copied /\ moved
    /\ LET t == Order[next] IN
         IF t = Database
         THEN /\ db' = IF backup.db = Missing THEN db ELSE backup.db
              /\ UNCHANGED live
         ELSE /\ live' = IF backup.files[t] = 0 THEN live
                         ELSE [live EXCEPT ![t] = backup.files[t]]
              /\ UNCHANGED db
    /\ moved' = FALSE /\ next' = next + 1
    /\ UNCHANGED <<pc, attempt, saved, running, accepted, interrupted, failures>>

\* Mutant: the failed attempt is left aside.
PreservedNothing == RowsIn(db)
Preserved == RowsIn(db) \cup RowsIn(Last(failed))

\* _preserve_evidence reads the directory of this run only.
PreserveEvidence ==
    /\ pc = "restore" /\ Copied
    /\ pc' = "start"
    /\ db' = IF db # Missing /\ Last(failed) # Missing THEN Preserved ELSE db
    /\ UNCHANGED <<loop, attempt, live, saved, running, accepted, interrupted, failures>>

StartRestored ==
    /\ pc = "start"
    /\ pc' = "restored"
    /\ StartServer
    /\ UNCHANGED <<loop, attempt, live, saved, accepted, interrupted, failures>>

\* A step of restore raises (a full disk, a server that does not come up) or the
\* process is killed: "Automatic rollback could not finish".
RestoreFails ==
    /\ pc \in {"restore", "start"}
    /\ Failure
    /\ pc' = "stuck"
    /\ interrupted' = TRUE
    /\ \/ UNCHANGED <<running, db>>
       \/ pc = "start" /\ StartServer
    /\ UNCHANGED <<loop, attempt, live, saved, accepted>>

Next ==
    \/ \E e \in Evidence : Accept(e)
    \/ BeginSnapshot \/ CopyTarget \/ WriteManifest \/ SnapshotFails
    \/ (\E f \in File : Replace(f)) \/ Launch \/ Complete \/ InstallKilled
    \/ BeginRestore \/ MoveAway \/ CopyBack \/ PreserveEvidence \/ StartRestored
    \/ RestoreFails \/ Reboot

Spec == Init /\ [][Next]_vars

-----------------------------------------------------------------------------
(* Properties. *)

\* Whatever fails, is killed or repeated, nothing the server accepted leaves the
\* disk: it is in the database, in the backup or in a failed-state directory.
NothingDestroyed ==
    accepted \subseteq RowsIn(db) \cup RowsIn(backup.db) \cup archive
                       \cup UNION {RowsIn(d) : d \in ToSet(failed)}

\* A restore that finishes leaves the files of the snapshot and no other, even
\* when an earlier restore stopped half way and services ran in between.
RestoredExactly ==
    pc = "restored" => live = backup.files

\* What the server accepted since the snapshot, beside what the snapshot has.
Owed == RowsIn(backup.db) \cup (accepted \ backup.known)

\* A restore that finishes at its first run keeps in the restored database all
\* that the failed installation had accepted.
FirstRestoreKeeps ==
    (pc = "restored" /\ backup.db # Missing /\ ~interrupted) => Owed \subseteq db

\* What _preserve_evidence is said to do, "Repeating rollback remains idempotent
\* through primary keys" (upgrade.py), and a restore run again does not: the rows
\* that an unfinished run moved away are not merged.
RepeatedRestoreKeeps ==
    (pc = "restored" /\ backup.db # Missing) => Owed \subseteq db

=============================================================================
