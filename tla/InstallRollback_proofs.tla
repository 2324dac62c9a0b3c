----------------------- MODULE InstallRollback_proofs -----------------------
(***************************************************************************)
(* Proofs about InstallRollback for every list of targets, every set of    *)
(* evidence and any number of installer runs and failures.                 *)
(***************************************************************************)
EXTENDS InstallRollback, TLAPS

(***************************************************************************)
(* The order of the targets, and what a database can hold.                 *)
(***************************************************************************)

LEMMA OrderType ==
  /\ Len(Order) \in Nat /\ DOMAIN Order = 1..Len(Order)
  /\ \A n \in 1..Len(Order) : Order[n] \in Target
  /\ \A m, n \in 1..Len(Order) : Order[m] = Order[n] => m = n
BY RollbackAssumption

LEMMA MissingType == Missing \in Rows /\ RowsIn(Missing) = {}
BY DEF Rows, RowsIn, Missing

LEMMA RowsInType ==
  ASSUME NEW d \in Rows
  PROVE  RowsIn(d) \subseteq Evidence /\ (d # Missing => RowsIn(d) = d)
BY RollbackAssumption DEF Rows, RowsIn, Missing

LEMMA EvidenceRows ==
  ASSUME NEW S \in SUBSET Evidence
  PROVE  S \in Rows /\ S # Missing /\ RowsIn(S) = S
BY RollbackAssumption DEF Rows, RowsIn, Missing

\* Rows in the failed-state directories.
LEMMA AsideRows ==
  ASSUME NEW s \in Seq(Rows), NEW e
  PROVE  e \in UNION {RowsIn(d) : d \in ToSet(s)} <=> \E n \in 1..Len(s) : e \in RowsIn(s[n])
BY DEF ToSet

LEMMA LastType ==
  ASSUME NEW s \in Seq(Rows), s # <<>>
  PROVE  /\ Len(s) \in Nat \ {0} /\ Last(s) = s[Len(s)] /\ Last(s) \in Rows
         /\ \A d \in Rows : LET t == [s EXCEPT ![Len(s)] = d] IN
              /\ t \in Seq(Rows) /\ t # <<>> /\ Len(t) = Len(s) /\ Last(t) = d
              /\ \A n \in 1..Len(s) : t[n] = IF n = Len(s) THEN d ELSE s[n]
<1>1. Len(s) \in Nat \ {0} /\ s \in [1..Len(s) -> Rows]
  OBVIOUS
<1>2. Last(s) = s[Len(s)] /\ Last(s) \in Rows
  BY <1>1 DEF Last
<1>3. ASSUME NEW d \in Rows
      PROVE  LET t == [s EXCEPT ![Len(s)] = d] IN
              /\ t \in Seq(Rows) /\ t # <<>> /\ Len(t) = Len(s) /\ Last(t) = d
              /\ \A n \in 1..Len(s) : t[n] = IF n = Len(s) THEN d ELSE s[n]
  <2> DEFINE t == [s EXCEPT ![Len(s)] = d]
  <2>1. t \in [1..Len(s) -> Rows]
    BY <1>1
  <2>2. t \in Seq(Rows) /\ Len(t) = Len(s)
    BY <1>1, <2>1
  <2>3. \A n \in 1..Len(s) : t[n] = IF n = Len(s) THEN d ELSE s[n]
    BY <1>1
  <2>4. t # <<>>
    BY <1>1, <2>2
  <2>5. Last(t) = d
    BY <1>1, <2>2, <2>3 DEF Last
  <2> QED BY <2>2, <2>3, <2>4, <2>5
<1> QED BY <1>1, <1>2, <1>3

LEMMA FreshType ==
  ASSUME NEW s \in Seq(Rows)
  PROVE  /\ Fresh(s) \in Seq(Rows) /\ Fresh(s) # <<>> /\ Last(Fresh(s)) = Missing
         /\ Len(Fresh(s)) = Len(s) + 1
         /\ \A n \in 1..Len(s) : Fresh(s)[n] = s[n]
BY MissingType DEF Fresh, Last

(***************************************************************************)
(* Type correctness.  A running server has its database because the steps  *)
(* that take the database away run with the services stopped.              *)
(***************************************************************************)

Quiet == pc \in {"snapshot", "restore", "start"} => ~running
DirectoryMade == pc = "restore" => failed # <<>>

TypeInv == TypeOK /\ Quiet /\ DirectoryMade

LEMMA TypeInit == Init => TypeInv
<1> SUFFICES ASSUME Init PROVE TypeInv
  OBVIOUS
<1>1. /\ MaxAttempts \in Nat /\ MaxFailures \in Nat
      /\ Len(Order) \in Nat /\ 1 \in 1..(Len(Order) + 1)
  BY OrderType, RollbackAssumption
<1>2. NoFiles \in [File -> 0..MaxAttempts]
  BY <1>1 DEF NoFiles
<1>3. backup \in Backup
  BY <1>2, MissingType DEF Init, Backup
<1>4. TypeOK
  <2>1. attempt \in 0..MaxAttempts /\ failures \in 0..MaxFailures /\ failed \in Seq(Rows)
    BY <1>1 DEF Init
  <2>2. next \in 1..(Len(Order) + 1) /\ live \in [File -> 0..MaxAttempts] /\ db \in Rows
    BY <1>1, <1>2, MissingType DEF Init
  <2>3. archive \subseteq Evidence /\ accepted \subseteq Evidence
    BY DEF Init
  <2> QED BY <1>3, <2>1, <2>2, <2>3 DEF Init, TypeOK
<1> QED BY <1>4 DEF Init, TypeInv, Quiet, DirectoryMade

\* Starting the server leaves the database it finds, or creates one.
LEMMA StartServerType ==
  ASSUME TypeOK, StartServer
  PROVE  /\ db' \in Rows /\ running' \in BOOLEAN /\ (running' => db' # Missing)
         /\ RowsIn(db') = RowsIn(db)
<1>1. {} \in Rows /\ {} # Missing /\ RowsIn({}) = {}
  BY EvidenceRows
<1>2. db \in Rows
  BY DEF TypeOK
<1> QED BY <1>1, <1>2, MissingType DEF StartServer, Startable, Opened

LEMMA TypeStep == TypeInv /\ [Next]_vars => TypeInv'
<1> SUFFICES ASSUME TypeInv, [Next]_vars PROVE TypeInv'
  OBVIOUS
<1>t. /\ Len(Order) \in Nat /\ 1 \in 1..(Len(Order) + 1)
      /\ MaxAttempts \in Nat /\ MaxFailures \in Nat
      /\ NoFiles \in [File -> 0..MaxAttempts] /\ Missing \in Rows
  BY OrderType, MissingType, RollbackAssumption DEF NoFiles
<1>u. /\ TypeOK /\ Quiet /\ DirectoryMade
  BY DEF TypeInv
<1>v. backup \in Backup /\ backup.db \in Rows /\ backup.files \in [File -> 0..MaxAttempts]
  BY <1>u DEF TypeOK, Backup
<1>1. ASSUME NEW e \in Evidence, Accept(e) PROVE TypeInv'
  <2>1. db # Missing /\ db \in SUBSET Evidence
    BY <1>1, <1>u DEF Accept, TypeOK, Rows
  <2>2. db' \in Rows /\ db' # Missing
    BY <1>1, <2>1, EvidenceRows DEF Accept
  <2> QED BY <1>1, <1>u, <2>2 DEF Accept, TypeInv, TypeOK, Quiet, DirectoryMade, loop, saved
<1>2. ASSUME BeginSnapshot PROVE TypeInv'
  <2>1. backup' \in Backup /\ failed' \in Seq(Rows)
    BY <1>2, <1>t, <1>u DEF BeginSnapshot, Backup, TypeOK
  <2>2. archive' \subseteq Evidence
    <3>1. \A d \in ToSet(failed) : RowsIn(d) \subseteq Evidence
      BY <1>u, RowsInType DEF TypeOK, ToSet
    <3> QED BY <1>2, <1>u, <1>v, <3>1, RowsInType DEF BeginSnapshot, TypeOK
  <2>3. attempt' \in 0..MaxAttempts /\ next' \in 1..(Len(Order) + 1)
    BY <1>2, <1>t, <1>u DEF BeginSnapshot, TypeOK
  <2> QED BY <1>2, <1>u, <2>1, <2>2, <2>3
          DEF BeginSnapshot, TypeInv, TypeOK, Quiet, DirectoryMade, installation
<1>3. ASSUME CopyTarget PROVE TypeInv'
  <2>1. next \in 1..Len(Order) /\ next' \in 1..(Len(Order) + 1)
    BY <1>3, <1>t, <1>u DEF CopyTarget, Copied, TypeOK
  <2>2. backup' \in Backup
    <3>1. CASE Order[next] = Database
      BY <1>3, <1>u, <3>1 DEF CopyTarget, TypeOK, Backup
    <3>2. CASE Order[next] # Database
      <4>1. Order[next] \in File
        BY <2>1, <3>2, OrderType DEF File
      <4>2. live[Order[next]] \in 0..MaxAttempts
        BY <1>u, <4>1 DEF TypeOK
      <4> QED BY <1>3, <1>u, <3>2, <4>1, <4>2 DEF CopyTarget, TypeOK, Backup
    <3> QED BY <3>1, <3>2
  <2> QED BY <1>3, <1>u, <2>1, <2>2
          DEF CopyTarget, TypeInv, TypeOK, Quiet, DirectoryMade, installation
<1>4. ASSUME WriteManifest PROVE TypeInv'
  <2>1. backup' \in Backup
    BY <1>4, <1>u DEF WriteManifest, TypeOK, Backup
  <2> QED BY <1>4, <1>u, <2>1
          DEF WriteManifest, TypeInv, TypeOK, Quiet, DirectoryMade, installation, loop
<1>5. ASSUME SnapshotFails PROVE TypeInv'
  <2>1. db' \in Rows /\ running' \in BOOLEAN /\ (running' => db' # Missing)
    BY <1>5, <1>u, StartServerType DEF SnapshotFails, TypeOK
  <2>2. failures' \in 0..MaxFailures
    BY <1>5, <1>t, <1>u DEF SnapshotFails, Failure, TypeOK
  <2> QED BY <1>5, <1>u, <2>1, <2>2
          DEF SnapshotFails, TypeInv, TypeOK, Quiet, DirectoryMade, loop, saved
<1>6. ASSUME NEW f \in File, Replace(f) PROVE TypeInv'
  <2>1. live' \in [File -> 0..MaxAttempts]
    BY <1>6, <1>u DEF Replace, TypeOK
  <2> QED BY <1>6, <1>u, <2>1
          DEF Replace, TypeInv, TypeOK, Quiet, DirectoryMade, loop, saved
<1>7. ASSUME Launch PROVE TypeInv'
  <2>1. db' \in Rows /\ running' \in BOOLEAN /\ (running' => db' # Missing)
    BY <1>7, <1>u, StartServerType DEF Launch
  <2> QED BY <1>7, <1>u, <2>1
          DEF Launch, TypeInv, TypeOK, Quiet, DirectoryMade, loop, saved
<1>8. ASSUME Complete PROVE TypeInv'
  BY <1>8, <1>u DEF Complete, TypeInv, TypeOK, Quiet, DirectoryMade, loop, saved, installation
<1>9. ASSUME InstallKilled PROVE TypeInv'
  <2>1. failures' \in 0..MaxFailures
    BY <1>9, <1>t, <1>u DEF InstallKilled, Failure, TypeOK
  <2> QED BY <1>9, <1>u, <2>1
          DEF InstallKilled, TypeInv, TypeOK, Quiet, DirectoryMade, loop, saved, installation
<1>10. ASSUME BeginRestore PROVE TypeInv'
  <2>1. failures' \in 0..MaxFailures
    BY <1>10, <1>t, <1>u DEF BeginRestore, Failure, TypeOK
  <2>2. failed' \in Seq(Rows) /\ failed' # <<>>
    BY <1>10, <1>u, FreshType DEF BeginRestore, TypeOK
  <2> QED BY <1>10, <1>t, <1>u, <2>1, <2>2
          DEF BeginRestore, TypeInv, TypeOK, Quiet, DirectoryMade, installation
<1>11. ASSUME MoveAway PROVE TypeInv'
  <2>1. failed # <<>> /\ ~running /\ next \in 1..Len(Order) /\ Leaves(Order[next])
    BY <1>11, <1>t, <1>u, OrderType
       DEF MoveAway, Copied, TypeOK, Quiet, DirectoryMade, Leaves
  <2>2. db' \in Rows /\ failed' \in Seq(Rows) /\ failed' # <<>>
    <3>1. failed \in Seq(Rows) /\ db \in Rows
      BY <1>u DEF TypeOK
    <3> QED BY <1>11, <1>t, <2>1, <3>1, LastType DEF MoveAway
  <2>3. live' \in [File -> 0..MaxAttempts]
    <3>1. live \in [File -> 0..MaxAttempts] /\ 0 \in 0..MaxAttempts
      BY <1>t, <1>u DEF TypeOK
    <3>2. live' = live \/ live' = [live EXCEPT ![Order[next]] = 0]
      BY <1>11 DEF MoveAway
    <3> QED BY <3>1, <3>2
  <2> QED BY <1>11, <1>u, <2>1, <2>2, <2>3
          DEF MoveAway, TypeInv, TypeOK, Quiet, DirectoryMade
<1>12. ASSUME CopyBack PROVE TypeInv'
  <2>1. failed # <<>> /\ ~running /\ next \in 1..Len(Order) /\ next' \in 1..(Len(Order) + 1)
    BY <1>12, <1>t, <1>u DEF CopyBack, Copied, TypeOK, Quiet, DirectoryMade
  <2>2. db' \in Rows
    BY <1>12, <1>u, <1>v DEF CopyBack, TypeOK
  <2>3. live' \in [File -> 0..MaxAttempts]
    <3>1. CASE Order[next] = Database
      BY <1>12, <1>u, <3>1 DEF CopyBack, TypeOK
    <3>2. CASE Order[next] # Database
      <4>1. Order[next] \in File
        BY <2>1, <3>2, OrderType DEF File
      <4> QED BY <1>12, <1>u, <1>v, <3>2, <4>1 DEF CopyBack, TypeOK
    <3> QED BY <3>1, <3>2
  <2> QED BY <1>12, <1>u, <2>1, <2>2, <2>3
          DEF CopyBack, TypeInv, TypeOK, Quiet, DirectoryMade, saved
<1>13. ASSUME PreserveEvidence PROVE TypeInv'
  <2>1. db' \in Rows /\ ~running
    <3>1. /\ failed \in Seq(Rows) /\ failed # <<>> /\ db \in Rows /\ ~running
      BY <1>13, <1>u DEF PreserveEvidence, TypeOK, Quiet, DirectoryMade
    <3>2. Last(failed) \in Rows
      BY <3>1, LastType
    <3>3. Preserved \in Rows
      BY <3>1, <3>2, RowsInType, EvidenceRows DEF Preserved
    <3> QED BY <1>13, <3>1, <3>3 DEF PreserveEvidence
  <2> QED BY <1>13, <1>u, <2>1
          DEF PreserveEvidence, TypeInv, TypeOK, Quiet, DirectoryMade, loop, saved
<1>14. ASSUME StartRestored PROVE TypeInv'
  <2>1. db' \in Rows /\ running' \in BOOLEAN /\ (running' => db' # Missing)
    BY <1>14, <1>u, StartServerType DEF StartRestored
  <2> QED BY <1>14, <1>u, <2>1
          DEF StartRestored, TypeInv, TypeOK, Quiet, DirectoryMade, loop, saved
<1>15. ASSUME RestoreFails PROVE TypeInv'
  <2>1. db' \in Rows /\ running' \in BOOLEAN /\ (running' => db' # Missing)
    BY <1>15, <1>u, StartServerType DEF RestoreFails, TypeOK
  <2>2. failures' \in 0..MaxFailures
    BY <1>15, <1>t, <1>u DEF RestoreFails, Failure, TypeOK
  <2> QED BY <1>15, <1>u, <2>1, <2>2
          DEF RestoreFails, TypeInv, TypeOK, Quiet, DirectoryMade, loop, saved
<1>16. ASSUME Reboot PROVE TypeInv'
  <2>1. db' \in Rows /\ running' \in BOOLEAN /\ (running' => db' # Missing)
    BY <1>16, <1>u, StartServerType DEF Reboot
  <2>2. failures' \in 0..MaxFailures
    BY <1>16, <1>t, <1>u DEF Reboot, Failure, TypeOK
  <2> QED BY <1>16, <1>u, <2>1, <2>2
          DEF Reboot, TypeInv, TypeOK, Quiet, DirectoryMade, loop, saved
<1>17. ASSUME UNCHANGED vars PROVE TypeInv'
  BY <1>17, <1>u DEF vars, loop, installation, saved, TypeInv, TypeOK, Quiet, DirectoryMade
<1> QED BY <1>1, <1>2, <1>3, <1>4, <1>5, <1>6, <1>7, <1>8, <1>9, <1>10, <1>11, <1>12,
           <1>13, <1>14, <1>15, <1>16, <1>17 DEF Next

\* Every state is well typed; a server that runs has its database, so that what
\* it accepts is written to one.
THEOREM TypeCorrect == Spec => []TypeOK
<1>1. Spec => []TypeInv
  BY TypeInit, TypeStep, PTL DEF Spec
<1>2. TypeInv => TypeOK
  BY DEF TypeInv
<1> QED BY <1>1, <1>2, PTL

(***************************************************************************)
(* Evidence.  NothingDestroyed is not inductive: it needs that the three   *)
(* steps that write over a database write over an empty place.             *)
(***************************************************************************)

Held(e) ==
    \/ e \in RowsIn(db) \/ e \in RowsIn(backup.db) \/ e \in archive
    \/ \E n \in 1..Len(failed) : e \in RowsIn(failed[n])

AllHeld == \A e \in accepted : Held(e)

\* The backup gets its database once,
CopiedOnce ==
    pc = "snapshot" =>
      \A n \in 1..Len(Order) : (n >= next /\ Order[n] = Database) => backup.db = Missing

\* a restore moves the database away once, to a directory that has none,
MovedOnce ==
    pc = "restore" =>
      \A n \in 1..Len(Order) :
        (Order[n] = Database /\ (n > next \/ (n = next /\ ~moved))) => Last(failed) = Missing

\* and copies the backup to where it moved it from.
Vacated ==
    (pc = "restore" /\ moved /\ next <= Len(Order) /\ Order[next] = Database) => db = Missing

KeepInv == TypeInv /\ AllHeld /\ CopiedOnce /\ MovedOnce /\ Vacated

LEMMA HeldDestroyed ==
  ASSUME TypeInv
  PROVE  AllHeld <=> NothingDestroyed
<1>1. failed \in Seq(Rows)
  BY DEF TypeInv, TypeOK
<1>2. \A e : Held(e) <=> e \in RowsIn(db) \cup RowsIn(backup.db) \cup archive
                              \cup UNION {RowsIn(d) : d \in ToSet(failed)}
  BY <1>1, AsideRows DEF Held
<1> QED BY <1>2 DEF AllHeld, NothingDestroyed

\* What only adds rows keeps those that are held.
LEMMA HeldGrows ==
  ASSUME RowsIn(db) \subseteq RowsIn(db)', RowsIn(backup.db) \subseteq RowsIn(backup.db)',
         archive \subseteq archive',
         \A n \in 1..Len(failed) :
           n \in 1..Len(failed') /\ RowsIn(failed[n]) \subseteq RowsIn(failed'[n])
  PROVE  \A e : Held(e) => Held(e)'
BY DEF Held, RowsIn, Missing

LEMMA KeepInit == Init => KeepInv
BY TypeInit DEF Init, KeepInv, AllHeld, CopiedOnce, MovedOnce, Vacated

LEMMA KeepStep == KeepInv /\ [Next]_vars => KeepInv'
<1> SUFFICES ASSUME KeepInv, [Next]_vars PROVE KeepInv'
  OBVIOUS
<1> DEFINE Guards == CopiedOnce /\ MovedOnce /\ Vacated
           DbGrows == RowsIn(db) \subseteq RowsIn(db)'
<1>a. TypeInv /\ TypeInv' /\ AllHeld /\ CopiedOnce /\ MovedOnce /\ Vacated
  BY TypeStep DEF KeepInv
<1>b. /\ db \in Rows /\ backup.db \in Rows /\ failed \in Seq(Rows) /\ next \in Nat
      /\ Len(Order) \in Nat /\ Len(failed) \in Nat
  BY <1>a, OrderType DEF TypeInv, TypeOK, Backup
\* Most steps leave the backup, the directories and the history alone.
<1>c. ASSUME DbGrows, UNCHANGED <<backup, failed, archive, accepted>> PROVE AllHeld'
  BY <1>a, <1>c, HeldGrows DEF AllHeld
<1>d. ASSUME StartServer PROVE DbGrows
  BY <1>a, <1>d, StartServerType DEF TypeInv
<1>1. ASSUME NEW e \in Evidence, Accept(e) PROVE AllHeld' /\ Guards'
  <2>1. db \in SUBSET Evidence /\ pc \notin {"snapshot", "restore"}
    BY <1>1, <1>a, <1>b DEF Accept, TypeInv, TypeOK, Quiet, Rows
  <2>2. DbGrows /\ e \in RowsIn(db)'
    <3>1. RowsIn(db \cup {e}) = db \cup {e} /\ RowsIn(db) = db
      BY <2>1, EvidenceRows
    <3> QED BY <1>1, <3>1 DEF Accept, RowsIn, Missing
  <2>3. \A f : Held(f) => Held(f)'
    BY <1>1, <2>2, HeldGrows DEF Accept, saved
  <2>4. Held(e)'
    BY <2>2 DEF Held
  <2> QED BY <1>1, <1>a, <2>1, <2>3, <2>4
          DEF Accept, AllHeld, CopiedOnce, MovedOnce, Vacated, loop
<1>2. ASSUME BeginSnapshot PROVE AllHeld' /\ Guards'
  <2>1. \A f : Held(f) => Held(f)'
    <3>1. UNCHANGED db
      BY <1>2 DEF BeginSnapshot, installation
    <3>2. \A f : (\E n \in 1..Len(failed) : f \in RowsIn(failed[n]))
                   => f \in UNION {RowsIn(d) : d \in ToSet(failed)}
      BY <1>b, AsideRows
    <3>3. \A f : f \in archive' <=>
             \/ f \in archive \/ f \in RowsIn(backup.db)
             \/ f \in UNION {RowsIn(d) : d \in ToSet(failed)}
      BY <1>2 DEF BeginSnapshot
    <3> QED BY <3>1, <3>2, <3>3 DEF Held, RowsIn
  <2> QED BY <1>2, <1>a, <2>1 DEF BeginSnapshot, AllHeld, CopiedOnce, MovedOnce, Vacated
<1>3. ASSUME CopyTarget PROVE AllHeld' /\ Guards'
  <2>1. next \in 1..Len(Order) /\ pc = "snapshot" /\ next' = next + 1 /\ UNCHANGED pc
    BY <1>3, <1>a, <1>b DEF CopyTarget, Copied, TypeInv, TypeOK
  <2>2. RowsIn(backup.db) \subseteq RowsIn(backup.db)'
    <3>1. CASE Order[next] = Database
      BY <1>a, <2>1, <3>1, MissingType DEF CopiedOnce
    <3>2. CASE Order[next] # Database
      BY <1>3, <1>a, <3>2 DEF CopyTarget, TypeInv, TypeOK, Backup, RowsIn
    <3> QED BY <3>1, <3>2
  <2>3. AllHeld'
    BY <1>3, <1>a, <1>b, <2>2, HeldGrows DEF CopyTarget, AllHeld, installation
  <2>4. CopiedOnce'
    <3> SUFFICES ASSUME NEW n \in 1..Len(Order), n >= next + 1, Order[n] = Database
                 PROVE  backup'.db = Missing
      BY <2>1 DEF CopiedOnce
    <3>1. Order[next] # Database
      BY <1>b, <2>1, OrderType
    <3>2. backup.db = Missing
      BY <1>a, <1>b, <2>1 DEF CopiedOnce
    <3> QED BY <1>3, <1>a, <3>1, <3>2 DEF CopyTarget, TypeInv, TypeOK, Backup
  <2> QED BY <2>1, <2>3, <2>4 DEF MovedOnce, Vacated
<1>4. ASSUME WriteManifest PROVE AllHeld' /\ Guards'
  <2>1. backup'.db = backup.db
    BY <1>4, <1>a DEF WriteManifest, TypeInv, TypeOK, Backup
  <2>2. AllHeld'
    BY <1>4, <1>a, <1>b, <2>1, HeldGrows DEF WriteManifest, AllHeld, installation, RowsIn
  <2> QED BY <1>4, <2>2 DEF WriteManifest, CopiedOnce, MovedOnce, Vacated
<1>5. ASSUME SnapshotFails PROVE AllHeld' /\ Guards'
  <2>1. DbGrows
    BY <1>5, <1>d DEF SnapshotFails, RowsIn
  <2> QED BY <1>5, <1>c, <2>1 DEF SnapshotFails, CopiedOnce, MovedOnce, Vacated, saved
<1>6. ASSUME NEW f \in File, Replace(f) PROVE AllHeld' /\ Guards'
  <2>1. DbGrows
    BY <1>6 DEF Replace, RowsIn
  <2> QED BY <1>6, <1>c, <2>1 DEF Replace, CopiedOnce, MovedOnce, Vacated, saved
<1>7. ASSUME Launch PROVE AllHeld' /\ Guards'
  BY <1>7, <1>c, <1>d DEF Launch, CopiedOnce, MovedOnce, Vacated, saved
<1>8. ASSUME Complete PROVE AllHeld' /\ Guards'
  <2>1. DbGrows
    BY <1>8 DEF Complete, RowsIn, installation
  <2> QED BY <1>8, <1>c, <2>1 DEF Complete, CopiedOnce, MovedOnce, Vacated, saved
<1>9. ASSUME InstallKilled PROVE AllHeld' /\ Guards'
  <2>1. DbGrows
    BY <1>9 DEF InstallKilled, RowsIn, installation
  <2> QED BY <1>9, <1>c, <2>1 DEF InstallKilled, CopiedOnce, MovedOnce, Vacated, saved
<1>10. ASSUME BeginRestore PROVE AllHeld' /\ Guards'
  <2>1. /\ Last(failed') = Missing
        /\ \A n \in 1..Len(failed) : n \in 1..Len(failed') /\ failed'[n] = failed[n]
    BY <1>10, <1>b, FreshType DEF BeginRestore
  <2>2. AllHeld'
    BY <1>10, <1>a, <2>1, HeldGrows DEF BeginRestore, AllHeld, installation, RowsIn
  <2> QED BY <1>10, <2>1, <2>2 DEF BeginRestore, CopiedOnce, MovedOnce, Vacated
<1>11. ASSUME MoveAway PROVE AllHeld' /\ Guards'
  <2>1. /\ next \in 1..Len(Order) /\ pc = "restore" /\ ~moved /\ moved'
        /\ UNCHANGED <<pc, next, backup, archive, accepted>> /\ failed # <<>>
    BY <1>11, <1>a, <1>b DEF MoveAway, Copied, TypeInv, TypeOK, DirectoryMade
  <2>2. CASE Order[next] # Database
    <3>1. UNCHANGED <<db, failed>>
      BY <1>11, <2>2 DEF MoveAway
    <3> QED BY <1>a, <1>b, <1>c, <2>1, <2>2, <3>1
            DEF CopiedOnce, MovedOnce, Vacated, RowsIn
  <2>3. CASE Order[next] = Database
    <3>1. /\ db' = Missing /\ Last(failed) = Missing
          /\ failed' = IF db = Missing THEN failed ELSE [failed EXCEPT ![Len(failed)] = db]
      <4>1. Leaves(Order[next])
        BY <2>1, OrderType DEF Leaves
      <4> QED BY <1>11, <1>a, <1>b, <2>1, <2>3, <4>1 DEF MoveAway, MovedOnce
    <3>2. /\ Len(failed) \in Nat \ {0} /\ Len(failed') = Len(failed)
          /\ \A n \in 1..Len(failed) : n # Len(failed) => failed'[n] = failed[n]
          /\ failed[Len(failed)] = Missing /\ failed'[Len(failed)] = db
      BY <1>b, <2>1, <3>1, LastType
    <3>3. \A e : Held(e) => Held(e)'
      <4>1. \A e : e \in RowsIn(db) => \E n \in 1..Len(failed') : e \in RowsIn(failed'[n])
        BY <3>2
      <4>2. ASSUME NEW e, NEW n \in 1..Len(failed), e \in RowsIn(failed[n])
            PROVE  n \in 1..Len(failed') /\ e \in RowsIn(failed'[n])
        BY <3>2, <4>2, MissingType
      <4> QED BY <2>1, <4>1, <4>2 DEF Held, RowsIn
    <3>4. \A n \in 1..Len(Order) : n > next => Order[n] # Database
      BY <1>b, <2>1, <2>3, OrderType
    <3> QED BY <1>a, <1>b, <2>1, <3>1, <3>3, <3>4
            DEF AllHeld, CopiedOnce, MovedOnce, Vacated
  <2> QED BY <2>2, <2>3
<1>12. ASSUME CopyBack PROVE AllHeld' /\ Guards'
  <2>1. /\ next \in 1..Len(Order) /\ pc = "restore" /\ moved /\ ~moved' /\ next' = next + 1
        /\ UNCHANGED <<pc, backup, failed, archive, accepted>>
    BY <1>12, <1>a, <1>b DEF CopyBack, Copied, TypeInv, TypeOK, saved
  <2>2. DbGrows
    <3>1. CASE Order[next] = Database
      BY <1>a, <1>b, <2>1, <3>1, MissingType DEF Vacated
    <3>2. CASE Order[next] # Database
      BY <1>12, <3>2 DEF CopyBack, RowsIn
    <3> QED BY <3>1, <3>2
  <2> QED BY <1>a, <1>b, <1>c, <2>1, <2>2 DEF CopiedOnce, MovedOnce, Vacated
<1>13. ASSUME PreserveEvidence PROVE AllHeld' /\ Guards'
  <2>1. DbGrows
    <3>1. failed # <<>> /\ Last(failed) \in Rows
      BY <1>13, <1>a, <1>b, LastType DEF PreserveEvidence, TypeInv, DirectoryMade
    <3>2. RowsIn(Preserved) = Preserved
      BY <1>b, <3>1, RowsInType, EvidenceRows DEF Preserved
    <3>3. RowsIn(db) \subseteq RowsIn(Preserved)
      BY <3>2 DEF Preserved
    <3> QED BY <1>13, <3>3 DEF PreserveEvidence, RowsIn
  <2> QED BY <1>13, <1>c, <2>1 DEF PreserveEvidence, CopiedOnce, MovedOnce, Vacated, saved
<1>14. ASSUME StartRestored PROVE AllHeld' /\ Guards'
  BY <1>14, <1>c, <1>d DEF StartRestored, CopiedOnce, MovedOnce, Vacated, saved
<1>15. ASSUME RestoreFails PROVE AllHeld' /\ Guards'
  <2>1. DbGrows
    BY <1>15, <1>d DEF RestoreFails, RowsIn
  <2> QED BY <1>15, <1>c, <2>1 DEF RestoreFails, CopiedOnce, MovedOnce, Vacated, saved
<1>16. ASSUME Reboot PROVE AllHeld' /\ Guards'
  BY <1>16, <1>c, <1>d DEF Reboot, CopiedOnce, MovedOnce, Vacated, saved
<1>17. ASSUME UNCHANGED vars PROVE AllHeld' /\ Guards'
  <2>1. UNCHANGED <<pc, next, moved, db, backup, failed, archive, accepted>>
    BY <1>17 DEF vars, loop, installation, saved
  <2>2. DbGrows
    BY <2>1 DEF RowsIn
  <2> QED BY <1>a, <1>c, <2>1, <2>2 DEF CopiedOnce, MovedOnce, Vacated
<1>18. AllHeld' /\ Guards'
  BY <1>1, <1>2, <1>3, <1>4, <1>5, <1>6, <1>7, <1>8, <1>9, <1>10, <1>11, <1>12,
     <1>13, <1>14, <1>15, <1>16, <1>17 DEF Next
<1> QED BY <1>a, <1>18 DEF KeepInv

\* Whatever an installer run, a failed one, a reboot or a repeated restore does,
\* nothing the server ever accepted leaves the disk.
THEOREM EvidenceKept == Spec => []NothingDestroyed
<1>1. Spec => []KeepInv
  BY KeepInit, KeepStep, PTL DEF Spec
<1>2. KeepInv => NothingDestroyed
  BY HeldDestroyed DEF KeepInv
<1> QED BY <1>1, <1>2, PTL

(***************************************************************************)
(* The restored files.  Restoring is a loop over the targets that another  *)
(* run begins anew: what it has passed is as in the backup, whatever it    *)
(* found there.                                                            *)
(***************************************************************************)

Passed ==
    pc = "restore" =>
      \A n \in 1..Len(Order) : Order[n] # Database =>
        /\ n < next => live[Order[n]] = backup.files[Order[n]]
        /\ n = next /\ moved => live[Order[n]] = 0

AsSaved == pc \in {"start", "restored"} => live = backup.files

LEMMA FilesStep == TypeInv /\ Passed /\ AsSaved /\ [Next]_vars => Passed' /\ AsSaved'
<1> SUFFICES ASSUME TypeInv, Passed, AsSaved, [Next]_vars PROVE Passed' /\ AsSaved'
  OBVIOUS
<1>t. /\ next \in 1..(Len(Order) + 1) /\ Len(Order) \in Nat
      /\ live \in [File -> 0..MaxAttempts] /\ backup.files \in [File -> 0..MaxAttempts]
  BY OrderType DEF TypeInv, TypeOK, Backup
\* The steps outside of the loop either leave the files and the place alone or
\* go to a place where nothing is said about the files.
<1>1. CASE UNCHANGED <<pc, next, moved, live, backup>>
  BY <1>1 DEF Passed, AsSaved
<1>2. CASE pc' \notin {"restore", "start", "restored"}
  BY <1>2 DEF Passed, AsSaved
<1>3. CASE BeginRestore
  BY <1>3, <1>t DEF BeginRestore, Passed, AsSaved
<1>4. CASE MoveAway
  <2>1. /\ next \in 1..Len(Order) /\ pc = "restore" /\ moved'
        /\ UNCHANGED <<pc, next, backup>>
    BY <1>4, <1>t DEF MoveAway, Copied
  <2>2. CASE Order[next] = Database
    <3>1. live' = live
      BY <1>4, <2>1, <2>2 DEF MoveAway
    <3> QED BY <1>t, <2>1, <2>2, <3>1 DEF Passed, AsSaved
  <2>3. CASE Order[next] # Database
    <3>1. Order[next] \in File /\ Leaves(Order[next])
      BY <2>1, <2>3, OrderType DEF File, Leaves
    <3>2. live' = [live EXCEPT ![Order[next]] = 0]
      BY <1>4, <2>3, <3>1 DEF MoveAway
    <3>3. \A n \in 1..Len(Order) : Order[n] # Database =>
            live'[Order[n]] = IF n = next THEN 0 ELSE live[Order[n]]
      <4>1. ASSUME NEW n \in 1..Len(Order), Order[n] # Database
            PROVE  Order[n] \in File /\ (Order[n] = Order[next] <=> n = next)
        BY <2>1, <4>1, OrderType DEF File
      <4> QED BY <1>t, <3>2, <4>1
    <3> QED BY <1>t, <2>1, <3>3 DEF Passed, AsSaved
  <2> QED BY <2>2, <2>3
<1>5. CASE CopyBack
  <2>1. /\ next \in 1..Len(Order) /\ pc = "restore" /\ moved /\ ~moved' /\ next' = next + 1
        /\ UNCHANGED <<pc, backup>>
    BY <1>5, <1>t DEF CopyBack, Copied, saved
  <2>2. CASE Order[next] = Database
    <3>1. live' = live
      BY <1>5, <2>1, <2>2 DEF CopyBack
    <3> QED BY <1>t, <2>1, <2>2, <3>1 DEF Passed, AsSaved
  <2>3. CASE Order[next] # Database
    <3>1. Order[next] \in File /\ live[Order[next]] = 0
      BY <2>1, <2>3, OrderType DEF File, Passed
    <3>2. live' = IF backup.files[Order[next]] = 0 THEN live
                  ELSE [live EXCEPT ![Order[next]] = backup.files[Order[next]]]
      BY <1>5, <2>3 DEF CopyBack
    <3>3. \A n \in 1..Len(Order) : Order[n] # Database =>
            live'[Order[n]] = IF n = next THEN backup.files[Order[n]] ELSE live[Order[n]]
      <4>1. ASSUME NEW n \in 1..Len(Order), Order[n] # Database
            PROVE  Order[n] \in File /\ (Order[n] = Order[next] <=> n = next)
        BY <2>1, <4>1, OrderType DEF File
      <4> QED BY <1>t, <3>1, <3>2, <4>1
    <3> QED BY <1>t, <2>1, <3>3 DEF Passed, AsSaved
  <2> QED BY <2>2, <2>3
<1>6. CASE PreserveEvidence
  <2>1. pc = "restore" /\ next > Len(Order) /\ pc' = "start" /\ UNCHANGED <<live, backup>>
    BY <1>6 DEF PreserveEvidence, Copied, saved
  <2>2. ASSUME NEW f \in File PROVE live[f] = backup.files[f]
    <3>1. PICK n \in 1..Len(Order) : Order[n] = f /\ Order[n] # Database
      BY OrderType DEF File, Target, ToSet
    <3> QED BY <1>t, <2>1, <3>1 DEF Passed
  <2>3. live = backup.files
    BY <1>t, <2>2
  <2> QED BY <2>1, <2>3 DEF Passed, AsSaved
<1>7. CASE StartRestored
  BY <1>7 DEF StartRestored, saved, Passed, AsSaved
<1> QED
  BY <1>1, <1>2, <1>3, <1>4, <1>5, <1>6, <1>7
  DEF Next, vars, loop, installation, saved, Accept, BeginSnapshot, CopyTarget, WriteManifest,
      SnapshotFails, Replace, Launch, Complete, InstallKilled, RestoreFails, Reboot

\* A restore that finishes leaves the files of the snapshot and no other, however
\* many restores stopped half way before it and whatever ran in between.
THEOREM FilesRestored == Spec => []RestoredExactly
<1>1. Init => Passed /\ AsSaved
  BY DEF Init, Passed, AsSaved
<1>2. Spec => [](TypeInv /\ Passed /\ AsSaved)
  BY <1>1, TypeInit, TypeStep, FilesStep, PTL DEF Spec
<1>3. AsSaved => RestoredExactly
  BY DEF AsSaved, RestoredExactly
<1> QED BY <1>2, <1>3, PTL

(***************************************************************************)
(* The merged evidence.  For a backup whose restore was never interrupted, *)
(* what the server accepted since is in the database and the directory of  *)
(* the present run, at every step of the restore.                          *)
(***************************************************************************)

Later == accepted \ backup.known
Whole == backup.manifest /\ backup.db # Missing /\ ~interrupted

\* The services are stopped while a snapshot is made.
SnapshotKnows == pc = "snapshot" => Later = {}

LaterHeld ==
    Whole /\ pc # "snapshot" =>
      \A e \in Later : e \in RowsIn(db) \/ (pc = "restore" /\ e \in RowsIn(Last(failed)))

\* The snapshot's rows come back when the loop has passed the database, and stay.
BackupBack ==
    Whole =>
      /\ pc = "restore" =>
           \A n \in 1..Len(Order) : n < next /\ Order[n] = Database => db = backup.db
      /\ pc \in {"start", "restored"} => RowsIn(backup.db) \subseteq RowsIn(db)

MergeInv == SnapshotKnows /\ LaterHeld /\ BackupBack

\* Only a backup that is complete is restored.
Manifested == pc \in {"restore", "start", "restored"} => backup.manifest

LEMMA ManifestedStep == Manifested /\ [Next]_vars => Manifested'
BY DEF Manifested, Next, vars, saved, Accept, BeginSnapshot, CopyTarget, WriteManifest,
       SnapshotFails, Replace, Launch, Complete, InstallKilled, BeginRestore, MoveAway,
       CopyBack, PreserveEvidence, StartRestored, RestoreFails, Reboot

LEMMA MergeStep == KeepInv /\ MergeInv /\ [Next]_vars => MergeInv'
<1> SUFFICES ASSUME KeepInv, MergeInv, [Next]_vars PROVE MergeInv'
  OBVIOUS
<1> DEFINE DbGrows == RowsIn(db) \subseteq RowsIn(db)'
<1>t. /\ next \in 1..(Len(Order) + 1) /\ Len(Order) \in Nat
      /\ db \in Rows /\ backup \in Backup /\ backup.db \in Rows /\ failed \in Seq(Rows)
  BY OrderType DEF KeepInv, TypeInv, TypeOK, Backup
<1>m. SnapshotKnows /\ LaterHeld /\ BackupBack
  BY DEF MergeInv
\* Outside of the loop the database only grows.
<1>a. ASSUME DbGrows, UNCHANGED <<backup, failed, accepted>>,
             interrupted' = FALSE => interrupted = FALSE,
             pc = "restore" => pc' # "restore" /\ ~Whole',
             pc' = "restore" => ~Whole', pc' = "snapshot" => pc = "snapshot",
             pc = "snapshot" => pc' = "snapshot" \/ ~Whole',
             pc' \in {"start", "restored"} => pc \in {"start", "restored"}
      PROVE  MergeInv'
  BY <1>a, <1>m DEF MergeInv, SnapshotKnows, LaterHeld, BackupBack, Later, Whole
<1>b. ASSUME StartServer PROVE DbGrows
  BY <1>b, StartServerType DEF KeepInv, TypeInv
<1>1. ASSUME NEW e \in Evidence, Accept(e) PROVE MergeInv'
  <2>1. pc \notin {"snapshot", "restore", "start"} /\ pc' = pc /\ db \in SUBSET Evidence
    BY <1>1, <1>t DEF Accept, KeepInv, TypeInv, TypeOK, Quiet, Rows
  <2>2. DbGrows /\ e \in RowsIn(db)'
    <3>1. RowsIn(db \cup {e}) = db \cup {e} /\ RowsIn(db) = db
      BY <2>1, EvidenceRows
    <3> QED BY <1>1, <3>1 DEF Accept, RowsIn, Missing
  <2>3. \A f \in Later' : f \in Later \/ f = e
    BY <1>1 DEF Accept, Later, saved
  <2> QED BY <1>1, <1>m, <2>1, <2>2, <2>3
          DEF Accept, saved, MergeInv, SnapshotKnows, LaterHeld, BackupBack, Whole
<1>2. CASE BeginSnapshot
  BY <1>2 DEF BeginSnapshot, MergeInv, SnapshotKnows, LaterHeld, BackupBack, Later, Whole
<1>3. CASE CopyTarget
  <2>1. backup'.known = backup.known /\ pc = "snapshot" /\ pc' = "snapshot"
    BY <1>3, <1>t DEF CopyTarget, Backup
  <2> QED BY <1>3, <1>m, <2>1
          DEF CopyTarget, MergeInv, SnapshotKnows, LaterHeld, BackupBack, Later
<1>4. CASE WriteManifest
  <2>1. backup'.known = backup.known /\ pc = "snapshot" /\ pc' = "install"
    BY <1>4, <1>t DEF WriteManifest, Backup
  <2> QED BY <1>4, <1>m, <2>1
          DEF WriteManifest, MergeInv, SnapshotKnows, LaterHeld, BackupBack, Later
<1>5. CASE SnapshotFails
  <2>1. DbGrows
    BY <1>5, <1>b DEF SnapshotFails, RowsIn
  <2>2. pc = "snapshot" /\ pc' = "idle" /\ Later' = Later
    BY <1>5 DEF SnapshotFails, Later, saved
  <2> QED BY <1>m, <2>1, <2>2 DEF MergeInv, SnapshotKnows, LaterHeld, BackupBack
<1> DEFINE Same == UNCHANGED <<db, backup, failed, accepted, interrupted>>
<1>c. ASSUME Same, UNCHANGED <<pc, next>> PROVE MergeInv'
  BY <1>c, <1>m DEF MergeInv, SnapshotKnows, LaterHeld, BackupBack, Later, Whole
<1>6. ASSUME NEW f \in File, Replace(f) PROVE MergeInv'
  BY <1>6, <1>c DEF Replace, saved, loop
<1>15. CASE Complete \/ InstallKilled
  <2>1. Same /\ pc = "install" /\ pc' \in {"idle", "killed"}
    BY <1>15 DEF Complete, InstallKilled, saved, installation
  <2> QED BY <1>m, <2>1 DEF MergeInv, SnapshotKnows, LaterHeld, BackupBack, Later, Whole
<1>16. CASE UNCHANGED vars
  BY <1>16, <1>c DEF vars, saved, installation, loop
<1>7. CASE Launch
  BY <1>7, <1>a, <1>b DEF Launch, saved
<1>8. CASE Reboot
  BY <1>8, <1>a, <1>b DEF Reboot, saved
<1>9. CASE BeginRestore
  <2>1. /\ pc \in {"install", "idle", "restored", "killed", "stuck"} /\ pc' = "restore"
        /\ next' = 1 /\ UNCHANGED <<db, backup, accepted, interrupted>>
    BY <1>9 DEF BeginRestore, installation
  <2> QED BY <1>m, <2>1 DEF MergeInv, SnapshotKnows, LaterHeld, BackupBack, Later, Whole
<1>10. CASE MoveAway
  <2>1. /\ next \in 1..Len(Order) /\ pc = "restore" /\ ~moved
        /\ UNCHANGED <<pc, next, backup, accepted, interrupted>> /\ failed # <<>>
    BY <1>10, <1>t DEF MoveAway, Copied, KeepInv, TypeInv, DirectoryMade
  <2>2. CASE Order[next] # Database
    <3>1. UNCHANGED <<db, failed>>
      BY <1>10, <2>2 DEF MoveAway
    <3> QED BY <1>m, <2>1, <3>1
            DEF MergeInv, SnapshotKnows, LaterHeld, BackupBack, Later, Whole
  <2>3. CASE Order[next] = Database
    <3>1. /\ db' = Missing /\ Last(failed) = Missing
          /\ failed' = IF db = Missing THEN failed ELSE [failed EXCEPT ![Len(failed)] = db]
      <4>1. Leaves(Order[next])
        BY <2>1, OrderType DEF Leaves
      <4> QED BY <1>10, <1>t, <2>1, <2>3, <4>1 DEF MoveAway, KeepInv, MovedOnce
    <3>2. Last(failed') = db
      BY <1>t, <2>1, <3>1, LastType
    <3>3. LaterHeld'
      BY <1>m, <2>1, <3>1, <3>2, MissingType DEF LaterHeld, Later, Whole
    <3>4. \A n \in 1..Len(Order) : n < next => Order[n] # Database
      BY <1>t, <2>1, <2>3, OrderType
    <3> QED BY <2>1, <3>3, <3>4 DEF MergeInv, SnapshotKnows, BackupBack
  <2> QED BY <2>2, <2>3
<1>11. CASE CopyBack
  <2>1. /\ next \in 1..Len(Order) /\ pc = "restore" /\ moved /\ next' = next + 1
        /\ UNCHANGED <<pc, backup, failed, accepted, interrupted>>
    BY <1>11, <1>t DEF CopyBack, Copied, saved
  <2>2. CASE Order[next] = Database
    <3>1. db = Missing /\ (Whole => db' = backup.db)
      BY <1>11, <1>t, <2>1, <2>2 DEF CopyBack, Whole, KeepInv, Vacated
    <3>2. LaterHeld'
      BY <1>m, <2>1, <3>1, MissingType DEF LaterHeld, Later, Whole
    <3> QED BY <2>1, <3>1, <3>2 DEF MergeInv, SnapshotKnows, BackupBack, Whole
  <2>3. CASE Order[next] # Database
    <3>1. db' = db
      BY <1>11, <2>3 DEF CopyBack
    <3>2. BackupBack'
      BY <1>m, <1>t, <2>1, <2>3, <3>1 DEF BackupBack, Whole
    <3> QED BY <1>m, <2>1, <3>1, <3>2
            DEF MergeInv, SnapshotKnows, LaterHeld, Later, Whole
  <2> QED BY <2>2, <2>3
<1>12. CASE PreserveEvidence
  <2>1. /\ pc = "restore" /\ next > Len(Order) /\ pc' = "start"
        /\ UNCHANGED <<backup, accepted, interrupted>>
        /\ db' = IF db # Missing /\ Last(failed) # Missing THEN Preserved ELSE db
    BY <1>12 DEF PreserveEvidence, Copied, saved
  <2>2. Whole => db = backup.db /\ db # Missing
    <3>1. PICK n \in 1..Len(Order) : Order[n] = Database
      BY RollbackAssumption, OrderType DEF Target, ToSet
    <3> QED BY <1>m, <1>t, <2>1, <3>1 DEF BackupBack, Whole
  <2>3. failed # <<>> /\ Last(failed) \in Rows
    BY <1>t, <2>1, LastType DEF KeepInv, TypeInv, DirectoryMade
  <2>4. RowsIn(Preserved) = Preserved
    BY <1>t, <2>3, RowsInType, EvidenceRows DEF Preserved
  <2>5. Whole => /\ DbGrows
                 /\ \A e \in RowsIn(Last(failed)) : e \in RowsIn(db)'
    BY <2>1, <2>2, <2>4, MissingType DEF Preserved, RowsIn
  <2>6. LaterHeld' /\ BackupBack'
    BY <1>m, <2>1, <2>2, <2>5 DEF LaterHeld, BackupBack, Later, Whole
  <2> QED BY <2>1, <2>6 DEF MergeInv, SnapshotKnows
<1>13. CASE StartRestored
  BY <1>13, <1>a, <1>b DEF StartRestored, saved
<1>14. CASE RestoreFails
  BY <1>14 DEF RestoreFails, MergeInv, SnapshotKnows, LaterHeld, BackupBack, Whole
<1> QED BY <1>1, <1>2, <1>3, <1>4, <1>5, <1>6, <1>7, <1>8, <1>9, <1>10, <1>11, <1>12,
           <1>13, <1>14, <1>15, <1>16 DEF Next

\* A restore that finishes at its first run has, in the restored database, all that
\* the failed installation had accepted (_preserve_evidence).
THEOREM EvidenceMerged == Spec => []FirstRestoreKeeps
<1>1. Init => MergeInv /\ Manifested
  BY DEF Init, MergeInv, SnapshotKnows, LaterHeld, BackupBack, Whole, Manifested
<1>2. Spec => []KeepInv
  BY KeepInit, KeepStep, PTL DEF Spec
<1>3. Spec => [](MergeInv /\ Manifested)
  BY <1>1, <1>2, MergeStep, ManifestedStep, PTL DEF Spec
<1>4. MergeInv /\ Manifested => FirstRestoreKeeps
  <2> SUFFICES ASSUME MergeInv, Manifested, pc = "restored", backup.db # Missing, ~interrupted
               PROVE  Owed \subseteq db
    BY DEF FirstRestoreKeeps
  <2> QED BY DEF Manifested, MergeInv, LaterHeld, BackupBack, Whole, Later, Owed, RowsIn
<1> QED BY <1>3, <1>4, PTL

(***************************************************************************)
(* What a repeated restore misses.  RepeatedRestoreKeeps does not hold: a  *)
(* run merges the directory it filled itself.  The rows it does miss are   *)
(* all in the directories that earlier runs of the same restore filled.    *)
(***************************************************************************)

Aside == UNION {RowsIn(failed[n]) : n \in 1..(Len(failed) - 1)}

MissesAreAside ==
    (pc = "restored" /\ backup.db # Missing) => Owed \ db \subseteq Aside

\* The rows of earlier backups are known to the present one.
ArchiveKnown == archive \subseteq backup.known

\* The disk holds what the server accepted and nothing else.
NothingInvented == \A e : Held(e) => e \in accepted

\* The loop that has passed the database left the backup's rows there,
Filled ==
    pc = "restore" /\ backup.db # Missing =>
      \A n \in 1..Len(Order) : n < next /\ Order[n] = Database => db = backup.db

\* and the merge added the directory of this run, at the first run and any other.
Merged ==
    pc \in {"start", "restored"} /\ backup.db # Missing =>
      /\ failed # <<>>
      /\ RowsIn(backup.db) \cup RowsIn(Last(failed)) \subseteq RowsIn(db)

AsideInv == ArchiveKnown /\ NothingInvented /\ Filled /\ Merged

LEMMA AsideStep == KeepInv /\ AsideInv /\ [Next]_vars => AsideInv'
<1> SUFFICES ASSUME KeepInv, AsideInv, [Next]_vars PROVE AsideInv'
  OBVIOUS
<1>t. /\ next \in 1..(Len(Order) + 1) /\ Len(Order) \in Nat /\ Len(failed) \in Nat
      /\ db \in Rows /\ backup \in Backup /\ backup.db \in Rows /\ failed \in Seq(Rows)
  BY OrderType DEF KeepInv, TypeInv, TypeOK, Backup
<1>m. ArchiveKnown /\ NothingInvented /\ Filled /\ Merged
  BY DEF AsideInv
<1> DEFINE SameRows == RowsIn(db)' = RowsIn(db)
           SameDisk == SameRows /\ UNCHANGED <<backup, failed, archive, accepted>>
\* Outside of the loop the rows on disk stay the same, or one is accepted.
<1>a. ASSUME SameDisk PROVE ArchiveKnown' /\ NothingInvented'
  <2>1. \A e : Held(e)' => Held(e)
    BY <1>a DEF Held, RowsIn
  <2> QED BY <1>a, <1>m, <2>1 DEF ArchiveKnown, NothingInvented
<1>b. ASSUME SameDisk, pc' # "restore",
             pc' \in {"start", "restored"} => pc \in {"start", "restored"}
      PROVE  AsideInv'
  <2>1. Merged'
    BY <1>b, <1>m DEF Merged
  <2> QED BY <1>a, <1>b, <2>1 DEF AsideInv, Filled
<1>c. ASSUME StartServer PROVE SameRows
  BY <1>c, StartServerType DEF KeepInv, TypeInv
<1>d. ASSUME UNCHANGED db PROVE SameRows
  BY <1>d DEF RowsIn
<1>1. ASSUME NEW e \in Evidence, Accept(e) PROVE AsideInv'
  <2>1. pc \notin {"snapshot", "restore", "start"} /\ pc' = pc /\ db \in SUBSET Evidence
    BY <1>1, <1>t DEF Accept, KeepInv, TypeInv, TypeOK, Quiet, Rows
  <2>2. RowsIn(db)' = RowsIn(db) \cup {e}
    <3>1. RowsIn(db \cup {e}) = db \cup {e} /\ RowsIn(db) = db
      BY <2>1, EvidenceRows
    <3> QED BY <1>1, <3>1 DEF Accept, RowsIn
  <2>3. \A f : Held(f)' => Held(f) \/ f = e
    BY <1>1, <2>2 DEF Accept, saved, Held, RowsIn
  <2>4. ArchiveKnown' /\ NothingInvented'
    BY <1>1, <1>m, <2>3 DEF Accept, saved, ArchiveKnown, NothingInvented
  <2>5. Filled' /\ Merged'
    BY <1>1, <1>m, <2>1, <2>2 DEF Accept, saved, Filled, Merged
  <2> QED BY <2>4, <2>5 DEF AsideInv
<1>2. CASE BeginSnapshot
  <2>1. /\ pc' = "snapshot" /\ failed' = <<>> /\ backup'.db = Missing
        /\ backup'.known = accepted /\ UNCHANGED <<db, accepted>>
        /\ archive' = archive \cup RowsIn(backup.db) \cup UNION {RowsIn(d) : d \in ToSet(failed)}
    BY <1>2 DEF BeginSnapshot, installation
  <2>2. ASSUME NEW e \in archive' PROVE Held(e)
    BY <1>t, <2>1, <2>2, AsideRows DEF Held
  <2>3. \A e : Held(e)' => Held(e)
    <3>1. Len(failed') = 0
      BY <2>1
    <3> QED BY <2>1, <2>2, <3>1, MissingType DEF Held, RowsIn
  <2>4. ArchiveKnown' /\ NothingInvented'
    BY <1>m, <2>1, <2>2, <2>3 DEF ArchiveKnown, NothingInvented
  <2> QED BY <2>1, <2>4 DEF AsideInv, Filled, Merged
<1>3. CASE CopyTarget
  <2>1. /\ pc' = "snapshot" /\ backup'.known = backup.known /\ backup'.db \in {db, backup.db}
        /\ UNCHANGED <<db, failed, archive, accepted>>
    BY <1>3, <1>t DEF CopyTarget, Backup, installation
  <2>2. \A e : Held(e)' => Held(e)
    BY <2>1 DEF Held, RowsIn
  <2> QED BY <1>m, <2>1, <2>2 DEF AsideInv, ArchiveKnown, NothingInvented, Filled, Merged
<1>4. CASE WriteManifest
  <2>1. /\ pc' = "install" /\ backup'.known = backup.known /\ backup'.db = backup.db
        /\ UNCHANGED <<db, failed, archive, accepted>>
    BY <1>4, <1>t DEF WriteManifest, Backup, installation
  <2>2. \A e : Held(e)' => Held(e)
    BY <2>1 DEF Held, RowsIn
  <2> QED BY <1>m, <2>1, <2>2 DEF AsideInv, ArchiveKnown, NothingInvented, Filled, Merged
<1>5. CASE SnapshotFails
  BY <1>5, <1>b, <1>c, <1>d DEF SnapshotFails, saved
<1>6. ASSUME NEW f \in File, Replace(f) PROVE AsideInv'
  BY <1>6, <1>b, <1>d DEF Replace, saved
<1>7. CASE Launch
  BY <1>7, <1>b, <1>c DEF Launch, saved
<1>8. CASE Reboot
  BY <1>8, <1>b, <1>c DEF Reboot, saved
<1>9. CASE BeginRestore
  <2>1. /\ pc' = "restore" /\ next' = 1
        /\ UNCHANGED <<db, backup, archive, accepted>>
        /\ Len(failed') = Len(failed) + 1 /\ failed'[Len(failed')] = Missing
        /\ \A n \in 1..Len(failed) : failed'[n] = failed[n]
    BY <1>9, <1>t, FreshType, LastType DEF BeginRestore, installation
  <2>2. \A e : Held(e)' => Held(e)
    <3>1. \A n \in 1..Len(failed') : n \in 1..Len(failed) \/ RowsIn(failed'[n]) = {}
      BY <1>t, <2>1, MissingType
    <3> QED BY <2>1, <3>1 DEF Held, RowsIn
  <2> QED BY <1>m, <1>t, <2>1, <2>2 DEF AsideInv, ArchiveKnown, NothingInvented, Filled, Merged
<1>10. CASE MoveAway
  <2>1. /\ next \in 1..Len(Order) /\ pc = "restore" /\ ~moved
        /\ UNCHANGED <<pc, next, backup, archive, accepted>> /\ failed # <<>>
    BY <1>10, <1>t DEF MoveAway, Copied, KeepInv, TypeInv, DirectoryMade
  <2>2. CASE Order[next] # Database
    <3>1. UNCHANGED <<db, failed>>
      BY <1>10, <2>2 DEF MoveAway
    <3> QED BY <1>a, <1>d, <1>m, <2>1, <3>1 DEF AsideInv, Filled, Merged
  <2>3. CASE Order[next] = Database
    <3>1. /\ db' = Missing
          /\ failed' = IF db = Missing THEN failed ELSE [failed EXCEPT ![Len(failed)] = db]
      <4>1. Leaves(Order[next])
        BY <2>1, OrderType DEF Leaves
      <4> QED BY <1>10, <1>t, <2>1, <2>3, <4>1 DEF MoveAway
    <3>2. /\ Len(failed') = Len(failed)
          /\ \A n \in 1..Len(failed) : failed'[n] \in {db, failed[n]}
      BY <1>t, <2>1, <3>1, LastType
    <3>3. \A e : Held(e)' => Held(e)
      BY <2>1, <3>1, <3>2, MissingType DEF Held, RowsIn
    <3>4. \A n \in 1..Len(Order) : n < next => Order[n] # Database
      BY <1>t, <2>1, <2>3, OrderType
    <3> QED BY <1>m, <2>1, <3>3, <3>4
            DEF AsideInv, ArchiveKnown, NothingInvented, Filled, Merged
  <2> QED BY <2>2, <2>3
<1>11. CASE CopyBack
  <2>1. /\ next \in 1..Len(Order) /\ pc = "restore" /\ moved /\ next' = next + 1
        /\ UNCHANGED <<pc, backup, failed, archive, accepted>>
    BY <1>11, <1>t DEF CopyBack, Copied, saved
  <2>2. CASE Order[next] = Database
    <3>1. db = Missing /\ db' = backup.db
      BY <1>11, <1>t, <2>1, <2>2 DEF CopyBack, KeepInv, Vacated
    <3>2. \A e : Held(e)' => Held(e)
      BY <2>1, <3>1 DEF Held, RowsIn
    <3> QED BY <1>m, <2>1, <3>1, <3>2
            DEF AsideInv, ArchiveKnown, NothingInvented, Filled, Merged
  <2>3. CASE Order[next] # Database
    <3>1. db' = db
      BY <1>11, <2>3 DEF CopyBack
    <3>2. Filled'
      BY <1>m, <1>t, <2>1, <2>3, <3>1 DEF Filled
    <3> QED BY <1>a, <1>d, <2>1, <3>1, <3>2 DEF AsideInv, Merged
  <2> QED BY <2>2, <2>3
<1>12. CASE PreserveEvidence
  <2>1. /\ pc = "restore" /\ next > Len(Order) /\ pc' = "start"
        /\ UNCHANGED <<backup, failed, archive, accepted>>
        /\ db' = IF db # Missing /\ Last(failed) # Missing THEN Preserved ELSE db
    BY <1>12 DEF PreserveEvidence, Copied, saved
  <2>2. failed # <<>> /\ Last(failed) = failed[Len(failed)] /\ Last(failed) \in Rows
        /\ Len(failed) \in 1..Len(failed)
    BY <1>t, <2>1, LastType DEF KeepInv, TypeInv, DirectoryMade
  <2>3. RowsIn(Preserved) = RowsIn(db) \cup RowsIn(Last(failed))
    BY <1>t, <2>2, RowsInType, EvidenceRows DEF Preserved
  <2>4. RowsIn(db)' \subseteq RowsIn(db) \cup RowsIn(Last(failed))
    BY <2>1, <2>3 DEF RowsIn
  <2>5. \A e : Held(e)' => Held(e)
    BY <2>1, <2>2, <2>4 DEF Held, RowsIn
  <2>6. backup.db # Missing => db = backup.db
    <3>1. PICK n \in 1..Len(Order) : Order[n] = Database
      BY RollbackAssumption, OrderType DEF Target, ToSet
    <3> QED BY <1>m, <1>t, <2>1, <3>1 DEF Filled
  <2>7. backup.db # Missing => RowsIn(db) \cup RowsIn(Last(failed)) \subseteq RowsIn(db)'
    BY <2>1, <2>3, <2>6, MissingType DEF RowsIn
  <2>8. Merged'
    BY <2>1, <2>2, <2>6, <2>7 DEF Merged
  <2> QED BY <1>m, <2>1, <2>5, <2>8 DEF AsideInv, ArchiveKnown, NothingInvented, Filled
<1>13. CASE StartRestored
  BY <1>13, <1>b, <1>c DEF StartRestored, saved
<1>14. CASE RestoreFails
  BY <1>14, <1>b, <1>c, <1>d DEF RestoreFails, saved
<1>15. CASE Complete \/ InstallKilled
  BY <1>15, <1>b, <1>d DEF Complete, InstallKilled, saved, installation
<1>16. CASE UNCHANGED vars
  <2>1. UNCHANGED <<pc, next, moved, db, backup, failed, archive, accepted>>
    BY <1>16 DEF vars, loop, installation, saved
  <2> QED BY <1>a, <1>d, <1>m, <2>1 DEF AsideInv, Filled, Merged
<1> QED BY <1>1, <1>2, <1>3, <1>4, <1>5, <1>6, <1>7, <1>8, <1>9, <1>10, <1>11, <1>12,
           <1>13, <1>14, <1>15, <1>16 DEF Next

\* However often a restore is run again, what the server accepted since the
\* snapshot and the restored database lacks is in the failed-state directory of an
\* earlier run of that restore: _preserve_evidence misses no other row.
THEOREM RepeatedRestoreMisses == Spec => []MissesAreAside
<1>1. Init => AsideInv
  <2>1. Init => ArchiveKnown /\ Filled /\ Merged
    BY DEF Init, ArchiveKnown, Filled, Merged
  <2>2. Init => NothingInvented
    BY MissingType DEF Init, NothingInvented, Held
  <2> QED BY <2>1, <2>2 DEF AsideInv
<1>2. Spec => []KeepInv
  BY KeepInit, KeepStep, PTL DEF Spec
<1>3. Spec => []AsideInv
  BY <1>1, <1>2, AsideStep, PTL DEF Spec
<1>4. KeepInv /\ AsideInv => MissesAreAside
  <2> SUFFICES ASSUME KeepInv, AsideInv, pc = "restored", backup.db # Missing,
                      NEW e \in Owed, e \notin db
               PROVE  e \in Aside
    BY DEF MissesAreAside
  <2>1. failed \in Seq(Rows) /\ failed # <<>>
    BY DEF KeepInv, TypeInv, TypeOK, AsideInv, Merged
  <2>2. e \notin RowsIn(db) /\ e \notin RowsIn(backup.db) /\ e \notin RowsIn(Last(failed))
    BY DEF AsideInv, Merged, RowsIn
  <2>3. e \in accepted \ backup.known
    BY <2>2 DEF Owed
  <2>4. PICK n \in 1..Len(failed) : e \in RowsIn(failed[n])
    BY <2>2, <2>3 DEF KeepInv, AllHeld, Held, AsideInv, ArchiveKnown
  <2>5. n \in 1..(Len(failed) - 1)
    BY <2>1, <2>2, <2>4, LastType
  <2> QED BY <2>4, <2>5 DEF Aside
<1> QED BY <1>2, <1>3, <1>4, PTL

=============================================================================
