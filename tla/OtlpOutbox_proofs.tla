-------------------------- MODULE OtlpOutbox_proofs --------------------------
(***************************************************************************)
(* Proofs about OtlpOutbox for every set of devices, assets and exporters, *)
(* every capacity and batch limit, and every assignment of payload sizes.  *)
(***************************************************************************)
EXTENDS OtlpOutbox, DataInduction

(* There are finitely many event ids, so every set of rows can be counted. *)
LEMMA IdFinite == IsFiniteSet(Id)
<1> DEFINE pairs == Key \X Scan
           id == [p \in pairs |-> [key |-> p[1], at |-> p[2]]]
<1>1. IsFiniteSet(Key) /\ IsFiniteSet(Scan)
  <2>1. IsFiniteSet(Device) /\ IsFiniteSet(Asset) /\ MaxScans \in Nat
    BY OutboxAssumption
  <2>2. IsFiniteSet(Key)
    BY <2>1, FS_Union DEF Key
  <2>3. IsFiniteSet(Scan)
    BY <2>1, FS_Interval DEF Scan
  <2> QED BY <2>2, <2>3
<1>2. IsFiniteSet(pairs)
  BY <1>1, FS_Product
<1>3. id \in Surjection(pairs, Id)
  <2>1. id \in [pairs -> Id]
    BY DEF Id
  <2>2. ASSUME NEW i \in Id PROVE \E p \in pairs : id[p] = i
    <3>1. <<i.key, i.at>> \in pairs /\ id[<<i.key, i.at>>] = i
      BY DEF Id
    <3> QED BY <3>1
  <2> QED BY <2>1, <2>2, Zenon DEF Surjection
<1> QED BY <1>2, <1>3, FS_Surjection

LEMMA RowsCounted ==
  ASSUME NEW D \in SUBSET Id
  PROVE  Cardinality(D) \in Nat
BY IdFinite, FS_Subset, FS_CardinalityType

LEMMA NoneFresh ==
  None \notin Key /\ None \notin Asset /\ None \notin Device /\ None \notin Exporter
BY OutboxAssumption DEF Key

(***************************************************************************)
(* Type correctness.                                                       *)
(***************************************************************************)

(* Deleting rows as _drop_outbox_row does keeps the three tables well typed. *)
LEMMA DropRowsType ==
  ASSUME TypeOK, NEW D \in SUBSET Id, DropRows(D)
  PROVE  /\ outbox' \in [Id -> Row]
         /\ asset_state' \in [Key -> State]
         /\ totals' \in [dropped : Nat, delivered : Nat, failed : Nat]
         /\ \A i \in Id : (outbox'[i].status = "sending") <=> (outbox'[i].lease # None)
<1>1. Cardinality(D) \in Nat
  BY RowsCounted
<1>2. totals' \in [dropped : Nat, delivered : Nat, failed : Nat]
  BY <1>1 DEF DropRows, TypeOK
<1>3. asset_state' \in [Key -> State]
  BY DEF DropRows, TypeOK, Forget, State, NoState
<1>4. outbox' \in [Id -> Row]
  BY DEF DropRows, TypeOK, Row, Status, Dropped, Blank
<1>5. \A i \in Id : (outbox'[i].status = "sending") <=> (outbox'[i].lease # None)
  BY DEF DropRows, TypeOK, Row, Dropped, Blank
<1> QED BY <1>2, <1>3, <1>4, <1>5

(* Changing some rows to well-typed rows keeps the table well typed. *)
LEMMA RowsType ==
  /\ \A r \in Row : \A x \in Exporter :
       /\ Leased(r, x) \in Row /\ Leased(r, x).status = "sending"
       /\ Leased(r, x).lease = x
  /\ \A r \in Row : \A due \in BOOLEAN :
       /\ Waiting(r, due) \in Row /\ Waiting(r, due).status = "retry"
       /\ Waiting(r, due).lease = None
  /\ \A r \in Row : \A st \in Status :
       /\ Closed(r, st) \in Row /\ Closed(r, st).status = st
       /\ Closed(r, st).lease = None
  /\ \A r \in Row : /\ Deleted(r) \in Row /\ Deleted(r).lease = None
                    /\ Deleted(r).status \in {"purged", "discarded"}
  /\ Dropped \in Row /\ Dropped.status = "dropped" /\ Dropped.lease = None
BY DEF Row, Status, Leased, Waiting, Closed, Deleted, Dropped, Blank

(* Only an open transaction has keys to project, each of them a key of an
   asset it has read. *)
TransactionOK ==
  /\ (todo # {} \/ cur # None) => writer # None
  /\ writer # None => scans > 0
  /\ \A a \in Asset : (a \in todo \/ a = cur) => seen[a] # None

LEMMA TypeInit == Init => TypeOK /\ TransactionOK
<1> SUFFICES ASSUME Init PROVE TypeOK /\ TransactionOK
  OBVIOUS
<1>1. MaxScans \in Nat /\ MaxCutoff \in 1..(MaxScans + 1)
  BY OutboxAssumption
<1> QED
  BY <1>1, OutboxAssumption
     DEF Init, TypeOK, TransactionOK, Row, Blank, State, NoState, NothingSeen, Status, Key

LEMMA TypeIngest ==
  ASSUME TypeOK, TransactionOK, Ingest
  PROVE  TypeOK' /\ TransactionOK'
<1> USE DEF workers
<1>1. ASSUME NEW d \in Device, NEW f \in Reconciled(d), BeginIngest(d, f)
      PROVE  TypeOK' /\ TransactionOK'
  <2> DEFINE D == {i \in Queued : i.at < cutoff}
  <2>1. D \in SUBSET Id
    BY DEF Queued, InStatus
  <2>2. DropRows(D)
    BY <1>1 DEF BeginIngest
  <2>3. scans' \in 0..MaxScans
    BY <1>1, OutboxAssumption DEF BeginIngest, TypeOK
  <2>4. /\ seen' \in [Asset -> Hash \cup {None}]
        /\ todo' \in SUBSET Key /\ writer' \in Device \cup {None}
    BY <1>1 DEF BeginIngest, Reconciled, Assets, Key
  <2> HIDE DEF D
  <2>5. TypeOK'
    BY <1>1, <2>1, <2>2, <2>3, <2>4, DropRowsType DEF BeginIngest, TypeOK
  <2>6. TransactionOK'
    BY <1>1, OutboxAssumption DEF BeginIngest, TransactionOK, TypeOK, Assets, Key
  <2> QED BY <2>5, <2>6
<1>2. ASSUME NEW k \in Key, SkipUnchanged(k) \/ DropOversize(k)
      PROVE  TypeOK' /\ TransactionOK'
  BY <1>2 DEF SkipUnchanged, DropOversize, NextKey, TypeOK, TransactionOK, tables
<1>3. ASSUME NEW k \in Key, Supersede(k)
      PROVE  TypeOK' /\ TransactionOK'
  <2> DEFINE D == {i \in Queued : i.key = k}
  <2>1. D \in SUBSET Id
    BY DEF Queued, InStatus
  <2>2. DropRows(D)
    BY <1>3 DEF Supersede
  <2> HIDE DEF D
  <2> QED BY <1>3, <2>1, <2>2, DropRowsType DEF Supersede, NextKey, TypeOK, TransactionOK
<1>4. ASSUME NEW i \in Id, Evict(i)
      PROVE  TypeOK' /\ TransactionOK'
  <2>1. {i} \in SUBSET Id /\ DropRows({i})
    BY <1>4 DEF Evict
  <2> QED BY <1>4, <2>1, DropRowsType DEF Evict, TypeOK, TransactionOK, server
<1>5. ASSUME RejectNew \/ Commit
      PROVE  TypeOK' /\ TransactionOK'
  BY <1>5, NoneFresh DEF RejectNew, Commit, TypeOK, TransactionOK, tables, NothingSeen
<1>6. ASSUME Enqueue
      PROVE  TypeOK' /\ TransactionOK'
  <2> DEFINE new == [key |-> cur, at |-> scans]
  <2>1. cur \in Key /\ scans \in Scan
    BY <1>6, OutboxAssumption DEF Enqueue, TypeOK, TransactionOK, Scan
  <2>2. HashOf(cur) \in Payload
    BY <2>1 DEF HashOf, Key, Payload, TypeOK, TransactionOK
  <2>3. /\ outbox' \in [Id -> Row]
        /\ \A i \in Id : (outbox'[i].status = "sending") <=> (outbox'[i].lease # None)
    BY <1>6, <2>1, <2>2 DEF Enqueue, TypeOK, Row, Status
  <2>4. asset_state' \in [Key -> State]
    BY <1>6, <2>1, <2>2 DEF Enqueue, TypeOK, State
  <2> QED BY <1>6, <2>3, <2>4, NoneFresh DEF Enqueue, TypeOK, TransactionOK
<1> QED
  BY <1>1, <1>2, <1>3, <1>4, <1>5, <1>6 DEF Ingest, Project

LEMMA TypeTime ==
  ASSUME TypeOK, TransactionOK, Time
  PROVE  TypeOK' /\ TransactionOK'
<1>1. ASSUME NEW i \in Id, LeaseExpires(i) \/ BecomesDue(i)
      PROVE  TypeOK' /\ TransactionOK'
  <2>1. PICK row \in Row : /\ row.status = outbox[i].status
                          /\ row.lease = outbox[i].lease
                          /\ outbox' = [outbox EXCEPT ![i] = row]
    <3>1. outbox[i] \in Row
      BY DEF TypeOK
    <3>2. CASE LeaseExpires(i)
      <4> DEFINE row == [outbox[i] EXCEPT !.live = FALSE]
      <4>1. row \in Row /\ row.status = outbox[i].status /\ row.lease = outbox[i].lease
        BY <3>1 DEF Row
      <4>2. outbox' = [outbox EXCEPT ![i] = row]
        BY <3>2 DEF LeaseExpires
      <4> QED BY <4>1, <4>2
    <3>3. CASE BecomesDue(i)
      <4> DEFINE row == [outbox[i] EXCEPT !.due = TRUE]
      <4>1. row \in Row /\ row.status = outbox[i].status /\ row.lease = outbox[i].lease
        BY <3>1 DEF Row
      <4>2. outbox' = [outbox EXCEPT ![i] = row]
        BY <3>3 DEF BecomesDue
      <4> QED BY <4>1, <4>2
    <3> QED BY <1>1, <3>2, <3>3
  <2>2. /\ outbox' \in [Id -> Row]
        /\ \A j \in Id : (outbox'[j].status = "sending") <=> (outbox'[j].lease # None)
    BY <2>1 DEF TypeOK
  <2> QED
    BY <1>1, <2>2
       DEF LeaseExpires, BecomesDue, TypeOK, TransactionOK, server, workers
<1>2. ASSUME AgeOut
      PROVE  TypeOK' /\ TransactionOK'
  BY <1>2, OutboxAssumption DEF AgeOut, TypeOK, TransactionOK, tables, server, workers
<1> QED BY <1>1, <1>2 DEF Time

(* The outcome of a finish transaction is well typed. *)
LEMMA FinishType ==
  ASSUME TypeOK, NEW x \in Exporter, NEW S \in SUBSET Id, NEW due \in BOOLEAN,
         FinishFailed(x, S) \/ FinishDelivered(x, S) \/ FinishRetry(x, S, due)
  PROVE  /\ outbox' \in [Id -> Row]
         /\ asset_state' \in [Key -> State]
         /\ totals' \in [dropped : Nat, delivered : Nat, failed : Nat]
         /\ \A i \in Id : (outbox'[i].status = "sending") <=> (outbox'[i].lease # None)
<1> DEFINE own == {i \in S : Owned(x, i)}
           stale == {i \in own : ~Latest(i)}
<1>1. own \in SUBSET Id /\ stale \in SUBSET Id
  OBVIOUS
<1>2. Cardinality(own) \in Nat /\ Cardinality(stale) \in Nat
  BY <1>1, RowsCounted
<1>3. \A i \in own : outbox[i].status = "sending"
  BY DEF Owned
<1> HIDE DEF own, stale
<1>4. totals' \in [dropped : Nat, delivered : Nat, failed : Nat]
  BY <1>2 DEF FinishFailed, FinishDelivered, FinishRetry, TypeOK, own, stale
<1>5. asset_state' \in [Key -> State]
  BY DEF FinishFailed, FinishDelivered, FinishRetry, TypeOK, Forget, State, NoState
<1>6. /\ outbox' \in [Id -> Row]
      /\ \A i \in Id : (outbox'[i].status = "sending") <=> (outbox'[i].lease # None)
  <2>1. CASE FinishFailed(x, S)
    BY <2>1, RowsType DEF FinishFailed, TypeOK, Status
  <2>2. CASE FinishDelivered(x, S)
    BY <2>2, RowsType DEF FinishDelivered, TypeOK, Status
  <2>3. CASE FinishRetry(x, S, due)
    BY <2>3, RowsType DEF FinishRetry, TypeOK, Status
  <2> QED BY <2>1, <2>2, <2>3
<1> QED BY <1>4, <1>5, <1>6

LEMMA PurgeType ==
  ASSUME TypeOK, NEW P \in SUBSET InStatus({"delivered", "failed"}), Purge(P)
  PROVE  /\ outbox' \in [Id -> Row]
         /\ \A i \in Id : (outbox'[i].status = "sending") <=> (outbox'[i].lease # None)
         /\ UNCHANGED <<asset_state, totals>>
<1>1. \A i \in P : outbox[i].status # "sending"
  BY DEF InStatus
<1> QED BY <1>1, RowsType DEF Purge, TypeOK

LEMMA TypeExporters ==
  ASSUME TypeOK, TransactionOK, Exporters
  PROVE  TypeOK' /\ TransactionOK'
<1> SUFFICES ASSUME NEW x \in Exporter,
                    \/ RunOnce(x)
                    \/ \E got \in SUBSET group[x] :
                         \/ Halt(x, got)
                         \/ \E P \in SUBSET InStatus({"delivered", "failed"}) :
                              Stop(x, got, P)
             PROVE  TypeOK' /\ TransactionOK'
  BY DEF Exporters
<1>1. ASSUME NEW C \in SUBSET Candidates, Claim(x, C)
      PROVE  TypeOK' /\ TransactionOK'
  <2>1. /\ C \in SUBSET Id
        /\ Superseded \in SUBSET Id /\ Aged \in SUBSET Id
    BY DEF Candidates, Claimable, Superseded, Aged, Lapsed, Queued, InStatus
  <2>2. Cardinality(Superseded \cup Aged) \in Nat
    BY <2>1, RowsCounted
  <2>3. /\ outbox' \in [Id -> Row]
        /\ \A i \in Id : (outbox'[i].status = "sending") <=> (outbox'[i].lease # None)
    <3> DEFINE drop(i) == i \in Superseded \cup Aged
               new(i) == IF drop(i) THEN Dropped
                         ELSE IF i \in C THEN Leased(outbox[i], x)
                         ELSE IF i \in Lapsed THEN Waiting(outbox[i], TRUE)
                         ELSE outbox[i]
    <3>1. outbox' = [i \in Id |-> new(i)]
      BY <1>1 DEF Claim
    <3>2. ASSUME NEW i \in Id
          PROVE  new(i) \in Row /\ ((new(i).status = "sending") <=> (new(i).lease # None))
      <4>1. /\ outbox[i] \in Row
            /\ (outbox[i].status = "sending") <=> (outbox[i].lease # None)
        BY DEF TypeOK
      <4>2. CASE drop(i)
        BY <4>2, RowsType
      <4>3. CASE ~drop(i) /\ i \in C
        BY <4>1, <4>3, RowsType, NoneFresh
      <4>4. CASE ~drop(i) /\ i \notin C /\ i \in Lapsed
        BY <4>1, <4>4, RowsType
      <4>5. CASE ~drop(i) /\ i \notin C /\ i \notin Lapsed
        BY <4>1, <4>5
      <4> QED BY <4>2, <4>3, <4>4, <4>5
    <3> HIDE DEF new
    <3> QED BY <3>1, <3>2
  <2>4. asset_state' \in [Key -> State]
    BY <1>1 DEF Claim, TypeOK, Forget, State, NoState
  <2>5. totals' \in [dropped : Nat, delivered : Nat, failed : Nat]
    BY <1>1, <2>2 DEF Claim, TypeOK
  <2> QED
    BY <1>1, <2>1, <2>3, <2>4, <2>5 DEF Claim, TypeOK, TransactionOK, server
<1>2. ASSUME NEW i \in invalid[x], RejectInvalid(x, i)
      PROVE  TypeOK' /\ TransactionOK'
  <2>1. {i} \in SUBSET Id /\ FinishFailed(x, {i})
    BY <1>2 DEF RejectInvalid, TypeOK
  <2> QED
    BY <1>2, <2>1, FinishType DEF RejectInvalid, TypeOK, TransactionOK, server
<1>3. ASSUME NEW G \in SUBSET work[x], BeginAttempt(x, G)
      PROVE  TypeOK' /\ TransactionOK'
  BY <1>3 DEF BeginAttempt, TypeOK, TransactionOK, server, tables
<1>4. ASSUME NEW got \in SUBSET group[x], NEW r \in Reply, Answer(x, r, got)
      PROVE  TypeOK' /\ TransactionOK'
  BY <1>4 DEF Answer, TypeOK, TransactionOK, server, tables
<1>5. ASSUME NEW due \in BOOLEAN, Finish(x, due)
      PROVE  TypeOK' /\ TransactionOK'
  <2>1. group[x] \in SUBSET Id
    BY DEF TypeOK
  <2>2. \/ FinishFailed(x, group[x]) \/ FinishDelivered(x, group[x])
        \/ FinishRetry(x, group[x], due)
    BY <1>5 DEF Finish
  <2>3. /\ pc' \in [Exporter -> {"idle", "batch", "send", "finish"}]
        /\ group' \in [Exporter -> SUBSET Id]
        /\ reply' \in [Exporter -> Reply \cup {None}]
    BY <1>5 DEF Finish, TypeOK
  <2> HIDE DEF TypeOK
  <2>4. /\ outbox' \in [Id -> Row]
        /\ asset_state' \in [Key -> State]
        /\ totals' \in [dropped : Nat, delivered : Nat, failed : Nat]
        /\ \A i \in Id : (outbox'[i].status = "sending") <=> (outbox'[i].lease # None)
    BY <2>1, <2>2, FinishType
  <2>5. UNCHANGED <<server, cutoff, invalid, work, received>>
    BY <1>5 DEF Finish
  <2> QED
    BY <2>3, <2>4, <2>5 DEF TypeOK, TransactionOK, server
<1>6. ASSUME NEW P \in SUBSET InStatus({"delivered", "failed"}), Cleanup(x, P)
      PROVE  TypeOK' /\ TransactionOK'
  BY <1>6, PurgeType DEF Cleanup, TypeOK, TransactionOK, server
<1>7. ASSUME NEW got \in SUBSET group[x], Halt(x, got)
      PROVE  TypeOK' /\ TransactionOK'
  BY <1>7 DEF Halt, TypeOK, TransactionOK, server, tables
<1>8. ASSUME NEW got \in SUBSET group[x],
             NEW P \in SUBSET InStatus({"delivered", "failed"}), Stop(x, got, P)
      PROVE  TypeOK' /\ TransactionOK'
  BY <1>8, PurgeType DEF Stop, TypeOK, TransactionOK, server
<1> QED
  BY <1>1, <1>2, <1>3, <1>4, <1>5, <1>6, <1>7, <1>8 DEF RunOnce

LEMMA TypeNext == TypeOK /\ TransactionOK /\ [Next]_vars => TypeOK' /\ TransactionOK'
<1> SUFFICES ASSUME TypeOK, TransactionOK, [Next]_vars
             PROVE  TypeOK' /\ TransactionOK'
  OBVIOUS
<1>1. CASE UNCHANGED vars
  BY <1>1 DEF vars, tables, server, workers, TypeOK, TransactionOK
<1> QED
  BY <1>1, TypeIngest, TypeTime, TypeExporters DEF Next

(* Every reachable state is well typed, and a lease is recorded exactly while
   a row is being sent. *)
THEOREM TypeCorrect == Spec => [](TypeOK /\ TransactionOK)
BY TypeInit, TypeNext, PTL DEF Spec

(***************************************************************************)
(* Soundness of deduplication.  DedupSound alone is not inductive: that a  *)
(* vouched event is queued or received must survive the end of its lease,  *)
(* so the invariant also says which statuses a vouched row can have, that  *)
(* delivered rows were received, and that a worker about to finish "ok"    *)
(* really had its group accepted.                                          *)
(***************************************************************************)
Standing == {"pending", "retry", "sending", "delivered", "purged"}
LastOf(k) == [key |-> k, at |-> asset_state[k].at]

IssuedBefore == \A j \in Id : outbox[j].status # "unused" => j.at <= scans

Vouched(k) ==
  /\ LastOf(k) \in Id
  /\ outbox[LastOf(k)].status \in Standing
  /\ outbox[LastOf(k)].hash = asset_state[k].hash
  /\ \A j \in Id : outbox[j].status # "unused" /\ j.key = k => j.at <= asset_state[k].at

AllVouched == \A k \in Key : asset_state[k] # NoState => Vouched(k)

ConfirmedReceived ==
  \A i \in Id : outbox[i].status \in {"delivered", "purged"} => i \in received

AcksReceived ==
  \A x \in Exporter :
    pc[x] = "finish" => /\ reply[x] \in Reply
                        /\ reply[x] = "ok" => group[x] \subseteq received

DedupInv ==
  TypeOK /\ TransactionOK /\ IssuedBefore /\ AllVouched /\ ConfirmedReceived /\ AcksReceived

LEMMA DedupInit == Init => DedupInv
<1> SUFFICES ASSUME Init PROVE IssuedBefore /\ AllVouched /\ ConfirmedReceived /\ AcksReceived
  BY TypeInit DEF DedupInv
<1> QED
  BY DEF Init, IssuedBefore, AllVouched, ConfirmedReceived, AcksReceived, Blank

LEMMA DedupInvSound == DedupInv => DedupSound
<1> SUFFICES ASSUME DedupInv, NEW k \in Key, asset_state[k] # NoState
             PROVE  LET i == LastOf(k) IN
                    /\ i \in Issued /\ outbox[i].hash = asset_state[k].hash
                    /\ \A j \in Issued : j.key = k => j.at <= i.at
                    /\ i \in Undelivered \/ i \in received
  BY DEF DedupSound, LastOf
<1>1. Vouched(k)
  BY DEF DedupInv, AllVouched
<1>2. LastOf(k) \in Issued /\ outbox[LastOf(k)].hash = asset_state[k].hash
  BY <1>1 DEF Vouched, Issued, InStatus, Standing
<1>3. \A j \in Issued : j.key = k => j.at <= LastOf(k).at
  BY <1>1 DEF Vouched, Issued, InStatus, LastOf
<1>4. LastOf(k) \in Undelivered \/ LastOf(k) \in received
  BY <1>1 DEF Vouched, DedupInv, ConfirmedReceived, Undelivered, InStatus, Standing
<1> QED BY <1>2, <1>3, <1>4

(* A step that inserts no row, and after which every remaining entry is an old
   one whose row still stands with the same hash, vouches for nothing new. *)
LEMMA EntriesKept ==
  ASSUME DedupInv, scans' \in Nat, scans' >= scans,
         \A i \in Id : outbox'[i].status # "unused" => outbox[i].status # "unused",
         \A k \in Key :
            asset_state'[k] # NoState =>
              /\ asset_state'[k] = asset_state[k]
              /\ outbox'[LastOf(k)].status \in Standing
              /\ outbox'[LastOf(k)].hash = outbox[LastOf(k)].hash
  PROVE  IssuedBefore' /\ AllVouched'
<1>0. scans \in Nat /\ \A j \in Id : j.at \in Nat
  BY OutboxAssumption DEF DedupInv, TypeOK, Id, Scan
<1>1. IssuedBefore'
  BY <1>0 DEF IssuedBefore, DedupInv
<1>2. ASSUME NEW k \in Key, asset_state'[k] # NoState
      PROVE  Vouched(k)'
  <2>1. asset_state'[k] = asset_state[k] /\ Vouched(k)
    BY <1>2 DEF DedupInv, AllVouched
  <2> QED BY <1>2, <2>1 DEF Vouched, LastOf
<1> QED BY <1>1, <1>2 DEF AllVouched

(* What EntriesKept and ConfirmedReceived ask of a step, as one predicate. *)
Keeps ==
  /\ \A i \in Id : outbox'[i].status # "unused" => outbox[i].status # "unused"
  /\ \A k \in Key :
        asset_state'[k] # NoState =>
          /\ asset_state'[k] = asset_state[k]
          /\ outbox'[LastOf(k)].status \in Standing
          /\ outbox'[LastOf(k)].hash = outbox[LastOf(k)].hash

NothingConfirmed ==
  \A i \in Id : outbox'[i].status \in {"delivered", "purged"} =>
                outbox[i].status \in {"delivered", "purged"}

LEMMA TablesUnchangedKeep ==
  ASSUME DedupInv, UNCHANGED <<outbox, asset_state>>
  PROVE  Keeps /\ NothingConfirmed
BY DEF DedupInv, AllVouched, Vouched, Keeps, NothingConfirmed

(* An entry survives Forget(D) only if its row is not in D. *)
LEMMA ForgetKeeps ==
  ASSUME DedupInv, NEW D \in SUBSET Id, NEW k \in Key, Forget(D)[k] # NoState
  PROVE  /\ Forget(D)[k] = asset_state[k] /\ asset_state[k] # NoState
         /\ LastOf(k) \in Id /\ LastOf(k) \notin D
         /\ outbox[LastOf(k)].status \in Standing
<1>1. Forget(D)[k] = asset_state[k] /\ ~\E i \in D : i.key = k /\ Latest(i)
  BY DEF Forget
<1>2. Vouched(k)
  BY <1>1 DEF DedupInv, AllVouched
<1>3. LastOf(k) \notin D
  BY <1>1 DEF LastOf, Latest
<1> QED BY <1>1, <1>2, <1>3 DEF Vouched

LEMMA DropRowsKeep ==
  ASSUME DedupInv, NEW D \in SUBSET Queued, DropRows(D)
  PROVE  Keeps /\ NothingConfirmed
<1>1. D \in SUBSET Id /\ \A i \in D : outbox[i].status \in {"pending", "retry"}
  BY DEF Queued, InStatus
<1>2. /\ \A i \in Id : outbox'[i] = IF i \in D THEN Dropped ELSE outbox[i]
      /\ asset_state' = Forget(D)
  BY DEF DropRows, Dropped
<1>3. NothingConfirmed
  BY <1>1, <1>2, RowsType DEF NothingConfirmed
<1>4. \A i \in Id : outbox'[i].status # "unused" => outbox[i].status # "unused"
  BY <1>1, <1>2
<1>5. ASSUME NEW k \in Key, asset_state'[k] # NoState
      PROVE  /\ asset_state'[k] = asset_state[k]
             /\ outbox'[LastOf(k)].status \in Standing
             /\ outbox'[LastOf(k)].hash = outbox[LastOf(k)].hash
  BY <1>1, <1>2, <1>5, ForgetKeeps
<1> QED BY <1>3, <1>4, <1>5 DEF Keeps

LEMMA DedupIngest ==
  ASSUME DedupInv, Ingest
  PROVE  DedupInv'
<1>0. TypeOK' /\ TransactionOK'
  BY TypeIngest DEF DedupInv
<1>1. scans \in Nat /\ scans' \in Nat
  BY <1>0, OutboxAssumption DEF DedupInv, TypeOK
<1>2. UNCHANGED <<pc, reply, group, received>>
  BY DEF Ingest, Project, BeginIngest, SkipUnchanged, DropOversize, Supersede, Evict,
         RejectNew, Enqueue, Commit, workers
<1>3. AcksReceived'
  BY <1>2 DEF DedupInv, AcksReceived
<1> SUFFICES (IssuedBefore /\ AllVouched /\ ConfirmedReceived)'
  BY <1>0, <1>3 DEF DedupInv
<1>4. CASE \/ \E d \in Device : \E f \in Reconciled(d) : BeginIngest(d, f)
           \/ \E k \in Key : Supersede(k)
           \/ \E i \in Id : Evict(i)
  <2>1. PICK D \in SUBSET Queued : DropRows(D)
    <3>1. ASSUME NEW d \in Device, NEW f \in Reconciled(d), BeginIngest(d, f)
          PROVE  \E D \in SUBSET Queued : DropRows(D)
      BY <3>1, Zenon DEF BeginIngest
    <3>2. ASSUME NEW k \in Key, Supersede(k)
          PROVE  \E D \in SUBSET Queued : DropRows(D)
      BY <3>2, Zenon DEF Supersede
    <3>3. ASSUME NEW i \in Id, Evict(i)
          PROVE  \E D \in SUBSET Queued : DropRows(D)
      <4>1. {i} \in SUBSET Queued /\ DropRows({i})
        BY <3>3 DEF Evict, Oldest
      <4> QED BY <4>1
    <3> QED BY <1>4, <3>1, <3>2, <3>3
  <2>2. scans' >= scans
    <3>1. scans' = scans + 1 \/ scans' = scans
      BY <1>4, Zenon DEF BeginIngest, Supersede, Evict, server
    <3> QED BY <1>1, <3>1
  <2>3. Keeps /\ NothingConfirmed
    BY <2>1, DropRowsKeep
  <2>4. ConfirmedReceived'
    BY <1>2, <2>3 DEF ConfirmedReceived, NothingConfirmed, DedupInv
  <2> QED BY <1>1, <2>2, <2>3, <2>4, EntriesKept DEF Keeps
<1>5. CASE \/ \E k \in Key : SkipUnchanged(k) \/ DropOversize(k)
           \/ RejectNew
           \/ Commit
  <2>1. UNCHANGED <<outbox, asset_state, scans>>
    BY <1>5 DEF SkipUnchanged, DropOversize, RejectNew, Commit, tables
  <2>2. Keeps /\ NothingConfirmed
    BY <2>1, TablesUnchangedKeep
  <2>3. ConfirmedReceived'
    BY <1>2, <2>2 DEF ConfirmedReceived, NothingConfirmed, DedupInv
  <2> QED BY <1>1, <2>1, <2>2, <2>3, EntriesKept DEF Keeps
<1>6. CASE Enqueue
  <2> DEFINE new == [key |-> cur, at |-> scans]
  <2>1. new \in Id /\ cur \in Key
    BY <1>6, <1>1, OutboxAssumption DEF Enqueue, DedupInv, TypeOK, TransactionOK, Id, Scan
  <2>2. /\ outbox'[new].status = "pending" /\ outbox'[new].hash = HashOf(cur)
        /\ \A i \in Id : i # new => outbox'[i] = outbox[i]
        /\ asset_state'[cur] = [hash |-> HashOf(cur), at |-> scans]
        /\ \A k \in Key : k # cur => asset_state'[k] = asset_state[k]
        /\ scans' = scans
    BY <1>6, <2>1 DEF Enqueue, DedupInv, TypeOK
  <2>3. IssuedBefore'
    BY <1>1, <2>1, <2>2 DEF IssuedBefore, DedupInv, Id
  <2>4. ConfirmedReceived'
    BY <1>2, <2>1, <2>2 DEF ConfirmedReceived, DedupInv
  <2>5. ASSUME NEW k \in Key, asset_state'[k] # NoState
        PROVE  Vouched(k)'
    <3>1. CASE k = cur
      <4>1. LastOf(k)' = new
        BY <3>1, <2>2 DEF LastOf
      <4>2. \A j \in Id : outbox'[j].status # "unused" => j.at <= scans
        BY <2>2, <2>3 DEF IssuedBefore
      <4> QED BY <3>1, <4>1, <4>2, <2>1, <2>2 DEF Vouched, Standing
    <3>2. CASE k # cur
      <4>1. asset_state'[k] = asset_state[k] /\ Vouched(k)
        BY <2>2, <2>5, <3>2 DEF DedupInv, AllVouched
      <4>2. \A j \in Id : j.key = k => outbox'[j] = outbox[j]
        BY <2>2, <3>2
      <4>3. LastOf(k)' = LastOf(k) /\ LastOf(k).key = k
        BY <4>1 DEF LastOf
      <4> QED BY <4>1, <4>2, <4>3 DEF Vouched
    <3> QED BY <3>1, <3>2
  <2> QED BY <2>3, <2>4, <2>5 DEF AllVouched
<1> QED BY <1>4, <1>5, <1>6 DEF Ingest, Project

LEMMA DedupTime ==
  ASSUME DedupInv, Time
  PROVE  DedupInv'
<1>0. TypeOK' /\ TransactionOK'
  BY TypeTime DEF DedupInv
<1>1. /\ UNCHANGED <<asset_state, scans, pc, reply, group, received>>
      /\ \A i \in Id : /\ outbox'[i].status = outbox[i].status
                       /\ outbox'[i].hash = outbox[i].hash
  BY DEF Time, LeaseExpires, BecomesDue, AgeOut, tables, server, workers, DedupInv, TypeOK, Row
<1>2. Keeps /\ NothingConfirmed
  BY <1>1 DEF DedupInv, AllVouched, Vouched, Keeps, NothingConfirmed
<1>3. scans \in Nat
  BY OutboxAssumption DEF DedupInv, TypeOK
<1>4. IssuedBefore' /\ AllVouched'
  BY <1>1, <1>2, <1>3, EntriesKept DEF Keeps
<1> QED
  BY <1>0, <1>1, <1>2, <1>4
     DEF DedupInv, ConfirmedReceived, AcksReceived, NothingConfirmed

(* The three outcomes of finish. *)
LEMMA FinishKeeps ==
  ASSUME DedupInv, NEW x \in Exporter, NEW S \in SUBSET Id, NEW due \in BOOLEAN
  PROVE  /\ FinishFailed(x, S) => Keeps /\ NothingConfirmed
         /\ FinishRetry(x, S, due) => Keeps /\ NothingConfirmed
         /\ FinishDelivered(x, S) =>
              Keeps /\ \A i \in Id : outbox'[i].status \in {"delivered", "purged"} =>
                         outbox[i].status \in {"delivered", "purged"} \/ i \in S
<1> DEFINE own == {i \in S : Owned(x, i)}
           stale == {i \in own : ~Latest(i)}
<1>1. own \in SUBSET Id /\ stale \in SUBSET own
  OBVIOUS
<1>2. \A i \in own : outbox[i].status = "sending"
  BY DEF Owned
<1>3. \A i \in Id : outbox[i] \in Row
  BY DEF DedupInv, TypeOK
<1>4. \A st \in Status : \A r \in Row : Closed(r, st).hash = r.hash
  BY DEF Closed, Row
<1>5. \A r \in Row : Waiting(r, due).hash = r.hash
  BY DEF Waiting, Row
<1>6. \A k \in Key : asset_state[k] # NoState =>
        LastOf(k) \in Id /\ outbox[LastOf(k)].status \in Standing /\ LastOf(k) \notin stale
  <2> SUFFICES ASSUME NEW k \in Key, asset_state[k] # NoState
               PROVE  LastOf(k) \in Id /\ outbox[LastOf(k)].status \in Standing
                      /\ LastOf(k) \notin stale
    OBVIOUS
  <2>1. Latest(LastOf(k))
    BY DEF Latest, LastOf
  <2> QED BY <2>1 DEF DedupInv, AllVouched, Vouched
<1>7. ASSUME FinishFailed(x, S) PROVE Keeps /\ NothingConfirmed
  <2>1. /\ \A i \in Id : outbox'[i] = IF i \in own THEN Closed(outbox[i], "failed") ELSE outbox[i]
        /\ asset_state' = Forget(own)
    BY <1>7 DEF FinishFailed
  <2> HIDE DEF own, stale
  <2>2. NothingConfirmed
    BY <1>3, <2>1, RowsType DEF NothingConfirmed, Status
  <2>3. \A i \in Id : outbox'[i].status # "unused" => outbox[i].status # "unused"
    BY <1>2, <2>1
  <2>4. ASSUME NEW k \in Key, asset_state'[k] # NoState
        PROVE  /\ asset_state'[k] = asset_state[k]
               /\ outbox'[LastOf(k)].status \in Standing
               /\ outbox'[LastOf(k)].hash = outbox[LastOf(k)].hash
    BY <1>1, <2>1, <2>4, ForgetKeeps
  <2> QED BY <2>2, <2>3, <2>4 DEF Keeps
<1>8. ASSUME FinishRetry(x, S, due) PROVE Keeps /\ NothingConfirmed
  <2>1. /\ \A i \in Id : outbox'[i] = IF i \in stale THEN Dropped
                                      ELSE IF i \in own THEN Waiting(outbox[i], due)
                                      ELSE outbox[i]
        /\ asset_state' = asset_state
    BY <1>8 DEF FinishRetry
  <2> HIDE DEF own, stale
  <2>2. NothingConfirmed
    BY <1>3, <2>1, RowsType DEF NothingConfirmed
  <2>3. \A i \in Id : outbox'[i].status # "unused" => outbox[i].status # "unused"
    BY <1>1, <1>2, <2>1
  <2>4. ASSUME NEW k \in Key, asset_state'[k] # NoState
        PROVE  /\ asset_state'[k] = asset_state[k]
               /\ outbox'[LastOf(k)].status \in Standing
               /\ outbox'[LastOf(k)].hash = outbox[LastOf(k)].hash
    BY <1>3, <1>5, <1>6, <2>1, <2>4, RowsType DEF Standing
  <2> QED BY <2>2, <2>3, <2>4 DEF Keeps
<1>9. ASSUME FinishDelivered(x, S)
      PROVE  Keeps /\ \A i \in Id : outbox'[i].status \in {"delivered", "purged"} =>
                        outbox[i].status \in {"delivered", "purged"} \/ i \in S
  <2>1. /\ \A i \in Id : outbox'[i] = IF i \in own THEN Closed(outbox[i], "delivered")
                                      ELSE outbox[i]
        /\ asset_state' = asset_state
    BY <1>9 DEF FinishDelivered
  <2>2. own \subseteq S
    OBVIOUS
  <2> HIDE DEF own, stale
  <2>3. \A i \in Id : outbox'[i].status # "unused" => outbox[i].status # "unused"
    BY <1>2, <2>1
  <2>4. ASSUME NEW k \in Key, asset_state'[k] # NoState
        PROVE  /\ asset_state'[k] = asset_state[k]
               /\ outbox'[LastOf(k)].status \in Standing
               /\ outbox'[LastOf(k)].hash = outbox[LastOf(k)].hash
    <3>1. asset_state'[k] = asset_state[k] /\ asset_state[k] # NoState
      BY <2>1, <2>4
    <3>2. LastOf(k) \in Id /\ outbox[LastOf(k)].status \in Standing
      BY <1>6, <3>1
    <3>3. CASE LastOf(k) \in own
      <4>1. outbox'[LastOf(k)] = Closed(outbox[LastOf(k)], "delivered")
        BY <2>1, <3>2, <3>3
      <4> QED BY <1>3, <3>1, <3>2, <4>1 DEF Closed, Row, Standing
    <3>4. CASE LastOf(k) \notin own
      BY <2>1, <3>1, <3>2, <3>4
    <3> QED BY <3>3, <3>4
  <2>5. ASSUME NEW i \in Id, outbox'[i].status \in {"delivered", "purged"}
        PROVE  outbox[i].status \in {"delivered", "purged"} \/ i \in S
    <3>1. CASE i \in own
      BY <2>2, <3>1
    <3>2. CASE i \notin own
      <4>1. outbox'[i] = outbox[i]
        BY <2>1, <3>2
      <4> QED BY <2>5, <4>1
    <3> QED BY <3>1, <3>2
  <2> QED BY <2>3, <2>4, <2>5 DEF Keeps
<1> QED BY <1>7, <1>8, <1>9

(* Retention deletes delivered rows, which the collector has, and failed ones. *)
LEMMA PurgeKeeps ==
  ASSUME DedupInv, NEW P \in SUBSET InStatus({"delivered", "failed"}), Purge(P)
  PROVE  Keeps /\ NothingConfirmed
<1>1. \A i \in Id : outbox'[i] = IF i \in P THEN Deleted(outbox[i]) ELSE outbox[i]
  BY DEF Purge
<1>2. asset_state' = asset_state
  BY DEF Purge
<1>3. \A i \in P : i \in Id /\ outbox[i].status \in {"delivered", "failed"}
  BY DEF InStatus
<1>4. \A i \in Id : outbox[i] \in Row
  BY DEF DedupInv, TypeOK
<1>5. \A r \in Row : /\ r.status = "delivered" => /\ Deleted(r).status = "purged"
                                                 /\ Deleted(r).hash = r.hash
                     /\ r.status # "delivered" => Deleted(r).status = "discarded"
  BY DEF Deleted, Closed, Row, Blank
<1>6. \A k \in Key : asset_state[k] # NoState =>
        LastOf(k) \in Id /\ outbox[LastOf(k)].status \in Standing
  BY DEF DedupInv, AllVouched, Vouched
<1>7. Keeps
  BY <1>1, <1>2, <1>3, <1>4, <1>5, <1>6 DEF Keeps, Standing
<1> QED BY <1>1, <1>3, <1>4, <1>5, <1>7 DEF NothingConfirmed

LEMMA DedupExporters ==
  ASSUME DedupInv, Exporters
  PROVE  DedupInv'
<1>0. TypeOK' /\ TransactionOK' /\ TypeOK
  BY TypeExporters DEF DedupInv
<1>1. scans' = scans /\ scans \in Nat
  <2>1. UNCHANGED server
    <3>1. ASSUME NEW x \in Exporter, RunOnce(x)
          PROVE  UNCHANGED server
      BY <3>1, Zenon DEF RunOnce, Claim, RejectInvalid, BeginAttempt, Answer, Finish, Cleanup
    <3>2. ASSUME NEW x \in Exporter, NEW got \in SUBSET group[x], Halt(x, got)
          PROVE  UNCHANGED server
      BY <3>2 DEF Halt
    <3>3. ASSUME NEW x \in Exporter, NEW got \in SUBSET group[x],
                 NEW P \in SUBSET InStatus({"delivered", "failed"}), Stop(x, got, P)
          PROVE  UNCHANGED server
      BY <3>3 DEF Stop
    <3> QED BY <3>1, <3>2, <3>3 DEF Exporters
  <2>2. scans \in Nat
    BY OutboxAssumption DEF DedupInv, TypeOK
  <2> QED BY <2>1, <2>2 DEF server
<1> SUFFICES ASSUME NEW x \in Exporter,
                    \/ RunOnce(x)
                    \/ \E got \in SUBSET group[x] :
                         \/ Halt(x, got)
                         \/ \E P \in SUBSET InStatus({"delivered", "failed"}) :
                              Stop(x, got, P)
             PROVE  Keeps /\ ConfirmedReceived' /\ AcksReceived'
  BY <1>0, <1>1, EntriesKept DEF Exporters, DedupInv, Keeps
<1>2. ASSUME NEW C \in SUBSET Candidates, Claim(x, C)
      PROVE  Keeps /\ ConfirmedReceived' /\ AcksReceived'
  <2> DEFINE drop == Superseded \cup Aged
  <2>1. /\ C \subseteq Claimable /\ drop \subseteq Claimable /\ Aged \in SUBSET Id
        /\ Lapsed \subseteq Claimable /\ Claimable \subseteq Id
    BY DEF Candidates, Claimable, Superseded, Aged, Lapsed, Queued, InStatus
  <2>2. \A i \in Claimable : outbox[i].status \in {"pending", "retry", "sending"}
    BY DEF Claimable, Lapsed, Queued, InStatus
  <2>3. \A i \in Id : outbox'[i] = IF i \in drop THEN Dropped
                                   ELSE IF i \in C THEN Leased(outbox[i], x)
                                   ELSE IF i \in Lapsed THEN Waiting(outbox[i], TRUE)
                                   ELSE outbox[i]
    BY <1>2 DEF Claim
  <2>4. \A r \in Row : Leased(r, x).hash = r.hash /\ Waiting(r, TRUE).hash = r.hash
    BY DEF Leased, Waiting, Row
  <2>5. \A i \in Id : outbox[i] \in Row
    BY <1>0 DEF TypeOK
  <2>6. \A k \in Key : asset_state[k] # NoState => LastOf(k) \notin Superseded
    BY DEF Superseded, Latest, LastOf
  <2>7. asset_state' = Forget(Aged) /\ UNCHANGED <<group, reply, received>>
    BY <1>2 DEF Claim
  <2> HIDE DEF drop
  <2>8. \A i \in Id : outbox'[i].status # "unused" => outbox[i].status # "unused"
    BY <2>1, <2>2, <2>3
  <2>9. ASSUME NEW k \in Key, asset_state'[k] # NoState
        PROVE  /\ asset_state'[k] = asset_state[k]
               /\ outbox'[LastOf(k)].status \in Standing
               /\ outbox'[LastOf(k)].hash = outbox[LastOf(k)].hash
    <3>1. /\ asset_state'[k] = asset_state[k] /\ asset_state[k] # NoState
          /\ LastOf(k) \in Id /\ LastOf(k) \notin Aged
          /\ outbox[LastOf(k)].status \in Standing
      BY <2>1, <2>7, <2>9, ForgetKeeps
    <3>2. LastOf(k) \notin drop
      BY <2>6, <3>1 DEF drop
    <3> DEFINE i == LastOf(k)
    <3>3. /\ i \in Id /\ outbox[i].status \in Standing
          /\ i \in C => outbox'[i] = Leased(outbox[i], x)
          /\ (i \notin C /\ i \in Lapsed) => outbox'[i] = Waiting(outbox[i], TRUE)
          /\ (i \notin C /\ i \notin Lapsed) => outbox'[i] = outbox[i]
      BY <2>3, <3>1, <3>2
    <3> HIDE DEF i
    <3>4. /\ outbox'[i].status \in Standing
          /\ outbox'[i].hash = outbox[i].hash
      <4>1. CASE i \in C
        BY <2>5, <3>3, <4>1 DEF Leased, Row, Standing
      <4>2. CASE i \notin C /\ i \in Lapsed
        BY <2>5, <3>3, <4>2 DEF Waiting, Row, Standing
      <4>3. CASE i \notin C /\ i \notin Lapsed
        BY <3>3, <4>3
      <4> QED BY <4>1, <4>2, <4>3
    <3> QED BY <3>1, <3>4 DEF i
  <2>10. ConfirmedReceived'
    <3>1. ASSUME NEW i \in Id, outbox'[i].status \in {"delivered", "purged"}
          PROVE  outbox[i].status \in {"delivered", "purged"}
      <4>1. CASE i \in drop
        BY <2>3, <3>1, <4>1 DEF Dropped, Blank
      <4>2. CASE i \notin drop /\ i \in C
        BY <2>3, <2>5, <3>1, <4>2 DEF Leased, Row
      <4>3. CASE i \notin drop /\ i \notin C /\ i \in Lapsed
        BY <2>3, <2>5, <3>1, <4>3 DEF Waiting, Row
      <4>4. CASE i \notin drop /\ i \notin C /\ i \notin Lapsed
        <5>1. outbox'[i] = outbox[i]
          BY <2>3, <4>4
        <5> QED BY <3>1, <5>1
      <4> QED BY <4>1, <4>2, <4>3, <4>4
    <3> QED BY <2>7, <3>1 DEF ConfirmedReceived, DedupInv
  <2>11. AcksReceived'
    <3>1. pc' = [pc EXCEPT ![x] = "batch"]
      BY <1>2 DEF Claim
    <3>2. pc \in [Exporter -> {"idle", "batch", "send", "finish"}] /\ AcksReceived
      BY <1>0 DEF TypeOK, DedupInv
    <3> QED BY <2>7, <3>1, <3>2 DEF AcksReceived
  <2> QED BY <2>8, <2>9, <2>10, <2>11 DEF Keeps
<1>3. ASSUME NEW i \in invalid[x], RejectInvalid(x, i)
      PROVE  Keeps /\ ConfirmedReceived' /\ AcksReceived'
  <2>1. {i} \in SUBSET Id /\ FinishFailed(x, {i})
    BY <1>0, <1>3 DEF RejectInvalid, TypeOK
  <2>2. Keeps /\ NothingConfirmed
    BY <2>1, FinishKeeps
  <2> QED
    BY <1>3, <2>2
       DEF RejectInvalid, ConfirmedReceived, AcksReceived, NothingConfirmed, DedupInv
<1>4. ASSUME NEW G \in SUBSET work[x], BeginAttempt(x, G)
      PROVE  Keeps /\ ConfirmedReceived' /\ AcksReceived'
  <2>1. Keeps /\ NothingConfirmed
    BY <1>4, TablesUnchangedKeep DEF BeginAttempt, tables
  <2>2. AcksReceived'
    BY <1>0, <1>4 DEF BeginAttempt, AcksReceived, DedupInv, TypeOK
  <2> QED
    BY <1>4, <2>1, <2>2 DEF BeginAttempt, ConfirmedReceived, NothingConfirmed, DedupInv
<1>5. ASSUME NEW got \in SUBSET group[x], NEW r \in Reply, Answer(x, r, got)
      PROVE  Keeps /\ ConfirmedReceived' /\ AcksReceived'
  <2>1. Keeps /\ NothingConfirmed
    BY <1>5, TablesUnchangedKeep DEF Answer, tables
  <2>2. received \subseteq received' /\ group' = group
    BY <1>5 DEF Answer
  <2>3. r = "ok" => group[x] \subseteq received'
    BY <1>5 DEF Answer, Arrives
  <2>4. /\ pc' = [pc EXCEPT ![x] = "finish"]
        /\ reply' = [reply EXCEPT ![x] = r]
    BY <1>5 DEF Answer
  <2>5. AcksReceived'
    BY <1>0, <2>2, <2>3, <2>4 DEF AcksReceived, DedupInv, TypeOK
  <2> QED
    BY <2>1, <2>2, <2>5 DEF ConfirmedReceived, NothingConfirmed, DedupInv
<1>6. ASSUME NEW due \in BOOLEAN, Finish(x, due)
      PROVE  Keeps /\ ConfirmedReceived' /\ AcksReceived'
  <2>1. group[x] \in SUBSET Id
    BY <1>0 DEF TypeOK
  <2>2. Keeps /\ ConfirmedReceived'
    <3>1. CASE FinishFailed(x, group[x]) \/ FinishRetry(x, group[x], due)
      <4>1. Keeps /\ NothingConfirmed
        BY <2>1, <3>1, FinishKeeps
      <4> QED
        BY <1>6, <4>1 DEF Finish, ConfirmedReceived, NothingConfirmed, DedupInv
    <3>2. CASE Result(reply[x]) = "delivered" /\ FinishDelivered(x, group[x])
      <4>1. reply[x] = "ok" /\ group[x] \subseteq received
        <5>1. /\ reply[x] \in ReplyClass
              /\ reply[x] = "ok" => group[x] \subseteq received
          BY <1>6, OutboxAssumption DEF Finish, DedupInv, AcksReceived
        <5> QED BY <3>2, <5>1 DEF Result, ReplyClass
      <4>2. Keeps /\ \A i \in Id : outbox'[i].status \in {"delivered", "purged"} =>
                       outbox[i].status \in {"delivered", "purged"} \/ i \in group[x]
        BY <2>1, <3>2, FinishKeeps
      <4> QED BY <1>6, <4>1, <4>2 DEF Finish, ConfirmedReceived, DedupInv
    <3> QED BY <1>6, <3>1, <3>2 DEF Finish
  <2>3. AcksReceived'
    BY <1>0, <1>6 DEF Finish, AcksReceived, DedupInv, TypeOK
  <2> QED BY <2>2, <2>3
<1>7. ASSUME NEW P \in SUBSET InStatus({"delivered", "failed"}), Cleanup(x, P)
      PROVE  Keeps /\ ConfirmedReceived' /\ AcksReceived'
  <2>1. Keeps /\ NothingConfirmed
    BY <1>7, PurgeKeeps DEF Cleanup
  <2>2. AcksReceived'
    BY <1>0, <1>7 DEF Cleanup, AcksReceived, DedupInv, TypeOK
  <2> QED
    BY <1>7, <2>1, <2>2 DEF Cleanup, ConfirmedReceived, NothingConfirmed, DedupInv
<1>8. ASSUME NEW got \in SUBSET group[x], Halt(x, got)
      PROVE  Keeps /\ ConfirmedReceived' /\ AcksReceived'
  <2>1. Keeps /\ NothingConfirmed
    BY <1>8, TablesUnchangedKeep DEF Halt, tables
  <2>2. AcksReceived'
    BY <1>0, <1>8 DEF Halt, AcksReceived, DedupInv, TypeOK
  <2> QED
    BY <1>8, <2>1, <2>2 DEF Halt, ConfirmedReceived, NothingConfirmed, DedupInv
<1>9. ASSUME NEW got \in SUBSET group[x],
             NEW P \in SUBSET InStatus({"delivered", "failed"}), Stop(x, got, P)
      PROVE  Keeps /\ ConfirmedReceived' /\ AcksReceived'
  <2>1. Keeps /\ NothingConfirmed
    BY <1>9, PurgeKeeps DEF Stop
  <2>2. AcksReceived'
    BY <1>0, <1>9 DEF Stop, AcksReceived, DedupInv, TypeOK
  <2> QED
    BY <1>9, <2>1, <2>2 DEF Stop, ConfirmedReceived, NothingConfirmed, DedupInv
<1> QED
  BY <1>2, <1>3, <1>4, <1>5, <1>6, <1>7, <1>8, <1>9 DEF RunOnce

LEMMA DedupNext == DedupInv /\ [Next]_vars => DedupInv'
<1> SUFFICES ASSUME DedupInv, [Next]_vars
             PROVE  DedupInv'
  OBVIOUS
<1>1. CASE UNCHANGED vars
  BY <1>1
     DEF vars, tables, server, workers, DedupInv, TypeOK, TransactionOK, IssuedBefore,
         AllVouched, Vouched, LastOf, ConfirmedReceived, AcksReceived
<1> QED
  BY <1>1, DedupIngest, DedupTime, DedupExporters DEF Next

(* Deduplication never hides a state from the collector: whatever workers,
   crashes, lost leases, evictions and cleanups do, the state recorded for a
   key is its newest event, still queued or already received. *)
THEOREM DedupCorrect == Spec => []DedupSound
BY DedupInit, DedupNext, DedupInvSound, PTL DEF Spec

(***************************************************************************)
(* The promise of EventDelivery, exclusive leases, claims of current       *)
(* states, and counters that agree with the rows.  The argument goes       *)
(* through what a step does to the fate of the rows: lemma StepEffect      *)
(* shows that every step gives up, confirms or fails a set of open rows,   *)
(* accepts one row, or leaves every fate alone.                            *)
(***************************************************************************)
Fate(row) ==
  IF row.status \in {"pending", "retry", "sending"} THEN "open"
  ELSE IF row.status \in {"delivered", "purged"} THEN "delivered"
  ELSE IF row.status \in {"failed", "discarded"} THEN "failed"
  ELSE row.status

Turns(S, fate) ==
  \A i \in Id : Fate(outbox'[i]) = IF i \in S THEN fate ELSE Fate(outbox[i])

Counts(d, f, n) ==
  /\ totals'.delivered = totals.delivered + d
  /\ totals'.failed = totals.failed + f
  /\ totals'.dropped >= totals.dropped + n

Drops(S) ==
  /\ S \subseteq Undelivered /\ Turns(S, "dropped")
  /\ Counts(0, 0, Cardinality(S)) /\ received' = received
Confirms(S) ==
  /\ S \subseteq Undelivered \cap received /\ Turns(S, "delivered")
  /\ Counts(Cardinality(S), 0, 0) /\ received' = received
Fails(S) ==
  /\ S \subseteq Undelivered /\ Turns(S, "failed")
  /\ Counts(0, Cardinality(S), 0) /\ received' = received
Accepts(i) ==
  /\ outbox[i].status = "unused" /\ Turns({i}, "open")
  /\ Cardinality(Undelivered) < MaxPending
  /\ Counts(0, 0, 0) /\ received' = received
Leaves(got) ==
  /\ Turns({}, "open")
  /\ Counts(0, 0, 0) /\ received' = received \cup got

(* A step inserts no row, or it is Enqueue. *)
Settles ==
  \/ \E S \in SUBSET Id : Drops(S) \/ Confirms(S) \/ Fails(S)
  \/ \E got \in SUBSET Issued : Leaves(got)
Current(k) == [key |-> k, at |-> scans]
Inserts == Enqueue /\ cur \in Key /\ Current(cur) \in Id /\ Accepts(Current(cur))
Effect == Settles \/ Inserts

(* A key the transaction still has to enqueue has no row of this scan. *)
Fresh ==
  /\ cur \notin todo
  /\ \A k \in Key : (k \in todo \/ k = cur) =>
                      outbox[Current(k)].status = "unused"

(* What a worker holds are rows that were inserted. *)
Held(x) == group[x] \cup work[x] \cup invalid[x]
HeldIssued == \A x \in Exporter : Held(x) \subseteq Issued

DeliveryInv == DedupInv /\ Fresh /\ HeldIssued

LEMMA FateOfStatus ==
  ASSUME NEW r \in Row
  PROVE  /\ Fate(r) = "open" <=> r.status \in {"pending", "retry", "sending"}
         /\ Fate(r) = "delivered" <=> r.status \in {"delivered", "purged"}
         /\ Fate(r) = "failed" <=> r.status \in {"failed", "discarded"}
         /\ Fate(r) = "dropped" <=> r.status = "dropped"
         /\ Fate(r) = "unused" <=> r.status = "unused"
BY DEF Fate, Row, Status

LEMMA DropRowsEffect ==
  ASSUME TypeOK, NEW D \in SUBSET Queued, DropRows(D), received' = received
  PROVE  Drops(D)
<1>1. D \subseteq Id /\ D \subseteq Undelivered
  BY DEF Queued, Undelivered, InStatus
<1>2. Turns(D, "dropped")
  BY <1>1 DEF DropRows, Turns, Fate, Dropped, Blank
<1>3. Cardinality(D) \in Nat
  BY <1>1, RowsCounted
<1>4. Counts(0, 0, Cardinality(D))
  BY <1>3 DEF DropRows, Counts, TypeOK
<1> QED BY <1>1, <1>2, <1>4 DEF Drops

LEMMA TablesLeft ==
  ASSUME TypeOK, UNCHANGED <<outbox, totals>>, NEW got, received' = received \cup got
  PROVE  Leaves(got)
BY DEF Leaves, Turns, Counts, TypeOK

LEMMA PurgeEffect ==
  ASSUME TypeOK, NEW P \in SUBSET InStatus({"delivered", "failed"}), Purge(P),
         NEW got, received' = received \cup got
  PROVE  Leaves(got)
<1>1. \A i \in P : i \in Id /\ outbox[i].status \in {"delivered", "failed"}
  BY DEF InStatus
<1>2. \A r \in Row : r.status \in {"delivered", "failed"} => Fate(Deleted(r)) = Fate(r)
  BY DEF Deleted, Closed, Blank, Row, Fate
<1>3. Turns({}, "open")
  BY <1>1, <1>2 DEF Turns, Purge, TypeOK
<1> QED BY <1>3 DEF Leaves, Counts, Purge, TypeOK

LEMMA FinishEffect ==
  ASSUME TypeOK, NEW x \in Exporter, NEW S \in SUBSET Id, NEW due \in BOOLEAN,
         received' = received
  PROVE  /\ FinishFailed(x, S) => Fails({i \in S : Owned(x, i)})
         /\ FinishRetry(x, S, due) => Drops({i \in S : Owned(x, i) /\ ~Latest(i)})
         /\ FinishDelivered(x, S) /\ S \subseteq received => Confirms({i \in S : Owned(x, i)})
<1> DEFINE own == {i \in S : Owned(x, i)}
           stale == {i \in own : ~Latest(i)}
<1>1. /\ own \subseteq Id /\ stale \subseteq own
      /\ own \subseteq Undelivered /\ own \subseteq S
      /\ \A i \in own : outbox[i].status = "sending"
  BY DEF Owned, Undelivered, InStatus
<1>2. Cardinality(own) \in Nat /\ Cardinality(stale) \in Nat
  BY <1>1, RowsCounted
<1>3. stale = {i \in S : Owned(x, i) /\ ~Latest(i)}
  OBVIOUS
<1>4. \A r \in Row : /\ Fate(Closed(r, "failed")) = "failed"
                     /\ Fate(Closed(r, "delivered")) = "delivered"
                     /\ Fate(Waiting(r, due)) = "open"
                     /\ r.status = "sending" => Fate(r) = "open"
                     /\ Fate(Dropped) = "dropped"
  BY DEF Closed, Waiting, Dropped, Blank, Row, Fate
<1>5. \A i \in Id : outbox[i] \in Row
  BY DEF TypeOK
<1>6. ASSUME FinishFailed(x, S) PROVE Fails(own)
  <2>1. /\ \A i \in Id : outbox'[i] = IF i \in own THEN Closed(outbox[i], "failed") ELSE outbox[i]
        /\ totals' = [totals EXCEPT !.failed = @ + Cardinality(own)]
    BY <1>6 DEF FinishFailed
  <2> HIDE DEF own
  <2> QED BY <1>1, <1>2, <1>4, <1>5, <2>1 DEF Fails, Turns, Counts, TypeOK
<1>7. ASSUME FinishRetry(x, S, due) PROVE Drops(stale)
  <2>1. /\ \A i \in Id : outbox'[i] = IF i \in stale THEN Dropped
                                      ELSE IF i \in own THEN Waiting(outbox[i], due)
                                      ELSE outbox[i]
        /\ totals' = [totals EXCEPT !.dropped = @ + Cardinality(stale)]
    BY <1>7 DEF FinishRetry
  <2> HIDE DEF own, stale
  <2>2. Turns(stale, "dropped")
    BY <1>1, <1>4, <1>5, <2>1 DEF Turns
  <2> QED BY <1>1, <1>2, <2>1, <2>2 DEF Drops, Counts, TypeOK
<1>8. ASSUME FinishDelivered(x, S), S \subseteq received PROVE Confirms(own)
  <2>1. /\ \A i \in Id : outbox'[i] = IF i \in own THEN Closed(outbox[i], "delivered") ELSE outbox[i]
        /\ totals' = [totals EXCEPT !.delivered = @ + Cardinality(own)]
    BY <1>8 DEF FinishDelivered
  <2> HIDE DEF own
  <2> QED BY <1>1, <1>2, <1>4, <1>5, <1>8, <2>1 DEF Confirms, Turns, Counts, TypeOK
<1> HIDE DEF stale
<1> QED BY <1>3, <1>6, <1>7, <1>8

LEMMA ClaimEffect ==
  ASSUME TypeOK, NEW x \in Exporter, NEW C \in SUBSET Candidates, Claim(x, C)
  PROVE  Drops(Superseded \cup Aged)
<1> DEFINE D == Superseded \cup Aged
<1>1. /\ C \subseteq Claimable /\ D \subseteq Claimable /\ Lapsed \subseteq Claimable
      /\ Claimable \subseteq Id /\ Claimable \subseteq Undelivered
  BY DEF Candidates, Claimable, Superseded, Aged, Lapsed, Queued, Undelivered, InStatus
<1>2. \A i \in Id : outbox[i] \in Row
  BY DEF TypeOK
<1>3. \A i \in Claimable : Fate(outbox[i]) = "open"
  BY <1>1 DEF Undelivered, InStatus, Fate
<1>4. \A r \in Row : /\ Fate(Leased(r, x)) = "open" /\ Fate(Waiting(r, TRUE)) = "open"
                     /\ Fate(Dropped) = "dropped"
  BY DEF Leased, Waiting, Dropped, Blank, Row, Fate
<1>5. /\ \A i \in Id : outbox'[i] = IF i \in D THEN Dropped
                                    ELSE IF i \in C THEN Leased(outbox[i], x)
                                    ELSE IF i \in Lapsed THEN Waiting(outbox[i], TRUE)
                                    ELSE outbox[i]
      /\ totals' = [totals EXCEPT !.dropped = @ + Cardinality(D)]
      /\ received' = received
  BY <1>2 DEF Claim
<1>6. Cardinality(D) \in Nat
  BY <1>1, RowsCounted
<1> HIDE DEF D
<1>7. Turns(D, "dropped")
  BY <1>1, <1>2, <1>3, <1>4, <1>5 DEF Turns
<1>8. Drops(D)
  BY <1>1, <1>5, <1>6, <1>7 DEF Drops, Counts, TypeOK
<1> QED BY <1>8 DEF D

LEMMA IngestEffect ==
  ASSUME DeliveryInv, Ingest
  PROVE  Effect
<1>0. TypeOK
  BY DEF DeliveryInv, DedupInv
<1>1. CASE \/ \E d \in Device : \E f \in Reconciled(d) : BeginIngest(d, f)
           \/ \E k \in Key : Supersede(k)
           \/ \E i \in Id : Evict(i)
  <2>1. PICK D \in SUBSET Queued : DropRows(D) /\ received' = received
    <3>1. ASSUME NEW d \in Device, NEW f \in Reconciled(d), BeginIngest(d, f)
          PROVE  \E D \in SUBSET Queued : DropRows(D) /\ received' = received
      BY <3>1, Zenon DEF BeginIngest
    <3>2. ASSUME NEW k \in Key, Supersede(k)
          PROVE  \E D \in SUBSET Queued : DropRows(D) /\ received' = received
      BY <3>2, Zenon DEF Supersede
    <3>3. ASSUME NEW i \in Id, Evict(i)
          PROVE  \E D \in SUBSET Queued : DropRows(D) /\ received' = received
      <4>1. {i} \in SUBSET Queued /\ DropRows({i}) /\ received' = received
        BY <3>3 DEF Evict, Oldest
      <4> QED BY <4>1
    <3> QED BY <1>1, <3>1, <3>2, <3>3
  <2>2. Drops(D) /\ D \in SUBSET Id
    BY <1>0, <2>1, DropRowsEffect DEF Queued, InStatus
  <2> QED BY <2>2 DEF Effect, Settles
<1>2. CASE \/ \E k \in Key : SkipUnchanged(k) \/ DropOversize(k)
           \/ RejectNew
           \/ Commit
  <2>1. outbox' = outbox /\ received' = received \cup {} /\ Counts(0, 0, 0)
    BY <1>0, <1>2 DEF SkipUnchanged, DropOversize, RejectNew, Commit, tables, Counts, TypeOK
  <2>2. Leaves({})
    BY <2>1 DEF Leaves, Turns
  <2> QED BY <2>2 DEF Effect, Settles
<1>3. CASE Enqueue
  <2> DEFINE new == Current(cur)
  <2>1. new \in Id /\ cur \in Key
    BY <1>3, OutboxAssumption
       DEF Enqueue, DeliveryInv, DedupInv, TypeOK, TransactionOK, Id, Scan, Current
  <2>2. outbox[new].status = "unused"
    BY <2>1 DEF DeliveryInv, Fresh
  <2>3. Turns({new}, "open")
    BY <1>0, <1>3, <2>1 DEF Enqueue, Turns, Fate, TypeOK, Current
  <2>4. Cardinality(Undelivered) < MaxPending
    BY <1>3 DEF Enqueue, Fits
  <2>5. Counts(0, 0, 0) /\ received' = received
    BY <1>0, <1>3 DEF Enqueue, Counts, TypeOK
  <2> HIDE DEF new
  <2>6. Accepts(new)
    BY <2>2, <2>3, <2>4, <2>5 DEF Accepts
  <2> QED BY <1>3, <2>1, <2>6 DEF Effect, Inserts, new
<1> QED BY <1>1, <1>2, <1>3 DEF Ingest, Project

LEMMA TimeEffect ==
  ASSUME TypeOK, Time
  PROVE  Settles
<1>1. /\ \A i \in Id : outbox'[i].status = outbox[i].status
      /\ UNCHANGED <<totals, received>>
  BY DEF Time, LeaseExpires, BecomesDue, AgeOut, tables, TypeOK, Row
<1>2. Leaves({})
  BY <1>1 DEF Leaves, Turns, Fate, Counts, TypeOK
<1> QED BY <1>2 DEF Settles

LEMMA ExportersEffect ==
  ASSUME DeliveryInv, Exporters
  PROVE  Settles
<1>0. TypeOK
  BY DEF DeliveryInv, DedupInv
<1> SUFFICES ASSUME NEW x \in Exporter,
                    \/ RunOnce(x)
                    \/ \E got \in SUBSET group[x] :
                         \/ Halt(x, got)
                         \/ \E P \in SUBSET InStatus({"delivered", "failed"}) :
                              Stop(x, got, P)
             PROVE  Settles
  BY DEF Exporters
<1>1. group[x] \subseteq Issued /\ group[x] \subseteq Id /\ invalid[x] \subseteq Id
  BY <1>0 DEF DeliveryInv, HeldIssued, Held, TypeOK
<1>2. ASSUME NEW C \in SUBSET Candidates, Claim(x, C)
      PROVE  Settles
  <2>1. Superseded \cup Aged \in SUBSET Id
    BY DEF Claimable, Superseded, Aged, Lapsed, Queued, InStatus
  <2> QED BY <1>0, <1>2, <2>1, ClaimEffect DEF Settles
<1>3. ASSUME NEW i \in invalid[x], RejectInvalid(x, i)
      PROVE  Settles
  <2>1. {i} \in SUBSET Id /\ FinishFailed(x, {i}) /\ received' = received
    BY <1>1, <1>3 DEF RejectInvalid
  <2> DEFINE own == {j \in {i} : Owned(x, j)}
  <2>2. Fails(own) /\ own \in SUBSET Id
    BY <1>0, <2>1, FinishEffect
  <2> QED BY <2>2 DEF Settles
<1>4. ASSUME NEW G \in SUBSET work[x], BeginAttempt(x, G)
      PROVE  Settles
  <2>1. Leaves({})
    BY <1>0, <1>4, TablesLeft DEF BeginAttempt, tables
  <2> QED BY <2>1 DEF Settles
<1>5. ASSUME NEW got \in SUBSET group[x], NEW r \in Reply, Answer(x, r, got)
      PROVE  Settles
  <2>1. Leaves(got)
    BY <1>0, <1>5, TablesLeft DEF Answer, tables
  <2> QED BY <1>1, <2>1 DEF Settles
<1>6. ASSUME NEW due \in BOOLEAN, Finish(x, due)
      PROVE  Settles
  <2> DEFINE own == {j \in group[x] : Owned(x, j)}
             stale == {j \in group[x] : Owned(x, j) /\ ~Latest(j)}
  <2>1. own \in SUBSET Id /\ stale \in SUBSET Id /\ received' = received
    BY <1>1, <1>6 DEF Finish
  <2>2. /\ FinishFailed(x, group[x]) => Fails(own)
        /\ FinishRetry(x, group[x], due) => Drops(stale)
        /\ FinishDelivered(x, group[x]) /\ group[x] \subseteq received => Confirms(own)
    BY <1>0, <1>1, <2>1, FinishEffect
  <2>3. Result(reply[x]) = "delivered" => group[x] \subseteq received
    <3>1. /\ reply[x] \in ReplyClass
          /\ reply[x] = "ok" => group[x] \subseteq received
      BY <1>6, OutboxAssumption DEF Finish, DeliveryInv, DedupInv, AcksReceived
    <3> QED BY <3>1 DEF Result, ReplyClass
  <2> HIDE DEF own, stale
  <2>4. Fails(own) \/ Drops(stale) \/ Confirms(own)
    BY <1>6, <2>2, <2>3 DEF Finish
  <2> QED BY <2>1, <2>4 DEF Settles
<1>7. ASSUME NEW P \in SUBSET InStatus({"delivered", "failed"}), Cleanup(x, P)
      PROVE  Settles
  <2>1. Purge(P) /\ received' = received \cup {}
    BY <1>7 DEF Cleanup
  <2>2. Leaves({})
    BY <1>0, <2>1, PurgeEffect
  <2> QED BY <2>2 DEF Settles
<1>8. ASSUME NEW got \in SUBSET group[x], Halt(x, got)
      PROVE  Settles
  <2>1. Leaves(got)
    BY <1>0, <1>8, TablesLeft DEF Halt, tables
  <2> QED BY <1>1, <2>1 DEF Settles
<1>9. ASSUME NEW got \in SUBSET group[x],
             NEW P \in SUBSET InStatus({"delivered", "failed"}), Stop(x, got, P)
      PROVE  Settles
  <2>1. Purge(P) /\ received' = received \cup got
    BY <1>9 DEF Stop
  <2>2. Leaves(got)
    BY <1>0, <2>1, PurgeEffect
  <2> QED BY <1>1, <2>2 DEF Settles
<1> QED
  BY <1>2, <1>3, <1>4, <1>5, <1>6, <1>7, <1>8, <1>9 DEF RunOnce

LEMMA StepEffect == DeliveryInv /\ Next => Effect
BY IngestEffect, TimeEffect, ExportersEffect DEF Next, DeliveryInv, DedupInv, Effect

(***************************************************************************)
(* The invariant: only Enqueue inserts a row, and workers hold only rows   *)
(* that were inserted.                                                     *)
(***************************************************************************)
LEMMA IssuedKept ==
  ASSUME TypeOK, TypeOK', Effect
  PROVE  Issued \subseteq Issued'
<1>1. \A i \in Id : /\ Fate(outbox[i]) = "unused" <=> outbox[i].status = "unused"
                    /\ Fate(outbox'[i]) = "unused" <=> outbox'[i].status = "unused"
  BY FateOfStatus DEF TypeOK
<1>2. \A i \in Id : Fate(outbox[i]) # "unused" => Fate(outbox'[i]) # "unused"
  BY DEF Effect, Settles, Inserts, Drops, Confirms, Fails, Accepts, Leaves, Turns
<1> QED BY <1>1, <1>2 DEF Issued, InStatus

LEMMA HeldNext ==
  ASSUME DeliveryInv, Next, TypeOK'
  PROVE  HeldIssued'
<1>0. TypeOK
  BY DEF DeliveryInv, DedupInv
<1>1. Issued \subseteq Issued'
  BY <1>0, StepEffect, IssuedKept
<1>2. Claimable \subseteq Issued
  BY DEF Claimable, Lapsed, Queued, Issued, InStatus
<1>3. \A x \in Exporter : Held(x)' \subseteq Held(x) \cup Claimable
  <2>1. CASE Ingest \/ Time
    <3>1. UNCHANGED <<group, work, invalid>>
      BY <2>1 DEF Ingest, Project, BeginIngest, SkipUnchanged, DropOversize, Supersede,
                  Evict, RejectNew, Enqueue, Commit, Time, LeaseExpires, BecomesDue,
                  AgeOut, workers
    <3> QED BY <3>1 DEF Held
  <2>2. CASE Exporters
    <3> SUFFICES ASSUME NEW y \in Exporter,
                        \/ RunOnce(y)
                        \/ \E got \in SUBSET group[y] :
                             \/ Halt(y, got)
                             \/ \E P \in SUBSET InStatus({"delivered", "failed"}) :
                                  Stop(y, got, P)
                 PROVE  \A x \in Exporter : Held(x)' \subseteq Held(x) \cup Claimable
      BY <2>2 DEF Exporters
    <3>1. ASSUME NEW C \in SUBSET Candidates, Claim(y, C)
          PROVE  \A x \in Exporter : Held(x)' \subseteq Held(x) \cup Claimable
      <4>1. C \subseteq Claimable
        BY DEF Candidates
      <4> QED BY <1>0, <3>1, <4>1 DEF Claim, Held, TypeOK
    <3>2. ASSUME NEW i \in invalid[y], RejectInvalid(y, i)
          PROVE  \A x \in Exporter : Held(x)' \subseteq Held(x) \cup Claimable
      BY <1>0, <3>2 DEF RejectInvalid, Held, TypeOK
    <3>3. ASSUME NEW G \in SUBSET work[y], BeginAttempt(y, G)
          PROVE  \A x \in Exporter : Held(x)' \subseteq Held(x) \cup Claimable
      BY <1>0, <3>3 DEF BeginAttempt, Held, TypeOK
    <3>4. ASSUME NEW got \in SUBSET group[y], NEW r \in Reply, Answer(y, r, got)
          PROVE  \A x \in Exporter : Held(x)' \subseteq Held(x) \cup Claimable
      BY <3>4 DEF Answer, Held
    <3>5. ASSUME NEW due \in BOOLEAN, Finish(y, due)
          PROVE  \A x \in Exporter : Held(x)' \subseteq Held(x) \cup Claimable
      <4>1. group' = [group EXCEPT ![y] = {}] /\ UNCHANGED <<work, invalid>>
        BY <3>5 DEF Finish
      <4> QED BY <1>0, <4>1 DEF Held, TypeOK
    <3>6. ASSUME NEW P \in SUBSET InStatus({"delivered", "failed"}), Cleanup(y, P)
          PROVE  \A x \in Exporter : Held(x)' \subseteq Held(x) \cup Claimable
      BY <3>6 DEF Cleanup, Held
    <3>7. ASSUME NEW got \in SUBSET group[y], Halt(y, got)
          PROVE  \A x \in Exporter : Held(x)' \subseteq Held(x) \cup Claimable
      BY <1>0, <3>7 DEF Halt, Held, TypeOK
    <3>8. ASSUME NEW got \in SUBSET group[y],
                 NEW P \in SUBSET InStatus({"delivered", "failed"}), Stop(y, got, P)
          PROVE  \A x \in Exporter : Held(x)' \subseteq Held(x) \cup Claimable
      BY <1>0, <3>8 DEF Stop, Held, TypeOK
    <3> QED
      BY <3>1, <3>2, <3>3, <3>4, <3>5, <3>6, <3>7, <3>8 DEF RunOnce
  <2> QED BY <2>1, <2>2 DEF Next
<1> QED BY <1>1, <1>2, <1>3 DEF HeldIssued, DeliveryInv

LEMMA SettlesInsertsNothing ==
  ASSUME TypeOK, TypeOK', Settles, NEW i \in Id, outbox[i].status = "unused"
  PROVE  outbox'[i].status = "unused"
<1>1. /\ Fate(outbox[i]) = "unused" <=> outbox[i].status = "unused"
      /\ Fate(outbox'[i]) = "unused" <=> outbox'[i].status = "unused"
  BY FateOfStatus DEF TypeOK
<1>2. i \notin Undelivered
  BY DEF Undelivered, InStatus
<1>3. Fate(outbox'[i]) = Fate(outbox[i])
  BY <1>2 DEF Settles, Drops, Confirms, Fails, Leaves, Turns
<1> QED BY <1>1, <1>3

LEMMA FreshNext ==
  ASSUME DeliveryInv, Next, TypeOK'
  PROVE  Fresh'
<1>0. TypeOK /\ TransactionOK /\ IssuedBefore /\ Fresh
  BY DEF DeliveryInv, DedupInv
<1>1. scans \in Nat /\ \A k \in Key : None # k
  BY <1>0, NoneFresh, OutboxAssumption DEF TypeOK
<1>2. \A k \in Key : (k \in todo \/ k = cur) => Current(k) \in Id
  BY <1>0, <1>1, NoneFresh, OutboxAssumption
     DEF TypeOK, TransactionOK, Current, Id, Scan
<1>3. CASE \E d \in Device : \E f \in Reconciled(d) : BeginIngest(d, f)
  <2>1. /\ cur' = cur /\ cur = None /\ scans' = scans + 1 /\ scans < MaxScans
        /\ Settles
    <3>1. cur' = cur /\ scans' = scans + 1 /\ scans < MaxScans /\ writer = None /\ ~Enqueue
      BY <1>0, <1>3 DEF BeginIngest, Enqueue, TransactionOK
    <3>2. cur = None
      BY <1>0, <3>1 DEF TransactionOK
    <3> QED BY <3>1, <3>2, StepEffect DEF Effect, Inserts
  <2>2. \A k \in Key : [key |-> k, at |-> scans + 1] \in Id
    BY <1>1, <2>1, OutboxAssumption DEF Id, Scan
  <2>3. \A k \in Key : outbox[[key |-> k, at |-> scans + 1]].status = "unused"
    BY <1>0, <1>1, <2>2 DEF IssuedBefore
  <2>4. \A k \in Key : outbox'[[key |-> k, at |-> scans + 1]].status = "unused"
    BY <1>0, <2>1, <2>2, <2>3, SettlesInsertsNothing
  <2>5. todo' \subseteq Key
    BY DEF TypeOK
  <2> QED BY <1>1, <2>1, <2>4, <2>5 DEF Fresh, Current
<1>4. CASE Enqueue
  <2>2. cur' = None /\ todo' = todo /\ scans' = scans
    BY <1>4 DEF Enqueue
  <2>3. ASSUME NEW k \in todo
        PROVE  outbox'[Current(k)].status = "unused"
    <3>1. k \in Key /\ k # cur /\ Current(k) \in Id /\ outbox[Current(k)].status = "unused"
      BY <1>0, <1>2 DEF Fresh, TypeOK
    <3>2. outbox' = [outbox EXCEPT ![Current(cur)] = outbox'[Current(cur)]]
      BY <1>0, <1>4 DEF Enqueue, Current, TypeOK
    <3> QED BY <1>0, <3>1, <3>2 DEF Current, TypeOK
  <2> QED BY <1>0, <1>1, <2>2, <2>3 DEF Fresh, Current, TypeOK
<1>5. CASE ~Enqueue /\ ~\E d \in Device : \E f \in Reconciled(d) : BeginIngest(d, f)
  <2>1. Settles
    BY <1>5, StepEffect DEF Effect, Inserts
  <2>2. scans' = scans /\ todo' \subseteq todo /\ cur' \notin todo'
        /\ (cur' = cur \/ cur' = None \/ cur' \in todo)
    <3>1. CASE Project
      BY <1>0, <1>1, <1>5, <3>1
         DEF Project, SkipUnchanged, DropOversize, Supersede, NextKey, Evict, RejectNew,
             Commit, Fresh, TypeOK, server
    <3>2. CASE Time \/ Exporters
      <4>1. UNCHANGED server
        <5>1. CASE Time
          BY <5>1 DEF Time, LeaseExpires, BecomesDue, AgeOut
        <5>2. CASE Exporters
          BY <5>2, Zenon DEF Exporters, RunOnce, Claim, RejectInvalid, BeginAttempt, Answer,
                      Finish, Cleanup, Halt, Stop
        <5> QED BY <3>2, <5>1, <5>2
      <4> QED BY <1>0, <4>1 DEF server, Fresh
    <3> QED BY <1>5, <3>1, <3>2 DEF Next, Ingest
  <2>3. ASSUME NEW k \in Key, k \in todo' \/ k = cur'
        PROVE  outbox'[Current(k)].status = "unused"
    <3>1. Current(k) \in Id /\ outbox[Current(k)].status = "unused"
      BY <1>0, <1>1, <1>2, <2>2, <2>3 DEF Fresh
    <3> QED BY <1>0, <2>1, <3>1, SettlesInsertsNothing
  <2> QED BY <2>2, <2>3 DEF Fresh, Current
<1> QED BY <1>3, <1>4, <1>5

LEMMA DeliveryInit == Init => DeliveryInv
<1> SUFFICES ASSUME Init PROVE Fresh /\ HeldIssued
  BY DedupInit DEF DeliveryInv
<1> QED BY NoneFresh DEF Init, Fresh, HeldIssued, Held

LEMMA DeliveryNext == DeliveryInv /\ [Next]_vars => DeliveryInv'
<1> SUFFICES ASSUME DeliveryInv, [Next]_vars PROVE DeliveryInv'
  OBVIOUS
<1>1. DedupInv'
  BY DedupNext DEF DeliveryInv
<1>2. CASE Next
  BY <1>1, <1>2, FreshNext, HeldNext DEF DeliveryInv, DedupInv
<1>3. CASE UNCHANGED vars
  BY <1>1, <1>3 DEF DeliveryInv, Fresh, Current, HeldIssued, Held, Issued, InStatus,
                    vars, tables, server, workers
<1> QED BY <1>2, <1>3

LEMMA DeliveryAlways == Spec => []DeliveryInv
BY DeliveryInit, DeliveryNext, PTL DEF Spec

(***************************************************************************)
(* Refinement of EventDelivery.                                            *)
(***************************************************************************)
FatesAre(open, done, lost) ==
  /\ open = {i \in Id : Fate(outbox[i]) = "open"}
  /\ done = {i \in Id : Fate(outbox[i]) = "delivered"}
  /\ lost = {i \in Id : Fate(outbox[i]) \in {"failed", "dropped"}}

LEMMA RowsByFate ==
  ASSUME TypeOK
  PROVE  /\ FatesAre(Undelivered, InStatus({"delivered", "purged"}),
                     InStatus({"failed", "dropped", "discarded"}))
         /\ Issued = {i \in Id : Fate(outbox[i]) # "unused"}
<1>1. \A i \in Id : outbox[i] \in Row
  BY DEF TypeOK
<1> QED BY <1>1, FateOfStatus DEF FatesAre, Undelivered, Issued, InStatus

LEMMA DeliverySteps ==
  ASSUME DeliveryInv, TypeOK', Next
  PROVE  Delivery!Next \/ UNCHANGED Delivery!vars
<1> DEFINE open == Undelivered
           done == InStatus({"delivered", "purged"})
           lost == InStatus({"failed", "dropped", "discarded"})
<1>0. TypeOK
  BY DEF DeliveryInv, DedupInv
<1>1. FatesAre(open, done, lost) /\ FatesAre(open, done, lost)'
  <2>1. FatesAre(open, done, lost)
    BY <1>0, RowsByFate
  <2>2. \A i \in Id : outbox'[i] \in Row
    BY DEF TypeOK
  <2>3. FatesAre(open, done, lost)'
    BY <2>2, FateOfStatus DEF FatesAre, Undelivered, InStatus
  <2> QED BY <2>1, <2>3
<1>2. open \cup done \cup lost = Issued
  <2>1. \A i \in Id : outbox[i] \in Row
    BY <1>0 DEF TypeOK
  <2> QED BY <2>1 DEF Row, Status, Issued, InStatus, Undelivered
<1>3. Effect
  BY StepEffect
<1> HIDE DEF open, done, lost
<1>4. ASSUME NEW S \in SUBSET Id, Drops(S) \/ Fails(S)
      PROVE  Delivery!Abandon(S)
  <2>1. /\ S \subseteq open
        /\ Turns(S, "dropped") \/ Turns(S, "failed")
        /\ received' = received
    BY <1>4 DEF Drops, Fails, open
  <2>2. \A i \in S : Fate(outbox[i]) = "open"
    BY <1>1, <2>1 DEF FatesAre
  <2>3. open' = open \ S /\ lost' = lost \cup S /\ done' = done
    BY <1>1, <2>1, <2>2 DEF FatesAre, Turns
  <2> QED BY <2>1, <2>3 DEF Delivery!Abandon, open, done, lost
<1>5. ASSUME NEW S \in SUBSET Id, Confirms(S)
      PROVE  Delivery!Confirm(S)
  <2>1. S \subseteq open /\ S \subseteq received /\ Turns(S, "delivered") /\ received' = received
    BY <1>5 DEF Confirms, open
  <2>2. \A i \in S : Fate(outbox[i]) = "open"
    BY <1>1, <2>1 DEF FatesAre
  <2>3. open' = open \ S /\ done' = done \cup S /\ lost' = lost
    BY <1>1, <2>1, <2>2 DEF FatesAre, Turns
  <2> QED BY <2>1, <2>3 DEF Delivery!Confirm, open, done, lost
<1>6. ASSUME NEW got \in SUBSET Issued, Leaves(got)
      PROVE  Delivery!Receive(got)
  <2>1. open' = open /\ done' = done /\ lost' = lost
    BY <1>1, <1>6 DEF FatesAre, Turns, Leaves
  <2> QED BY <1>2, <1>6, <2>1 DEF Delivery!Receive, Delivery!Accepted, Leaves, open, done, lost
<1>7. ASSUME NEW i \in Id, Accepts(i)
      PROVE  Delivery!Accept(i)
  <2>1. Fate(outbox[i]) = "unused" /\ i \notin Issued
    BY <1>7 DEF Accepts, Fate, Issued, InStatus
  <2>2. open' = open \cup {i} /\ done' = done /\ lost' = lost
    BY <1>1, <1>7, <2>1 DEF FatesAre, Turns, Accepts
  <2> QED BY <1>2, <1>7, <2>1, <2>2 DEF Delivery!Accept, Delivery!Accepted, Accepts, open, done, lost
<1>8. Issued \subseteq Id
  BY DEF Issued
<1> QED BY <1>3, <1>4, <1>5, <1>6, <1>7, <1>8 DEF Effect, Settles, Inserts, Delivery!Next

(* Whatever workers, crashes and limits do to the tables, every event lives as
   EventDelivery allows: it stays open until a confirmed delivery, which the
   collector had accepted, or until it is given up, and never comes back. *)
THEOREM OutboxImplementsDelivery == Spec => AtLeastOnce
<1>1. Init => Delivery!Init
  BY DEF Init, Delivery!Init, Undelivered, InStatus, Blank
<1>2. DeliveryInv /\ DeliveryInv' /\ [Next]_vars => [Delivery!Next]_(Delivery!vars)
  <2> SUFFICES ASSUME DeliveryInv, DeliveryInv', [Next]_vars
               PROVE  [Delivery!Next]_(Delivery!vars)
    OBVIOUS
  <2>1. CASE Next
    BY <2>1, DeliverySteps DEF DeliveryInv, DedupInv
  <2>2. CASE UNCHANGED vars
    BY <2>2 DEF vars, tables, Delivery!vars, Undelivered, InStatus
  <2> QED BY <2>1, <2>2
<1> QED BY <1>1, <1>2, DeliveryAlways, PTL DEF Spec, AtLeastOnce, Delivery!Spec

(***************************************************************************)
(* Leases.                                                                 *)
(***************************************************************************)
DecidesOwn(i) ==
  LET x == outbox[i].lease IN
    \/ i \in group[x] /\ pc[x] = "finish" /\ pc'[x] # "finish"
    \/ i \in invalid[x] /\ i \notin invalid'[x]

LEMMA LeaseStep ==
  ASSUME DeliveryInv, Next, NEW i \in Id,
         outbox[i].status = "sending", outbox[i].live, outbox'[i].status # "sending"
  PROVE  DecidesOwn(i)
<1>0. TypeOK /\ TransactionOK /\ Fresh
  BY DEF DeliveryInv, DedupInv
<1>1. i \notin Queued /\ i \notin Claimable /\ outbox'[i] # outbox[i]
  BY DEF Queued, Claimable, Lapsed, InStatus
<1>2. \A D \in SUBSET Queued : ~DropRows(D)
  BY <1>1 DEF DropRows
<1>3. CASE Ingest
  <2>1. ASSUME NEW d \in Device, NEW f \in Reconciled(d), BeginIngest(d, f)
        PROVE  FALSE
    BY <1>2, <2>1, Zenon DEF BeginIngest
  <2>2. ASSUME NEW k \in Key, Supersede(k)
        PROVE  FALSE
    BY <1>2, <2>2, Zenon DEF Supersede
  <2>3. ASSUME NEW j \in Id, Evict(j)
        PROVE  FALSE
    <3>1. {j} \in SUBSET Queued /\ DropRows({j})
      BY <2>3 DEF Evict, Oldest
    <3> QED BY <1>2, <3>1
  <2>4. ASSUME NEW k \in Key, SkipUnchanged(k) \/ DropOversize(k)
        PROVE  FALSE
    BY <1>1, <2>4 DEF SkipUnchanged, DropOversize, tables
  <2>5. ~RejectNew /\ ~Commit
    BY <1>1 DEF RejectNew, Commit, tables
  <2>6. ASSUME Enqueue
        PROVE  FALSE
    <3>1. cur \in Key
      BY <1>0, <2>6 DEF Enqueue, TypeOK
    <3>2. outbox[Current(cur)].status = "unused"
      BY <1>0, <3>1 DEF Fresh
    <3>3. i = Current(cur)
      BY <1>0, <1>1, <2>6 DEF Enqueue, Current, TypeOK
    <3> QED BY <3>2, <3>3
  <2> QED BY <1>3, <2>1, <2>2, <2>3, <2>4, <2>5, <2>6 DEF Ingest, Project
<1>4. CASE Time
  <2>1. \A j \in Id : outbox'[j].status = outbox[j].status
    BY <1>0, <1>4 DEF Time, LeaseExpires, BecomesDue, AgeOut, tables, TypeOK, Row
  <2> QED BY <2>1
<1>5. CASE Exporters
  <2> SUFFICES ASSUME NEW x \in Exporter,
                      \/ RunOnce(x)
                      \/ \E got \in SUBSET group[x] :
                           \/ Halt(x, got)
                           \/ \E P \in SUBSET InStatus({"delivered", "failed"}) :
                                Stop(x, got, P)
               PROVE  DecidesOwn(i)
    BY <1>5 DEF Exporters
  <2>1. ASSUME NEW C \in SUBSET Candidates, Claim(x, C)
        PROVE  FALSE
    <3>1. /\ i \notin Superseded \cup Aged /\ i \notin C /\ i \notin Lapsed
      BY <1>1 DEF Superseded, Aged, Candidates, Claimable
    <3>2. outbox'[i] = IF i \in Superseded \cup Aged THEN Dropped
                       ELSE IF i \in C THEN Leased(outbox[i], x)
                       ELSE IF i \in Lapsed THEN Waiting(outbox[i], TRUE)
                       ELSE outbox[i]
      BY <2>1 DEF Claim
    <3> QED BY <1>1, <3>1, <3>2
  <2>2. ASSUME NEW j \in invalid[x], RejectInvalid(x, j)
        PROVE  DecidesOwn(i)
    <3>1. i \in {j} /\ Owned(x, i)
      BY <1>1, <2>2 DEF RejectInvalid, FinishFailed
    <3>2. outbox[i].lease = x /\ i \in invalid[x] /\ i \notin invalid'[x]
      BY <1>0, <2>2, <3>1 DEF RejectInvalid, Owned, TypeOK
    <3> QED BY <3>2 DEF DecidesOwn
  <2>3. ASSUME NEW due \in BOOLEAN, Finish(x, due)
        PROVE  DecidesOwn(i)
    <3>1. i \in group[x] /\ Owned(x, i)
      <4>1. \/ FinishFailed(x, group[x]) \/ FinishDelivered(x, group[x])
            \/ FinishRetry(x, group[x], due)
        BY <2>3 DEF Finish
      <4> QED BY <1>1, <4>1 DEF FinishFailed, FinishDelivered, FinishRetry
    <3>2. outbox[i].lease = x /\ pc[x] = "finish" /\ pc'[x] = "batch"
      BY <1>0, <2>3, <3>1 DEF Finish, Owned, TypeOK
    <3> QED BY <3>1, <3>2 DEF DecidesOwn
  <2>4. ASSUME NEW P \in SUBSET InStatus({"delivered", "failed"}), Purge(P)
        PROVE  FALSE
    <3>1. i \notin P
      BY DEF InStatus
    <3> QED BY <1>1, <2>4, <3>1 DEF Purge
  <2>5. ASSUME NEW P \in SUBSET InStatus({"delivered", "failed"}),
               Cleanup(x, P) \/ \E got \in SUBSET group[x] : Stop(x, got, P)
        PROVE  FALSE
    BY <2>4, <2>5 DEF Cleanup, Stop
  <2>6. ASSUME \/ \E G \in SUBSET work[x] : BeginAttempt(x, G)
               \/ \E got \in SUBSET group[x] : Halt(x, got) \/ \E r \in Reply : Answer(x, r, got)
        PROVE  FALSE
    BY <1>1, <2>6 DEF BeginAttempt, Halt, Answer, tables
  <2> QED BY <2>1, <2>2, <2>3, <2>5, <2>6 DEF RunOnce
<1> QED BY <1>3, <1>4, <1>5 DEF Next

(* Only the worker that holds an unexpired lease on a row, at the end of its
   request or when it cannot encode the row, takes the row out of "sending". *)
THEOREM LeasesAreExclusive == Spec => LeaseExclusive
<1> DEFINE Decided == \A i \in Id :
             (outbox[i].status = "sending" /\ outbox[i].live
                /\ outbox'[i].status # "sending") => DecidesOwn(i)
<1>1. DeliveryInv /\ [Next]_vars => Decided \/ UNCHANGED vars
  BY LeaseStep
<1>2. Spec => [][Decided]_vars
  BY <1>1, DeliveryAlways, PTL DEF Spec
<1> QED BY <1>2 DEF LeaseExclusive, DecidesOwn

(***************************************************************************)
(* Replaced states.                                                        *)
(***************************************************************************)
ClaimsNewest(x) == \A i \in (work'[x] \cup invalid'[x]) \ (work[x] \cup invalid[x]) :
                 \A j \in Issued : j.key = i.key => j.at <= i.at

LEMMA ClaimIsCurrent ==
  ASSUME DeliveryInv, Next, NEW x \in Exporter
  PROVE  ClaimsNewest(x)
<1>0. TypeOK
  BY DEF DeliveryInv, DedupInv
<1>1. CASE Ingest \/ Time
  <2>1. UNCHANGED <<work, invalid>>
    BY <1>1 DEF Ingest, Project, BeginIngest, SkipUnchanged, DropOversize, Supersede,
                Evict, RejectNew, Enqueue, Commit, Time, LeaseExpires, BecomesDue,
                AgeOut, workers
  <2> QED BY <2>1 DEF ClaimsNewest
<1>2. CASE Exporters
  <2> SUFFICES ASSUME NEW y \in Exporter,
                      \/ RunOnce(y)
                      \/ \E got \in SUBSET group[y] :
                           \/ Halt(y, got)
                           \/ \E P \in SUBSET InStatus({"delivered", "failed"}) :
                                Stop(y, got, P)
               PROVE  ClaimsNewest(x)
    BY <1>2 DEF Exporters
  <2>1. ASSUME NEW C \in SUBSET Candidates, Claim(y, C)
        PROVE  ClaimsNewest(x)
    <3>1. (work'[x] \cup invalid'[x]) \ (work[x] \cup invalid[x]) \subseteq C
      BY <1>0, <2>1 DEF Claim, TypeOK
    <3>2. ASSUME NEW i \in C, NEW j \in Issued, j.key = i.key
          PROVE  j.at <= i.at
      <4>1. i \in Id /\ asset_state[i.key].at = i.at /\ i.key \in Key /\ i.at # 0
        BY DEF Candidates, Claimable, Superseded, Lapsed, Queued, InStatus, Latest, Id, Scan
      <4>2. Vouched(i.key)
        BY <4>1 DEF DeliveryInv, DedupInv, AllVouched, NoState
      <4> QED BY <3>2, <4>1, <4>2 DEF Vouched, Issued, InStatus
    <3> QED BY <3>1, <3>2 DEF ClaimsNewest
  <2>2. ASSUME NEW i \in invalid[y], RejectInvalid(y, i)
        PROVE  ClaimsNewest(x)
    BY <1>0, <2>2 DEF RejectInvalid, ClaimsNewest, TypeOK
  <2>3. ASSUME NEW G \in SUBSET work[y], BeginAttempt(y, G)
        PROVE  ClaimsNewest(x)
    BY <1>0, <2>3 DEF BeginAttempt, ClaimsNewest, TypeOK
  <2>4. ASSUME \/ \E got \in SUBSET group[y] : \E r \in Reply : Answer(y, r, got)
               \/ \E due \in BOOLEAN : Finish(y, due)
               \/ \E P \in SUBSET InStatus({"delivered", "failed"}) : Cleanup(y, P)
        PROVE  ClaimsNewest(x)
    <3>1. UNCHANGED <<work, invalid>>
      BY <2>4 DEF Answer, Finish, Cleanup
    <3> QED BY <3>1 DEF ClaimsNewest
  <2>5. ASSUME NEW got \in SUBSET group[y],
               Halt(y, got) \/ \E P \in SUBSET InStatus({"delivered", "failed"}) : Stop(y, got, P)
        PROVE  ClaimsNewest(x)
    BY <1>0, <2>5 DEF Halt, Stop, ClaimsNewest, TypeOK
  <2> QED BY <2>1, <2>2, <2>3, <2>4, <2>5 DEF RunOnce
<1> QED BY <1>1, <1>2 DEF Next

(* A worker that claims rows gets the newest event of each of their keys, even
   if newer ones were delivered, failed or purged in between. *)
THEOREM ClaimsAreCurrent == Spec => NoStaleClaim
<1> DEFINE Newest == \A x \in Exporter : ClaimsNewest(x)
<1>1. DeliveryInv /\ [Next]_vars => Newest \/ UNCHANGED vars
  BY ClaimIsCurrent
<1>2. Spec => [][Newest]_vars
  BY <1>1, DeliveryAlways, PTL DEF Spec
<1> QED BY <1>2 DEF NoStaleClaim, ClaimsNewest

(***************************************************************************)
(* Counting.                                                               *)
(***************************************************************************)
OfFate(f) == {i \in Id : Fate(outbox[i]) = f}
Open == OfFate("open")
Done == OfFate("delivered")
Failed == OfFate("failed")
Lost == OfFate("dropped")

LEMMA OfFateRows ==
  ASSUME TypeOK
  PROVE  /\ OfFate("open") = Undelivered
         /\ OfFate("delivered") = InStatus({"delivered", "purged"})
         /\ OfFate("failed") = InStatus({"failed", "discarded"})
         /\ OfFate("dropped") = InStatus({"dropped"})
<1>1. \A i \in Id : outbox[i] \in Row
  BY DEF TypeOK
<1> QED BY <1>1, FateOfStatus DEF OfFate, Undelivered, InStatus

(* A step that turns a set of open rows adds as many rows to their new fate. *)
LEMMA Joined ==
  ASSUME NEW A \in SUBSET Id, NEW S \in SUBSET Id, A \cap S = {}
  PROVE  Cardinality(A \cup S) = Cardinality(A) + Cardinality(S)
<1>1. IsFiniteSet(A) /\ IsFiniteSet(S)
  BY IdFinite, FS_Subset
<1>2. /\ Cardinality(A \cup S) = Cardinality(A) + Cardinality(S) - Cardinality(A \cap S)
      /\ Cardinality(A) \in Nat /\ Cardinality(S) \in Nat
  BY <1>1, FS_Union, FS_CardinalityType
<1>3. Cardinality(A \cap S) = 0
  BY FS_EmptySet
<1> QED BY <1>2, <1>3

LEMMA Fewer ==
  ASSUME NEW B \in SUBSET Id, NEW A \in SUBSET B
  PROVE  Cardinality(A) <= Cardinality(B)
BY IdFinite, FS_Subset

Tallied ==
  /\ totals.delivered = Cardinality(Done)
  /\ totals.failed = Cardinality(Failed)
  /\ totals.dropped >= Cardinality(Lost)
  /\ Cardinality(Open) <= MaxPending

LEMMA TalliedNext ==
  ASSUME DeliveryInv, Tallied, Effect, TypeOK'
  PROVE  Tallied'
<1>0. TypeOK
  BY DEF DeliveryInv, DedupInv
<1> USE DEF Open, Done, Failed, Lost
<1>1. /\ Open \in SUBSET Id /\ Done \in SUBSET Id /\ Failed \in SUBSET Id /\ Lost \in SUBSET Id
      /\ Cardinality(Open) \in Nat /\ Cardinality(Done) \in Nat
      /\ Cardinality(Failed) \in Nat /\ Cardinality(Lost) \in Nat
  <2>1. Open \in SUBSET Id /\ Done \in SUBSET Id /\ Failed \in SUBSET Id /\ Lost \in SUBSET Id
    BY DEF OfFate
  <2> HIDE DEF Open, Done, Failed, Lost
  <2> QED BY <2>1, RowsCounted
<1>2. /\ MaxPending \in Nat
      /\ totals.delivered \in Nat /\ totals.failed \in Nat /\ totals.dropped \in Nat
      /\ totals'.dropped \in Nat
  BY <1>0, OutboxAssumption DEF TypeOK
<1>3. ASSUME NEW S \in SUBSET Id, NEW fate \in {"dropped", "failed", "delivered"},
             S \subseteq Undelivered, Turns(S, fate)
      PROVE  /\ OfFate(fate)' = OfFate(fate) \cup S /\ OfFate(fate) \cap S = {}
             /\ \A f \in {"dropped", "failed", "delivered"} : f # fate => OfFate(f)' = OfFate(f)
             /\ Open' \subseteq Open
  <2>1. \A i \in S : Fate(outbox[i]) = "open"
    BY <1>0, <1>3, OfFateRows DEF OfFate
  <2> QED BY <1>3, <2>1 DEF Turns, OfFate
<1> HIDE DEF Open, Done, Failed, Lost
<1>4. ASSUME NEW S \in SUBSET Id, Drops(S) \/ Confirms(S) \/ Fails(S)
      PROVE  Tallied'
  <2>0. Cardinality(S) \in Nat
    BY RowsCounted
  <2>1. CASE Drops(S)
    <3>1. S \subseteq Undelivered /\ Turns(S, "dropped") /\ Counts(0, 0, Cardinality(S))
      BY <2>1 DEF Drops
    <3>2. /\ Lost' = Lost \cup S /\ Lost \cap S = {}
          /\ Failed' = Failed /\ Done' = Done
          /\ Open' \subseteq Open
      BY <1>3, <3>1 DEF Open, Done, Failed, Lost
    <3>3. Cardinality(Lost') = Cardinality(Lost) + Cardinality(S)
      BY <1>1, <3>2, Joined
    <3>4. Cardinality(Open') <= Cardinality(Open)
      BY <1>1, <3>2, Fewer
    <3>5. Cardinality(Open') \in Nat /\ totals'.dropped >= totals.dropped + Cardinality(S)
      BY <1>1, <3>1, <3>2, RowsCounted DEF Counts
    <3> QED BY <1>1, <1>2, <2>0, <3>1, <3>2, <3>3, <3>4, <3>5 DEF Counts, Tallied
  <2>2. CASE Confirms(S)
    <3>1. S \subseteq Undelivered /\ Turns(S, "delivered") /\ Counts(Cardinality(S), 0, 0)
      BY <2>2 DEF Confirms
    <3>2. /\ Done' = Done \cup S /\ Done \cap S = {}
          /\ Failed' = Failed /\ Lost' = Lost
          /\ Open' \subseteq Open
      BY <1>3, <3>1 DEF Open, Done, Failed, Lost
    <3>3. Cardinality(Done') = Cardinality(Done) + Cardinality(S)
      BY <1>1, <3>2, Joined
    <3>4. Cardinality(Open') <= Cardinality(Open)
      BY <1>1, <3>2, Fewer
    <3>5. Cardinality(Open') \in Nat
      BY <1>1, <3>2, RowsCounted
    <3> QED BY <1>1, <1>2, <2>0, <3>1, <3>2, <3>3, <3>4, <3>5 DEF Counts, Tallied
  <2>3. CASE Fails(S)
    <3>1. S \subseteq Undelivered /\ Turns(S, "failed") /\ Counts(0, Cardinality(S), 0)
      BY <2>3 DEF Fails
    <3>2. /\ Failed' = Failed \cup S /\ Failed \cap S = {}
          /\ Done' = Done /\ Lost' = Lost
          /\ Open' \subseteq Open
      BY <1>3, <3>1 DEF Open, Done, Failed, Lost
    <3>3. Cardinality(Failed') = Cardinality(Failed) + Cardinality(S)
      BY <1>1, <3>2, Joined
    <3>4. Cardinality(Open') <= Cardinality(Open)
      BY <1>1, <3>2, Fewer
    <3>5. Cardinality(Open') \in Nat
      BY <1>1, <3>2, RowsCounted
    <3> QED BY <1>1, <1>2, <2>0, <3>1, <3>2, <3>3, <3>4, <3>5 DEF Counts, Tallied
  <2> QED BY <1>4, <2>1, <2>2, <2>3
<1>5. ASSUME NEW got \in SUBSET Issued, Leaves(got)
      PROVE  Tallied'
  <2>1. UNCHANGED <<Open, Done, Failed, Lost>>
    BY <1>5 DEF Leaves, Turns, OfFate, Open, Done, Failed, Lost
  <2>2. Counts(0, 0, 0)
    BY <1>5 DEF Leaves
  <2> QED BY <1>1, <1>2, <2>1, <2>2 DEF Counts, Tallied
<1>6. ASSUME NEW i \in Id, Accepts(i)
      PROVE  Tallied'
  <2>1. Fate(outbox[i]) = "unused" /\ Turns({i}, "open") /\ Counts(0, 0, 0)
    BY <1>6 DEF Accepts, Fate
  <2>2. /\ UNCHANGED <<Done, Failed, Lost>>
        /\ Open' = Open \cup {i} /\ Open \cap {i} = {}
    BY <2>1 DEF Turns, OfFate, Open, Done, Failed, Lost
  <2>3. Cardinality(Open') = Cardinality(Open) + 1
    <3>1. Cardinality({i}) = 1
      BY FS_Singleton
    <3> QED BY <1>1, <2>2, <3>1, Joined
  <2>4. Cardinality(Open) < MaxPending
    BY <1>0, <1>6, OfFateRows DEF Accepts, Open
  <2> QED BY <1>1, <1>2, <2>1, <2>2, <2>3, <2>4 DEF Counts, Tallied
<1> QED BY <1>4, <1>5, <1>6 DEF Effect, Settles, Inserts

LEMMA TalliedAlways == Spec => [](TypeOK /\ Tallied)
<1>1. Init => Tallied
  <2> SUFFICES ASSUME Init PROVE Tallied
    OBVIOUS
  <2>1. Open = {} /\ Done = {} /\ Failed = {} /\ Lost = {}
    BY DEF Init, OfFate, Fate, Blank, Open, Done, Failed, Lost
  <2>2. MaxPending \in Nat
    BY OutboxAssumption
  <2> QED BY <2>1, <2>2, FS_EmptySet DEF Init, Tallied
<1>2. DeliveryInv /\ DeliveryInv' /\ Tallied /\ [Next]_vars => Tallied'
  <2> SUFFICES ASSUME DeliveryInv, DeliveryInv', Tallied, [Next]_vars PROVE Tallied'
    OBVIOUS
  <2>1. CASE Next
    BY <2>1, StepEffect, TalliedNext DEF DeliveryInv, DedupInv
  <2>2. CASE UNCHANGED vars
    BY <2>2 DEF vars, tables, Tallied, OfFate, Open, Done, Failed, Lost
  <2> QED BY <2>1, <2>2
<1>3. DeliveryInv => TypeOK
  BY DEF DeliveryInv, DedupInv
<1> QED BY <1>1, <1>2, <1>3, DeliveryAlways, PTL DEF Spec

(* The counters an operator reads agree with the fate of every row: nothing
   disappears unaccounted, nothing is counted twice. *)
THEOREM EveryEventAccounted == Spec => []Accounted
<1>1. TypeOK /\ Tallied => Accounted
  BY OfFateRows DEF Tallied, Accounted, Done, Failed, Lost
<1> QED BY <1>1, TalliedAlways, PTL

(***************************************************************************)
(* The bytes of the queue: a row keeps its hash while it is undelivered,   *)
(* so only Enqueue adds to their sum, by as much as Fits allowed.          *)
(***************************************************************************)
Hashed == \A i \in Undelivered : outbox[i].hash \in Payload
Sized == Hashed /\ PayloadBytes(Undelivered) <= MaxBytes

KeepsHashes ==
  \A i \in Undelivered' : i \in Undelivered /\ outbox'[i].hash = outbox[i].hash

LEMMA RowHashes ==
  /\ Dropped.status = "dropped"
  /\ \A r \in Row :
       /\ \A x \in Exporter : Leased(r, x).hash = r.hash
       /\ \A due \in BOOLEAN : Waiting(r, due).hash = r.hash
       /\ \A st \in Status : Closed(r, st).status = st
       /\ Deleted(r).status \in {"purged", "discarded"}
BY DEF Row, Status, Leased, Waiting, Closed, Deleted, Dropped, Blank

(* Rows that leave the queue, and rows that stay in it with their hash. *)
LEMMA HashesKept ==
  ASSUME TypeOK, NEW gone \in SUBSET Id,
         \A i \in gone : outbox'[i].status \notin {"pending", "retry", "sending"},
         \A i \in Id \ gone :
            \/ outbox'[i] = outbox[i]
            \/ i \in Undelivered /\ outbox'[i].hash = outbox[i].hash
  PROVE  KeepsHashes
BY DEF KeepsHashes, Undelivered, InStatus

LEMMA SizesKept ==
  ASSUME TypeOK, Sized, KeepsHashes
  PROVE  Sized'
<1> DEFINE w == [i \in Undelivered |-> Bytes[outbox[i].hash]]
           v == [i \in Undelivered' |-> Bytes[outbox'[i].hash]]
<1>1. Undelivered' \in SUBSET Undelivered /\ IsFiniteSet(Undelivered)
  <2>1. Undelivered \in SUBSET Id
    BY DEF Undelivered, InStatus
  <2> QED BY <2>1, IdFinite, FS_Subset DEF KeepsHashes
<1>2. /\ \A i \in Undelivered : w[i] \in Nat
      /\ \A i \in Undelivered' : v[i] \in Nat /\ v[i] <= w[i]
  BY OutboxAssumption DEF Sized, Hashed, KeepsHashes
<1>3. PayloadBytes(Undelivered) = SumFunctionOnSet(w, Undelivered)
  BY DEF PayloadBytes, SumFunction
<1>4. PayloadBytes(Undelivered)' = SumFunctionOnSet(v, Undelivered')
  BY DEF PayloadBytes, SumFunction
<1> HIDE DEF w, v
<1>5. SumFunctionOnSet(v, Undelivered') <= SumFunctionOnSet(w, Undelivered)
  BY <1>1, <1>2, SumAtMost
<1>6. SumFunctionOnSet(v, Undelivered') \in Nat /\ SumFunctionOnSet(w, Undelivered) \in Nat
  BY <1>1, <1>2, SumType, FS_Subset
<1>7. MaxBytes \in Nat
  BY OutboxAssumption
<1>8. PayloadBytes(Undelivered)' <= MaxBytes
  BY <1>3, <1>4, <1>5, <1>6, <1>7 DEF Sized
<1>9. Hashed'
  BY DEF Sized, Hashed, KeepsHashes
<1> QED BY <1>8, <1>9 DEF Sized

LEMMA EnqueueFits ==
  ASSUME DeliveryInv, Sized, Enqueue
  PROVE  Sized'
<1> DEFINE new == Current(cur)
           h == HashOf(cur)
           w == [i \in Undelivered |-> Bytes[outbox[i].hash]]
           v == [i \in Undelivered' |-> Bytes[outbox'[i].hash]]
<1>0. TypeOK /\ cur \in Key /\ new \in Id /\ outbox[new].status = "unused"
  BY OutboxAssumption
     DEF Enqueue, DeliveryInv, DedupInv, TypeOK, TransactionOK, Id, Scan, Current, Fresh
<1>1. /\ outbox' = [outbox EXCEPT ![new] = [status |-> "pending", hash |-> h, lease |-> None,
                                           live |-> FALSE, due |-> TRUE]]
      /\ PayloadBytes(Undelivered) + Bytes[h] <= MaxBytes
  BY DEF Enqueue, Fits, Current
<1>2. h \in Payload
  <2>1. cur \in Key /\ cur # None
    BY <1>0 DEF Enqueue
  <2>2. cur \in Asset => seen[cur] \in Hash \cup {None} /\ seen[cur] # None
    BY <1>0 DEF TypeOK, DeliveryInv, DedupInv, TransactionOK
  <2> QED BY <2>1, <2>2 DEF HashOf, Payload, Key
<1> HIDE DEF new, h
<1>3. /\ Undelivered' = Undelivered \cup {new} /\ new \notin Undelivered
      /\ outbox'[new].hash = h
      /\ \A i \in Undelivered : outbox'[i].hash = outbox[i].hash
  BY <1>0, <1>1 DEF Undelivered, InStatus, TypeOK
<1>4. IsFiniteSet(Undelivered) /\ IsFiniteSet(Undelivered')
  <2>1. Undelivered \in SUBSET Id /\ Undelivered' \in SUBSET Id
    BY DEF Undelivered, InStatus
  <2> QED BY <2>1, IdFinite, FS_Subset
<1>5. /\ \A i \in Undelivered : w[i] \in Nat
      /\ \A i \in Undelivered' : v[i] \in Nat
      /\ \A i \in Undelivered : v[i] \in Nat /\ v[i] <= w[i]
      /\ v[new] = Bytes[h]
  BY <1>2, <1>3, OutboxAssumption DEF Sized, Hashed
<1>6. PayloadBytes(Undelivered) = SumFunctionOnSet(w, Undelivered)
  BY DEF PayloadBytes, SumFunction
<1>7. PayloadBytes(Undelivered)' = SumFunctionOnSet(v, Undelivered')
  BY DEF PayloadBytes, SumFunction
<1> HIDE DEF w, v
<1>8. SumFunctionOnSet(v, Undelivered') = v[new] + SumFunctionOnSet(v, Undelivered)
  <2>1. new \in Undelivered' /\ Undelivered' \ {new} = Undelivered
    BY <1>3
  <2> QED BY <1>4, <1>5, <2>1, SumAny
<1>9. SumFunctionOnSet(v, Undelivered) <= SumFunctionOnSet(w, Undelivered)
  BY <1>4, <1>5, SumAtMost
<1>10. SumFunctionOnSet(v, Undelivered) \in Nat /\ SumFunctionOnSet(w, Undelivered) \in Nat
  BY <1>4, <1>5, SumType
<1>11. MaxBytes \in Nat /\ Bytes[h] \in Nat
  BY <1>2, OutboxAssumption
<1>12. PayloadBytes(Undelivered)' <= MaxBytes
  BY <1>1, <1>5, <1>6, <1>7, <1>8, <1>9, <1>10, <1>11
<1>13. Hashed'
  BY <1>2, <1>3 DEF Sized, Hashed
<1> QED BY <1>12, <1>13 DEF Sized

LEMMA StepKeepsHashes ==
  ASSUME DeliveryInv, Next
  PROVE  KeepsHashes \/ Enqueue
<1>0. TypeOK /\ \A i \in Id : outbox[i] \in Row
  BY DEF DeliveryInv, DedupInv, TypeOK
<1>1. ASSUME NEW D \in SUBSET Queued, DropRows(D) PROVE KeepsHashes
  BY <1>0, <1>1, RowHashes, HashesKept DEF DropRows, Queued, InStatus
<1>2. ASSUME outbox' = outbox PROVE KeepsHashes
  BY <1>2 DEF KeepsHashes, Undelivered, InStatus
<1>3. ASSUME NEW P \in SUBSET InStatus({"delivered", "failed"}), Purge(P) PROVE KeepsHashes
  BY <1>0, <1>3, RowHashes, HashesKept DEF Purge, InStatus
<1>4. ASSUME NEW x \in Exporter, NEW S \in SUBSET Id,
             FinishFailed(x, S) \/ FinishDelivered(x, S)
      PROVE  KeepsHashes
  <2> DEFINE own == {i \in S : Owned(x, i)}
  <2>1. \A i \in Id \ own : outbox'[i] = outbox[i]
    BY <1>4 DEF FinishFailed, FinishDelivered
  <2>2. \A i \in own : outbox'[i].status \in {"failed", "delivered"}
    <3>1. {"failed", "delivered"} \subseteq Status
      BY DEF Status
    <3> QED BY <1>0, <1>4, <3>1, RowHashes DEF FinishFailed, FinishDelivered
  <2>3. own \in SUBSET Id
    OBVIOUS
  <2> HIDE DEF own
  <2> QED BY <1>0, <2>1, <2>2, <2>3, HashesKept
<1>5. ASSUME NEW x \in Exporter, NEW S \in SUBSET Id, NEW due \in BOOLEAN, FinishRetry(x, S, due)
      PROVE  KeepsHashes
  <2> DEFINE own == {i \in S : Owned(x, i)}
             stale == {i \in own : ~Latest(i)}
  <2>1. /\ \A i \in stale : outbox'[i] = Dropped
        /\ \A i \in Id \ stale : outbox'[i] = IF i \in own THEN Waiting(outbox[i], due) ELSE outbox[i]
    BY <1>5 DEF FinishRetry
  <2>2. own \subseteq Undelivered /\ stale \in SUBSET Id
    BY DEF Owned, Undelivered, InStatus
  <2> HIDE DEF own, stale
  <2>3. \A i \in stale : outbox'[i].status = "dropped"
    BY <2>1, RowHashes
  <2>4. \A i \in Id \ stale : \/ outbox'[i] = outbox[i]
                              \/ i \in Undelivered /\ outbox'[i].hash = outbox[i].hash
    BY <1>0, <2>1, <2>2, RowHashes
  <2> QED BY <1>0, <2>2, <2>3, <2>4, HashesKept
<1>6. CASE Ingest
  <2>1. CASE \/ \E d \in Device : \E f \in Reconciled(d) : BeginIngest(d, f)
             \/ \E k \in Key : Supersede(k)
             \/ \E i \in Id : Evict(i)
    <3>1. ASSUME NEW d \in Device, NEW f \in Reconciled(d), BeginIngest(d, f) PROVE KeepsHashes
      BY <1>1, <3>1 DEF BeginIngest
    <3>2. ASSUME NEW k \in Key, Supersede(k) PROVE KeepsHashes
      BY <1>1, <3>2 DEF Supersede
    <3>3. ASSUME NEW i \in Id, Evict(i) PROVE KeepsHashes
      <4>1. {i} \in SUBSET Queued /\ DropRows({i})
        BY <3>3 DEF Evict, Oldest
      <4> QED BY <1>1, <4>1
    <3> QED BY <2>1, <3>1, <3>2, <3>3
  <2>2. CASE \/ \E k \in Key : SkipUnchanged(k) \/ DropOversize(k)
             \/ RejectNew
             \/ Commit
    BY <1>2, <2>2 DEF SkipUnchanged, DropOversize, RejectNew, Commit, tables
  <2> QED BY <1>6, <2>1, <2>2 DEF Ingest, Project
<1>7. CASE Time
  <2>1. \A i \in Id : /\ outbox'[i].status = outbox[i].status
                      /\ outbox'[i].hash = outbox[i].hash
    <3>1. ASSUME NEW j \in Id, LeaseExpires(j) \/ BecomesDue(j)
          PROVE  \A i \in Id : /\ outbox'[i].status = outbox[i].status
                               /\ outbox'[i].hash = outbox[i].hash
      BY <1>0, <3>1 DEF LeaseExpires, BecomesDue, TypeOK, Row
    <3>2. AgeOut => outbox' = outbox
      BY DEF AgeOut, tables
    <3> QED BY <1>7, <3>1, <3>2 DEF Time
  <2> QED BY <2>1 DEF KeepsHashes, Undelivered, InStatus
<1>8. CASE Exporters
  <2> SUFFICES ASSUME NEW x \in Exporter,
                      \/ RunOnce(x)
                      \/ \E got \in SUBSET group[x] :
                           \/ Halt(x, got)
                           \/ \E P \in SUBSET InStatus({"delivered", "failed"}) : Stop(x, got, P)
               PROVE  KeepsHashes
    BY <1>8 DEF Exporters
  <2>1. ASSUME NEW C \in SUBSET Candidates, Claim(x, C) PROVE KeepsHashes
    <3> DEFINE D == Superseded \cup Aged
    <3>1. /\ \A i \in D : outbox'[i] = Dropped
          /\ \A i \in Id \ D : outbox'[i] = IF i \in C THEN Leased(outbox[i], x)
                                          ELSE IF i \in Lapsed THEN Waiting(outbox[i], TRUE)
                                          ELSE outbox[i]
      <4>1. D \subseteq Id
        BY DEF Superseded, Aged, Claimable, Lapsed, Queued, InStatus
      <4> QED BY <2>1, <4>1 DEF Claim
    <3>2. D \in SUBSET Id /\ C \subseteq Undelivered /\ Lapsed \subseteq Undelivered
      BY DEF Candidates, Superseded, Aged, Claimable, Lapsed, Queued, Undelivered, InStatus
    <3> HIDE DEF D
    <3>3. \A i \in D : outbox'[i].status = "dropped"
      BY <3>1, RowHashes
    <3>4. \A i \in Id \ D : \/ outbox'[i] = outbox[i]
                            \/ i \in Undelivered /\ outbox'[i].hash = outbox[i].hash
      <4>1. \A i \in Id : /\ Leased(outbox[i], x).hash = outbox[i].hash
                          /\ Waiting(outbox[i], TRUE).hash = outbox[i].hash
        BY <1>0, RowHashes
      <4> QED BY <3>1, <3>2, <4>1
    <3> QED BY <1>0, <3>2, <3>3, <3>4, HashesKept
  <2>2. ASSUME NEW i \in invalid[x], RejectInvalid(x, i) PROVE KeepsHashes
    <3>1. {i} \in SUBSET Id /\ FinishFailed(x, {i})
      BY <1>0, <2>2 DEF RejectInvalid, TypeOK
    <3> QED BY <1>4, <3>1
  <2>3. ASSUME \/ \E G \in SUBSET work[x] : BeginAttempt(x, G)
               \/ \E got \in SUBSET group[x] : \/ Halt(x, got)
                                               \/ \E r \in Reply : Answer(x, r, got)
        PROVE  KeepsHashes
    BY <1>2, <2>3 DEF BeginAttempt, Answer, Halt, tables
  <2>4. ASSUME NEW due \in BOOLEAN, Finish(x, due) PROVE KeepsHashes
    <3>1. group[x] \in SUBSET Id
      BY <1>0 DEF TypeOK
    <3> QED BY <1>4, <1>5, <2>4, <3>1 DEF Finish
  <2>5. ASSUME NEW P \in SUBSET InStatus({"delivered", "failed"}),
               Cleanup(x, P) \/ \E got \in SUBSET group[x] : Stop(x, got, P)
        PROVE  KeepsHashes
    BY <1>3, <2>5 DEF Cleanup, Stop
  <2> QED BY <2>1, <2>2, <2>3, <2>4, <2>5 DEF RunOnce
<1> QED BY <1>6, <1>7, <1>8 DEF Next

LEMMA SizedAlways == Spec => []Sized
<1>1. Init => Sized
  <2> SUFFICES ASSUME Init PROVE Sized
    OBVIOUS
  <2>1. Undelivered = {}
    BY DEF Init, Undelivered, InStatus, Blank
  <2>2. PayloadBytes({}) = 0
    <3>1. DOMAIN [i \in {} |-> Bytes[outbox[i].hash]] = {}
      OBVIOUS
    <3> QED BY <3>1, SumEmpty DEF PayloadBytes, SumFunction
  <2>3. MaxBytes \in Nat
    BY OutboxAssumption
  <2> QED BY <2>1, <2>2, <2>3 DEF Sized, Hashed
<1>2. DeliveryInv /\ Sized /\ [Next]_vars => Sized'
  <2> SUFFICES ASSUME DeliveryInv, Sized, [Next]_vars PROVE Sized'
    OBVIOUS
  <2>0. TypeOK
    BY DEF DeliveryInv, DedupInv
  <2>1. CASE Enqueue
    BY <2>1, EnqueueFits
  <2>2. CASE Next /\ ~Enqueue
    BY <2>0, <2>2, StepKeepsHashes, SizesKept
  <2>3. CASE UNCHANGED vars
    <3>1. KeepsHashes
      BY <2>3 DEF vars, tables, KeepsHashes, Undelivered, InStatus
    <3> QED BY <2>0, <3>1, SizesKept
  <2> QED BY <2>1, <2>2, <2>3
<1> QED BY <1>1, <1>2, DeliveryAlways, PTL DEF Spec

(* The queue never holds more rows or bytes than it may, for every limit and
   every size of payloads: evictions, recovered leases and retries never add to
   it behind an admission's back. *)
THEOREM QueueIsBounded == Spec => []CapacityBound
<1>1. TypeOK /\ Tallied /\ Sized => CapacityBound
  BY OfFateRows DEF Tallied, Open, Sized, CapacityBound
<1> QED BY <1>1, TalliedAlways, SizedAlways, PTL

=============================================================================
