----------------------------- MODULE OtlpOutbox -----------------------------
(***************************************************************************)
(* The transactional OTLP outbox: the inventory server enqueues projected  *)
(* asset states inside the ingest transaction (database.py), competing     *)
(* exporter processes claim, send and finish them under expiring leases    *)
(* (otlp_store.py, otlp_exporter.py), and an external collector answers.   *)
(*                                                                         *)
(* An ingest transaction enqueues at most one event per logical key, so    *)
(* the pair (key, scan) stands for the random event id.  created_at is the *)
(* number of the scan; rows of one scan are ordered by their random ids,   *)
(* which is why "oldest" below is any row of the least scan number.        *)
(***************************************************************************)
EXTENDS Integers, FiniteSets, Functions

CONSTANTS
    Device,        \* enrolled devices; a device is also its heartbeat's key
    Asset,         \* logical assets (the digests project_asset computes)
    Owner,         \* the device each asset belongs to
    Exporter,      \* exporter processes; each stands for its current lease token
    Hash,          \* state hashes of assets
    BadHash,       \* states whose stored payload the encoder refuses
    Beat,          \* the payload of a heartbeat (hash never compared)
    None,          \* no hash, no owner, no key
    Bytes,         \* payload_bytes of each state
    MaxPending,    \* otlp_max_pending
    MaxBytes,      \* otlp_max_payload_bytes
    BatchRecords,  \* batch_records
    BatchBytes,    \* batch_bytes
    Reply,         \* the classes of answers the collector gives
    MaxScans,      \* bound on the ingest transactions that enqueue
    MaxCutoff      \* bound on the scans whose rows get too old

Key == Device \cup Asset
Scan == 1..MaxScans
Id == [key : Key, at : Scan]
Payload == Hash \cup {Beat}

\* 2xx; 2xx with rejected records; 429/502/503/504; another 5xx; another 3xx or
\* 4xx; 2xx that does not decode; no answer.
ReplyClass == {"ok", "partial", "unavailable", "server_error", "refused",
               "bad_body", "transport"}

ASSUME OutboxAssumption ==
    /\ IsFiniteSet(Device) /\ IsFiniteSet(Asset)
    /\ Owner \in [Asset -> Device]
    /\ Device \cap Asset = {}
    /\ BadHash \subseteq Payload
    /\ Bytes \in [Payload -> Nat \ {0}]
    /\ MaxScans \in Nat /\ MaxCutoff \in 1..(MaxScans + 1)
    /\ {MaxPending, MaxBytes, BatchRecords, BatchBytes} \subseteq Nat \ {0}
    /\ Reply \subseteq ReplyClass
    /\ None \notin Payload \cup Key \cup Exporter
    /\ Beat \notin Hash

VARIABLES
    outbox,       \* otlp_outbox, by event id
    asset_state,  \* otlp_asset_state: the latest enqueued state of each key
    totals,       \* otlp_export_status: dropped, delivered and failed events
    seen,         \* the reconciled assets the ingest transaction projects
    scans,        \* ingest transactions begun
    cutoff,       \* rows of scans before this one exceed the maximum age
    writer,       \* the device whose ingest holds the write reservation
    todo,         \* keys that transaction still has to project
    cur,          \* the key whose row it is making room for
    pc,           \* where each exporter is in run_once
    invalid,      \* claimed rows whose payload it cannot encode
    work,         \* claimed and encoded rows it has not begun to send
    group,        \* rows of the request it is sending
    reply,        \* the class of the answer it got
    received      \* external: the events the collector has accepted

server == <<seen, scans, writer, todo, cur>>
tables == <<outbox, asset_state, totals>>
workers == <<pc, invalid, work, group, reply>>
vars == <<tables, server, cutoff, workers, received>>

Status == {"unused", "pending", "retry", "sending", "delivered", "failed",
           "dropped", "purged", "discarded"}
Row == [status : Status, hash : Payload \cup {None},
        lease : Exporter \cup {None}, live : BOOLEAN, due : BOOLEAN]
\* The last three statuses are deleted rows: "dropped" by _drop_outbox_row,
\* "purged" and "discarded" by retention, once delivered or failed.  A purged
\* row keeps its hash here: it says what the collector was given.
\* Blank is a row that was never inserted.
Blank == [status |-> "unused", hash |-> None, lease |-> None,
          live |-> FALSE, due |-> FALSE]
State == [hash : Payload \cup {None}, at : Scan \cup {0}]
NoState == [hash |-> None, at |-> 0]

TypeOK ==
    /\ outbox \in [Id -> Row]
    /\ asset_state \in [Key -> State]
    /\ totals \in [dropped : Nat, delivered : Nat, failed : Nat]
    /\ seen \in [Asset -> Hash \cup {None}]
    /\ scans \in 0..MaxScans
    /\ cutoff \in 1..MaxCutoff
    /\ writer \in Device \cup {None}
    /\ todo \in SUBSET Key
    /\ cur \in Key \cup {None}
    /\ pc \in [Exporter -> {"idle", "batch", "send", "finish"}]
    /\ invalid \in [Exporter -> SUBSET Id]
    /\ work \in [Exporter -> SUBSET Id]
    /\ group \in [Exporter -> SUBSET Id]
    /\ reply \in [Exporter -> Reply \cup {None}]
    /\ received \in SUBSET Id
    \* lease_id is null outside "sending".
    /\ \A i \in Id : (outbox[i].status = "sending") <=> (outbox[i].lease # None)

-----------------------------------------------------------------------------
(* Rows. *)

InStatus(S) == {i \in Id : outbox[i].status \in S}
Queued == InStatus({"pending", "retry"})
Undelivered == InStatus({"pending", "retry", "sending"})
PayloadBytes(S) == SumFunction([i \in S |-> Bytes[outbox[i].hash]])

\* otlp_asset_state names i as the last event of its key.
Latest(i) == asset_state[i.key].at = i.at

\* Mutant: any leased row passes for the worker's own.
OwnedByAnyone(x, i) == outbox[i].status = "sending" /\ x \in Exporter
\* The worker x still owns row i under an unexpired lease.
Owned(x, i) ==
    outbox[i].status = "sending" /\ outbox[i].lease = x /\ outbox[i].live

Closed(row, status) ==
    [row EXCEPT !.status = status, !.lease = None, !.live = FALSE, !.due = FALSE]
Dropped == [Blank EXCEPT !.status = "dropped"]
\* Mutant: lease_id is not cleared.
WaitingLeased(row, due) == [row EXCEPT !.status = "retry", !.live = FALSE, !.due = due]
Waiting(row, due) ==
    [row EXCEPT !.status = "retry", !.lease = None, !.live = FALSE, !.due = due]
Leased(row, x) ==
    [row EXCEPT !.status = "sending", !.lease = x, !.live = TRUE, !.due = FALSE]

\* The rows of S with the least created_at; their random ids break the tie.
Oldest(S) == {i \in S : \A j \in S : i.at <= j.at}
\* S is read before any other row of T (ORDER BY created_at,id).
Precedes(S, T) == S \subseteq T /\ \A i \in S, j \in T \ S : i.at <= j.at

\* The latest-state entries that remain once the rows of D are deleted.
Forget(D) ==
    [k \in Key |-> IF \E i \in D : i.key = k /\ Latest(i)
                   THEN NoState ELSE asset_state[k]]

\* _drop_outbox_row for every row of D, each of them counted.
DropRows(D) ==
    /\ outbox' = [i \in Id |-> IF i \in D THEN Dropped ELSE outbox[i]]
    /\ asset_state' = Forget(D)
    /\ totals' = [totals EXCEPT !.dropped = @ + Cardinality(D)]

-----------------------------------------------------------------------------
NothingSeen == [a \in Asset |-> None]

Init ==
    /\ outbox = [i \in Id |-> Blank]
    /\ asset_state = [k \in Key |-> NoState]
    /\ totals = [dropped |-> 0, delivered |-> 0, failed |-> 0]
    /\ seen = NothingSeen
    /\ scans = 0
    /\ cutoff = 1
    /\ writer = None
    /\ todo = {}
    /\ cur = None
    /\ pc = [x \in Exporter |-> "idle"]
    /\ invalid = [x \in Exporter |-> {}]
    /\ work = [x \in Exporter |-> {}]
    /\ group = [x \in Exporter |-> {}]
    /\ reply = [x \in Exporter |-> None]
    /\ received = {}

-----------------------------------------------------------------------------
(* The server's ingest transaction.  BEGIN IMMEDIATE takes the write       *)
(* reservation, so no exporter transaction runs until Commit.              *)

Assets(d) == {a \in Asset : Owner[a] = d}

\* What the assets table can hold for device d once its newest scan is
\* reconciled.  None stands for an asset never seen or one whose evidence
\* project_asset refuses.
Reconciled(d) ==
    {f \in [Asset -> Hash \cup {None}] : \A a \in Asset \ Assets(d) : f[a] = None}

\* Aged rows are dropped first, and every projected key is queued for
\* comparison.  A transaction that fails, or whose projection is rolled back to
\* its savepoint, leaves these tables as they were: it is a stuttering step.
BeginIngest(d, f) ==
    /\ writer = None
    /\ scans < MaxScans
    /\ seen' = f
    /\ scans' = scans + 1
    /\ writer' = d
    /\ todo' = {d} \cup {a \in Assets(d) : f[a] # None}
    /\ DropRows({i \in Queued : i.at < cutoff})
    /\ UNCHANGED <<cur, cutoff, workers, received>>

HashOf(k) == IF k \in Device THEN Beat ELSE seen[k]

\* The heartbeat is projected before the assets of its device.
NextKey(k) ==
    /\ writer # None /\ cur = None
    /\ k \in todo
    /\ writer \in todo => k = writer

SkipUnchanged(k) ==
    /\ NextKey(k)
    /\ k # writer
    /\ asset_state[k].hash = HashOf(k)
    /\ todo' = todo \ {k}
    /\ UNCHANGED <<tables, seen, scans, writer, cur, cutoff, workers, received>>

Changed(k) == k = writer \/ asset_state[k].hash # HashOf(k)

DropOversize(k) ==
    /\ NextKey(k)
    /\ Changed(k)
    /\ Bytes[HashOf(k)] > MaxBytes
    /\ todo' = todo \ {k}
    /\ totals' = [totals EXCEPT !.dropped = @ + 1]
    /\ UNCHANGED <<outbox, asset_state, seen, scans, writer, cur, cutoff,
                   workers, received>>

Supersede(k) ==
    /\ NextKey(k)
    /\ Changed(k)
    /\ Bytes[HashOf(k)] <= MaxBytes
    /\ todo' = todo \ {k}
    /\ cur' = k
    /\ DropRows({i \in Queued : i.key = k})
    /\ UNCHANGED <<seen, scans, writer, cutoff, workers, received>>

\* Mutant: off by one.
FitsOneMore(h) ==
    /\ Cardinality(Undelivered) <= MaxPending
    /\ PayloadBytes(Undelivered) + Bytes[h] <= MaxBytes
Fits(h) ==
    /\ Cardinality(Undelivered) < MaxPending
    /\ PayloadBytes(Undelivered) + Bytes[h] <= MaxBytes

Evict(i) ==
    /\ cur # None
    /\ ~Fits(HashOf(cur))
    /\ i \in Oldest(Queued)
    /\ DropRows({i})
    /\ UNCHANGED <<server, cutoff, workers, received>>

\* Only leased rows are left, and leases cannot be evicted.
RejectNew ==
    /\ cur # None
    /\ ~Fits(HashOf(cur))
    /\ Queued = {}
    /\ totals' = [totals EXCEPT !.dropped = @ + 1]
    /\ cur' = None
    /\ UNCHANGED <<outbox, asset_state, seen, scans, writer, todo, cutoff,
                   workers, received>>

Enqueue ==
    /\ cur # None
    /\ Fits(HashOf(cur))
    /\ LET new == [key |-> cur, at |-> scans] IN
         /\ outbox' = [outbox EXCEPT ![new] =
                         [status |-> "pending", hash |-> HashOf(cur),
                          lease |-> None, live |-> FALSE, due |-> TRUE]]
         /\ asset_state' = [asset_state EXCEPT ![cur] =
                              [hash |-> HashOf(cur), at |-> scans]]
    /\ cur' = None
    /\ UNCHANGED <<totals, seen, scans, writer, todo, cutoff, workers, received>>

Commit ==
    /\ writer # None /\ todo = {} /\ cur = None
    /\ writer' = None
    /\ seen' = NothingSeen
    /\ UNCHANGED <<tables, scans, todo, cur, cutoff, workers, received>>

Project ==
    \/ \E k \in Key : SkipUnchanged(k) \/ DropOversize(k) \/ Supersede(k)
    \/ \E i \in Id : Evict(i)
    \/ RejectNew
    \/ Enqueue
    \/ Commit

Ingest ==
    \/ \E d \in Device : \E f \in Reconciled(d) : BeginIngest(d, f)
    \/ Project

-----------------------------------------------------------------------------
(* Time.  What passes during an ingest transaction shows when it ends: the     *)
(* transaction reads neither leases nor due times.                             *)

\* A lease runs out, at any moment: the worker may be slow, suspended or dead.
LeaseExpires(i) ==
    /\ writer = None
    /\ outbox[i].status = "sending" /\ outbox[i].live
    /\ outbox' = [outbox EXCEPT ![i].live = FALSE]
    /\ UNCHANGED <<asset_state, totals, server, cutoff, workers, received>>

\* next_attempt_at of a delayed row passes.
BecomesDue(i) ==
    /\ writer = None
    /\ outbox[i].status = "retry" /\ ~outbox[i].due
    /\ outbox' = [outbox EXCEPT ![i].due = TRUE]
    /\ UNCHANGED <<asset_state, totals, server, cutoff, workers, received>>

\* The rows of one more scan pass the maximum age.
AgeOut ==
    /\ writer = None
    /\ cutoff <= scans /\ cutoff < MaxCutoff
    /\ cutoff' = cutoff + 1
    /\ UNCHANGED <<tables, server, workers, received>>

Time ==
    \/ \E i \in Id : LeaseExpires(i) \/ BecomesDue(i)
    \/ AgeOut

-----------------------------------------------------------------------------
(* An exporter's run_once. *)

\* Rows whose lease ran out, and every row that is queued once they are.
\* Mutant: leases are never recovered.
LapsedKept == {}
Lapsed == {i \in InStatus({"sending"}) : ~outbox[i].live}
Claimable == Queued \cup Lapsed
\* Mutants: replaced rows are not looked for; age is left to the server.
SupersededKept == {}
AgedKept == {}
Superseded == {i \in Claimable : ~Latest(i)}
Aged == {i \in Claimable \ Superseded : i.at < cutoff}
Candidates == {i \in Claimable \ (Superseded \cup Aged) : i \in Lapsed \/ outbox[i].due}

\* Mutant: the first row is held to the byte budget too.
BatchWithinBudget(C) ==
    /\ Precedes(C, Candidates)
    /\ Cardinality(C) <= BatchRecords
    /\ PayloadBytes(C) <= BatchBytes
    /\ \/ C = Candidates
       \/ Cardinality(C) = BatchRecords
       \/ \E next \in Oldest(Candidates \ C) :
             PayloadBytes(C) + Bytes[outbox[next].hash] > BatchBytes

\* The prefix of the candidates that LIMIT batch_records and the byte budget
\* let through; the first row is taken whatever its size.
Batch(C) ==
    /\ Precedes(C, Candidates)
    /\ Cardinality(C) <= BatchRecords
    /\ Cardinality(C) > 1 => PayloadBytes(C) <= BatchBytes
    /\ \/ C = Candidates
       \/ Cardinality(C) = BatchRecords
       \/ /\ C # {}
          /\ \E next \in Oldest(Candidates \ C) :
                PayloadBytes(C) + Bytes[outbox[next].hash] > BatchBytes

Invalid(i) == outbox[i].hash \in BadHash

Claim(x, C) ==
    /\ pc[x] = "idle" /\ writer = None
    /\ Batch(C)
    /\ outbox' = [i \in Id |->
         IF i \in Superseded \cup Aged THEN Dropped
         ELSE IF i \in C THEN Leased(outbox[i], x)
         ELSE IF i \in Lapsed THEN Waiting(outbox[i], TRUE)
         ELSE outbox[i]]
    /\ asset_state' = Forget(Aged)
    /\ totals' = [totals EXCEPT !.dropped = @ + Cardinality(Superseded \cup Aged)]
    /\ pc' = [pc EXCEPT ![x] = "batch"]
    /\ invalid' = [invalid EXCEPT ![x] = {i \in C : Invalid(i)}]
    /\ work' = [work EXCEPT ![x] = {i \in C : ~Invalid(i)}]
    /\ UNCHANGED <<server, cutoff, group, reply, received>>

\* Mutant: the deduplication entry of a failed row stays.
FinishFailedKeepsState(x, S) ==
    LET own == {i \in S : Owned(x, i)} IN
    /\ outbox' = [i \in Id |-> IF i \in own THEN Closed(outbox[i], "failed") ELSE outbox[i]]
    /\ totals' = [totals EXCEPT !.failed = @ + Cardinality(own)]
    /\ UNCHANGED asset_state
\* finish(rows, status): only rows still owned change.
FinishFailed(x, S) ==
    LET own == {i \in S : Owned(x, i)} IN
    /\ outbox' = [i \in Id |-> IF i \in own THEN Closed(outbox[i], "failed") ELSE outbox[i]]
    /\ asset_state' = Forget(own)
    /\ totals' = [totals EXCEPT !.failed = @ + Cardinality(own)]

\* Mutants: rows are updated by id alone; all rows sent are counted.
FinishDeliveredById(x, S) ==
    /\ outbox' = [i \in Id |-> IF i \in S THEN Closed(outbox[i], "delivered") ELSE outbox[i]]
    /\ totals' = [totals EXCEPT !.delivered = @ + Cardinality(S)]
    /\ x \in Exporter /\ UNCHANGED asset_state
FinishDeliveredCountsAll(x, S) ==
    LET own == {i \in S : Owned(x, i)} IN
    /\ outbox' = [i \in Id |-> IF i \in own THEN Closed(outbox[i], "delivered") ELSE outbox[i]]
    /\ totals' = [totals EXCEPT !.delivered = @ + Cardinality(S)]
    /\ UNCHANGED asset_state
FinishDelivered(x, S) ==
    LET own == {i \in S : Owned(x, i)} IN
    /\ outbox' = [i \in Id |-> IF i \in own THEN Closed(outbox[i], "delivered") ELSE outbox[i]]
    /\ totals' = [totals EXCEPT !.delivered = @ + Cardinality(own)]
    /\ UNCHANGED asset_state

\* A row that a newer observation replaced while it was in flight is dropped.
FinishRetry(x, S, due) ==
    LET own == {i \in S : Owned(x, i)}
        stale == {i \in own : ~Latest(i)} IN
    /\ outbox' = [i \in Id |->
         IF i \in stale THEN Dropped
         ELSE IF i \in own THEN Waiting(outbox[i], due)
         ELSE outbox[i]]
    /\ totals' = [totals EXCEPT !.dropped = @ + Cardinality(stale)]
    /\ UNCHANGED asset_state

\* Rows that cannot be encoded are failed before anything is sent.
RejectInvalid(x, i) ==
    /\ pc[x] = "batch" /\ writer = None
    /\ i \in invalid[x]
    /\ FinishFailed(x, {i})
    /\ invalid' = [invalid EXCEPT ![x] = @ \ {i}]
    /\ UNCHANGED <<server, cutoff, pc, work, group, reply, received>>

\* Any order-respecting split of the claimed rows can be the next request:
\* encoded sizes, which decide it, are not payload_bytes.
BeginAttempt(x, G) ==
    /\ pc[x] = "batch" /\ writer = None
    /\ invalid[x] = {}
    /\ G # {} /\ Precedes(G, work[x])
    /\ work' = [work EXCEPT ![x] = @ \ G]
    /\ IF \A i \in G : Owned(x, i)
       THEN /\ pc' = [pc EXCEPT ![x] = "send"]
            /\ group' = [group EXCEPT ![x] = G]
       ELSE UNCHANGED <<pc, group>>
    /\ UNCHANGED <<tables, server, cutoff, invalid, reply, received>>

\* What reaches the collector when it gives an answer of class r to events G.
Arrives(r, G) ==
    CASE r \in {"ok", "bad_body"} -> {G}
      [] r = "partial" -> SUBSET G \ {G}
      [] r = "transport" -> {{}, G}
      [] OTHER -> {{}}

Answer(x, r, got) ==
    /\ pc[x] = "send"
    /\ got \in Arrives(r, group[x])
    /\ received' = received \cup got
    /\ reply' = [reply EXCEPT ![x] = r]
    /\ pc' = [pc EXCEPT ![x] = "finish"]
    /\ UNCHANGED <<tables, server, cutoff, invalid, work, group>>

\* classify_response, and the transport failures of HttpTransport.send.
Result(r) ==
    CASE r = "ok" -> "delivered"
      [] r \in {"unavailable", "bad_body", "transport"} -> "retry"
      [] r \in {"partial", "server_error", "refused"} -> "failed"

Finish(x, due) ==
    /\ pc[x] = "finish" /\ writer = None
    /\ \/ Result(reply[x]) = "delivered" /\ FinishDelivered(x, group[x])
       \/ Result(reply[x]) = "failed" /\ FinishFailed(x, group[x])
       \/ Result(reply[x]) = "retry" /\ FinishRetry(x, group[x], due)
    /\ pc' = [pc EXCEPT ![x] = "batch"]
    /\ group' = [group EXCEPT ![x] = {}]
    /\ reply' = [reply EXCEPT ![x] = None]
    /\ UNCHANGED <<server, cutoff, invalid, work, received>>

Deleted(row) ==
    IF row.status = "delivered" THEN Closed(row, "purged")
    ELSE [Blank EXCEPT !.status = "discarded"]

\* Terminal rows P past their retention are deleted.
Purge(P) ==
    /\ P \subseteq InStatus({"delivered", "failed"})
    /\ outbox' = [i \in Id |-> IF i \in P THEN Deleted(outbox[i]) ELSE outbox[i]]
    /\ UNCHANGED <<asset_state, totals>>

\* The end of run_once.
Cleanup(x, P) ==
    /\ pc[x] = "batch" /\ writer = None
    /\ invalid[x] = {} /\ work[x] = {}
    /\ Purge(P)
    /\ pc' = [pc EXCEPT ![x] = "idle"]
    /\ UNCHANGED <<server, cutoff, invalid, work, group, reply, received>>

\* A stop signal: the groups not begun are given up, as is the request under
\* way, which may have reached the collector; run_once still cleans up.  The
\* rows are left to lease recovery.
Stop(x, got, P) ==
    /\ writer = None
    /\ pc[x] = "send" \/ (pc[x] = "batch" /\ invalid[x] = {} /\ work[x] # {})
    /\ got \in {{}, group[x]}
    /\ received' = received \cup got
    /\ Purge(P)
    /\ pc' = [pc EXCEPT ![x] = "idle"]
    /\ work' = [work EXCEPT ![x] = {}]
    /\ group' = [group EXCEPT ![x] = {}]
    /\ UNCHANGED <<server, cutoff, invalid, reply>>

\* The process dies, or run_once raises "database is locked": the
\* rows it holds are left to lease recovery.  A request that was being sent
\* may or may not have reached the collector.
Halt(x, got) ==
    /\ pc[x] # "idle"
    /\ got \in (IF pc[x] = "send" THEN {{}, group[x]} ELSE {{}})
    /\ received' = received \cup got
    /\ pc' = [pc EXCEPT ![x] = "idle"]
    /\ invalid' = [invalid EXCEPT ![x] = {}]
    /\ work' = [work EXCEPT ![x] = {}]
    /\ group' = [group EXCEPT ![x] = {}]
    /\ reply' = [reply EXCEPT ![x] = None]
    /\ UNCHANGED <<tables, server, cutoff>>

RunOnce(x) ==
    \/ \E C \in SUBSET Candidates : Claim(x, C)
    \/ \E i \in invalid[x] : RejectInvalid(x, i)
    \/ \E G \in SUBSET work[x] : BeginAttempt(x, G)
    \/ \E got \in SUBSET group[x] : \E r \in Reply : Answer(x, r, got)
    \/ \E due \in BOOLEAN : Finish(x, due)
    \/ \E P \in SUBSET InStatus({"delivered", "failed"}) : Cleanup(x, P)

Exporters ==
    \E x \in Exporter :
      \/ RunOnce(x)
      \/ \E got \in SUBSET group[x] :
           \/ Halt(x, got)
           \/ \E P \in SUBSET InStatus({"delivered", "failed"}) : Stop(x, got, P)

-----------------------------------------------------------------------------
Next == Ingest \/ Time \/ Exporters

Spec == Init /\ [][Next]_vars

\* The server finishes its transactions, the clock runs, and a supervisor keeps
\* every exporter polling.
Running ==
    /\ WF_vars(Project)
    /\ \A i \in Id : WF_vars(LeaseExpires(i)) /\ WF_vars(BecomesDue(i))
    /\ WF_vars(AgeOut)
    /\ \A x \in Exporter : WF_vars(RunOnce(x))

FairSpec == Spec /\ Running

\* Event i is sent again and again only if, some time, the worker begins in time
\* and the collector accepts: neither crashes, slow workers nor refusals hit
\* every attempt forever.
Healthy(i) ==
    /\ SF_vars(\E x \in Exporter : \E G \in SUBSET work[x] :
                 i \in G /\ (\A j \in G : Owned(x, j)) /\ BeginAttempt(x, G))
    /\ SF_vars(\E x \in Exporter : i \in group[x] /\ Answer(x, "ok", group[x]))
    /\ SF_vars(\E x \in Exporter : \E due \in BOOLEAN :
                 i \in group[x] /\ Owned(x, i) /\ Finish(x, due))

-----------------------------------------------------------------------------
(* Properties. *)

Issued == Id \ InStatus({"unused"})

\* What the deduplication table vouches for is true: the state it records for a
\* key is the newest one ever enqueued for it, and that event is still on its
\* way or the collector has it.  Suppressing an "unchanged" observation
\* (_queue_otlp_observations) therefore never hides a state from the collector.
DedupSound ==
    \A k \in Key :
      asset_state[k] # NoState =>
        LET i == [key |-> k, at |-> asset_state[k].at] IN
        /\ i \in Issued /\ outbox[i].hash = asset_state[k].hash
        /\ \A j \in Issued : j.key = k => j.at <= i.at
        /\ i \in Undelivered \/ i \in received

\* The queue limits hold in every state, whatever leases, evictions and
\* recoveries happen between admissions.
CapacityBound ==
    /\ Cardinality(Undelivered) <= MaxPending
    /\ PayloadBytes(Undelivered) <= MaxBytes

\* No event disappears unaccounted and none is counted twice as delivered or
\* failed: otlp_export_status agrees with the fate of every row.  (Observations
\* refused before insertion are counted as dropped too.)
Accounted ==
    /\ totals.delivered = Cardinality(InStatus({"delivered", "purged"}))
    /\ totals.failed = Cardinality(InStatus({"failed", "discarded"}))
    /\ totals.dropped >= Cardinality(InStatus({"dropped"}))

\* A row under an unexpired lease leaves "sending" only by the step of the
\* worker that holds the lease: neither the server's eviction nor a worker
\* whose own lease was lost decides for it.
LeaseExclusive ==
    [][\A i \in Id :
         (outbox[i].status = "sending" /\ outbox[i].live
            /\ outbox'[i].status # "sending") =>
           LET x == outbox[i].lease IN
             \/ i \in group[x] /\ pc[x] = "finish" /\ pc'[x] # "finish"
             \/ i \in invalid[x] /\ i \notin invalid'[x]]_vars

\* A worker never picks up a state that a newer observation of the same key has
\* replaced, even when the replacement was delivered, failed or purged since.
NoStaleClaim ==
    [][\A x \in Exporter : \A i \in (work'[x] \cup invalid'[x]) \ (work[x] \cup invalid[x]) :
         \A j \in Issued : j.key = i.key => j.at <= i.at]_vars

\* The outbox implements the at-least-once promise of EventDelivery.
Delivery == INSTANCE EventDelivery WITH
    Event <- Id,
    open <- Undelivered,
    delivered <- InStatus({"delivered", "purged"}),
    abandoned <- InStatus({"failed", "dropped", "discarded"}),
    received <- received

\* Every row's life is one EventDelivery allows: nothing is marked delivered
\* that the collector did not accept, and no terminal row comes back.
AtLeastOnce == Delivery!Spec

\* An event older than the maximum age leaves the queue, even if the collector is
\* never reachable and the workers keep crashing: age bounds the retries (claim).
OldEventsClose ==
    \A i \in Id : (i \in Undelivered /\ i.at < cutoff) ~> i \notin Undelivered

\* With a collector that accepts sooner or later, the newest state of each key
\* reaches it, unless the key's entry is replaced or given up.
LatestStateArrives ==
    (\A i \in Id : Healthy(i)) =>
      \A i \in Id : (asset_state[i.key].at = i.at) ~>
                     (i \in received \/ asset_state[i.key].at # i.at)

=============================================================================
