# EdgeDisco: specifications, model checking and proofs

TLA+ modules for the parts of EdgeDisco (`src/src/ai_asset_inventory/`) whose correctness depends on
interleavings, crashes, lost messages, limits and reruns; TLC configurations that check them on small
instances; and TLAPS proofs of the results that matter most for every instance. Paths below are
relative to `src/src/ai_asset_inventory/` unless they start with `docs/`, `tests/` or `install.sh`.

## 1. The system

An **endpoint agent** scans applications, command-line tools, extensions, MCP configurations and processes,
and sends complete snapshots to a **server**, a threaded HTTP server over one SQLite database. **Hooks** of
editors and assistants append runtime events to a **spool file** that the agent uploads. The server reconciles
snapshots into an inventory, keeps a **synchronization log** that MCP clients page through, folds events into
**agent sessions**, and, when export is enabled, enqueues observations in an **OTLP outbox** that separate
**exporter** processes deliver to a collector. **Setup** installs and enrolls all of this on one machine; the
**installer** snapshots an existing installation and rolls back to it.

| Part | State | Operations | What is hard | What makes it correct |
|---|---|---|---|---|
| OTLP outbox (`database.py:211-367`, `otlp_store.py`) and exporter (`otlp_exporter.py`) | `otlp_outbox`, `otlp_asset_state`, counters; each worker's claimed rows and request | enqueue in the ingest transaction, claim, begin_attempt, send, finish, cleanup, stop | competing workers, leases that expire under a request, lost answers, limits with rows that cannot be evicted, workers that die | a row is decided by its lease holder only; delivered means received; limits hold; deduplication never hides a state; old rows close; the newest state arrives |
| Inventory store (`database.py:81-289`) and log (`inventory_sync.py:91-163`) | `scans`, `assets`, `inventory_sync_changes` | ingest, initialize (with bootstrap and upgrade) | reports out of order, equal times, future dates, assets that share a key, upgraded databases | the newest report wins; the log folds to the inventory; each entry changes something |
| Synchronization reads (`inventory_sync.py:166-210`, `mcp_server.py`) | client: cursor, watermark, mirror | snapshot pages, changes | ingest between pages, replays after a crash | pages of a snapshot belong together; mirrors are states that were true and converge |
| Runtime spool (`runtime.py`, `agent.py:141-175`) | spool and pending file, upload lock | append, claim, send batches, acknowledge | several uploaders, crashes between rename and acknowledgement, short writes, repeated requests | no accepted event is lost or counted twice |
| Agent sessions (`database.py:557-609`) | `runtime_events`, `agent_sessions` | ingest_runtime_events | repeated and reordered events | counts equal stored events; the latest observed event decides |
| Agent's inventory upload (`agent.py:78-245`) | one-slot queue, upload thread, last_state, identity | collect, skip, enroll, send, restart, send_once of other processes | late reports, lost answers, stale last_state | acknowledged means stored; never backwards; converges |
| Setup and identity (`self_service.py:552-604`, `agent.py:78-90`, `configuration.py`) | `agent.json`, its temporary file, server's devices | load, migrate, enroll, report, re-enroll on 401, restart | setup and agent enroll and write the same files at once, die at any step | a finished setup leaves a known identity in use; duplicates are bounded by failures |
| Snapshot and rollback (`upgrade.py`, `install.sh`) | installation, backup, failed-state directories | snapshot, replace, restore, preserve evidence, start | kills, reboots, reruns of a half-done restore | no evidence destroyed; exact restoration; evidence accepted meanwhile survives |
| Browser bootstrap codes (`server.py:117-179`) | codes with expiry | mint, redeem | threads, expiry | a code signs in once, in its minute, in the run that minted it; codes of other windows take none away |
| Scanner cache (`detector.py:936-1008`) | cached static scan, revision | collect_inventory | changes during a scan | no stale cache under an unchanged revision; a call sees what preceded it; converges |
| Service commands (`self_service.py:130-552, 803-1048`) | launchd's or systemd's jobs, definitions, `server.env`, who answers the port | setup, start, stop, restart, uninstall; exporter service | partial failure, order, dependencies of units, foreign or stale servers, crashes and logins meanwhile | a command that returns has done what it says; setup runs what it wrote; a disabled export stops and is never orphaned |
| Hook adapters (`adapters.py`) | settings file of the AI application, its backup | install, uninstall | the user saves at any time, commands die | a save of the user survives unless it fell into a command; the backup is the first state |
| Demo lab (`demo.py`) | workloads, what the demo owns | start, adopt, end, clean up | signals between any two steps | an ended demo leaves behind only what its code could no longer end |
| Validation, projections, path policy, encoding, CLI, SDK | none | pure functions, I/O | | left out, see section 8 |

The parts interact by HTTP requests (agent to server, exporter to collector), by SQLite transactions under
`BEGIN IMMEDIATE` shared by the server's threads, exporter and MCP processes, by files with locks or renames (spool,
`agent.json`), and through the service manager.

## 2. Plan

In the order of importance; everything but the last entry is done.

1. `OtlpOutbox` with the abstract `EventDelivery`: the most concurrent part.
2. `InventoryStore` and `FeedConsumer`, which extends it: the system's record and its readers, with projections
   that fail.
3. `AgentSessions` and `RuntimeSpool`, which extends it; `AgentUpload`.
4. `InstallRollback` and `EndpointIdentity`: what happens to all of it on installation.
5. `LocalServices`, `ScannerCache`, `BrowserSignIn`, `HookAdapters`, `DemoLab`: the endpoint's smaller concurrent parts.
6. Theorems: all safety that the passing runs check, two refinements of `EventDelivery`, the causes of what the violation runs
   show, and the well-founded part of progress.
7. Left: the interplay of a rollback with consumers' cursors. Abstract specifications of a last-writer-wins register per device
   and of an exactly-once set would repeat `NewestWins`, `NeverBackwards`, `SessionsCountEvents` and `NothingElseLost`.

## 3. Modules

Each specification is parameterised by CONSTANTS, has one action per operation or step, and names every bound.
`MC*` modules only give constants their values.

**`OtlpOutbox`**. `outbox` maps the id of an event (key and ingest number, as the deterministic id does)
to its row; "unused", "purged" and "discarded" stand for rows not inserted yet or deleted. `asset_state` is
`otlp_asset_state`, `totals` the counters of `otlp_export_status`. An ingest transaction is the sequence
`BeginIngest`, one of `SkipUnchanged`, `DropOversize`, `Supersede`, `Evict`, `RejectNew`, `Enqueue` per step of
each key, `Commit`; `writer` is the database's write lock, and every other transaction waits for it. A worker is
`Claim` (recovery of lapsed leases, superseding, ageing, selection and leasing in one transaction, as in
`otlp_store.py:77-122`), `RejectInvalid`, then per request `BeginAttempt`, `Answer`, `Finish`, and `Cleanup`; `Stop` is a
stop signal, `Halt` a crash or a "database is locked". Abstractions: a rolled-back transaction is a stuttering
step; the worker's name stands for the random lease token; a lease expires at any time, so renewal and the
attempt counters are left out; one cutoff stands for the server's maximum age and the
exporter's seven days; the claim limit of 500 rows is not reached; the split into requests is nondeterministic
(encoded sizes are not `payload_bytes`).

**`EventDelivery`** is the promise: an accepted event is open until its delivery is confirmed or it is
abandoned; confirmed events were received; nothing closed reopens. `OtlpOutbox` and `RuntimeSpool` instantiate it (`AtLeastOnce`).

**`InventoryStore`**. `scans`, `assets` and `log` are the tables; a scan keeps the report it came with as history.
`IngestOutdated` and `IngestCurrent` are the two outcomes of `ingest`, with `Changes` for
`record_scan_changes`; `IngestUnlogged` is an ingest whose projection raises and is rolled back to its savepoint while the
inventory is kept, and `lagging` the devices whose log is behind because of it, until the next current report; `Initialize` is a start of the server or of an MCP process, with
`Bootstrapped` for `bootstrap_inventory_sync`. `Legacy` gives databases from before the
presence column; their rows have `present = "null"`, and a history may hold a header dated beyond the clock tolerance
(`Misdated`). What the code reads in an order (report order, key order, descending fingerprints) is put into it by
`InOrder`. A repeated scan id changes nothing and is a stuttering step.

**`FeedConsumer`** extends it with a client that follows `docs/inventory-sync-mcp.md` (external) and the
server's `snapshot` and `changes`.

**`AgentSessions`** is `ingest_runtime_events` on one device; **`RuntimeSpool`** extends it with the two files, hooks
that append (a write can be short), and uploaders (agent, setup, command line) under the upload lock.
Appending, and renaming and reading, are single steps: both run under the spool's lock. A request carries the number of the attempt,
so an old copy can arrive late.

**`AgentUpload`**. `slot` is the one-slot queue, `last` and `recent` are `last_state` and "less than
`report_interval` ago". The number of changes of the endpoint stands for `observed_at`. `ReportOnce` is a report of setup or of the command line.

**`InstallRollback`**. Targets are copied, moved and copied back one by one in the order of `targets()`, one of
them the database; a file is the installer run that wrote it, a database the set of what was accepted into it.
`StartServer` creates a missing database as `Database.initialize` does. Kills, failures, reboots and repeated
restores can happen between any two steps. A database is one unit with its `-wal` and `-shm` files.

**`EndpointIdentity`**. `config` is what setup and the agent have in memory, `file` and `tmp` are
`agent.json` and `agent.json.tmp`, which both use. Writing the temporary file and renaming it are two steps. A device's number stands for its token. Under systemd the
agent stops with the server it requires, under launchd it does not: `Serve` allows both. A stop of the agent that fails on Linux is ignored
(`KeepAgent`): that setup finishes too, with the agent that ran before, and `Settled` asks of it only that the saved identity is known.
One setup runs at a time.

**`LocalServices`**. A command is the sequence of steps it has left (`work`), so that it can be killed, and the machine
rebooted, between any two. `Loads` and `Unloads` are what launchd and systemd do; under systemd the agent's unit requires the
server's. `Bind`, `Crash`, `StrayStarts` and `StrayQuits` are the server's process and one that nobody manages on its
port; `Heard` is a health check that a slow server may fail to answer. The histories `slips` and `forsaken` name what went wrong in ways the code does not see, so that the properties can say
that nothing else is needed to break them. `start` and `stop` wait for the server only when `server.env` is there, `start` only with an
administrator token: `ThenForServer` leaves the wait out or not, at each call. Enrollment is one step here; it is `EndpointIdentity`'s subject.

**`ScannerCache`** is `collect_inventory` with its reads of metadata and its scan root by root, so that the endpoint changes
between any two. Changes are counted; those that do not move metadata are counted apart. `force_static`, which no caller passes, is left out.

**`BrowserSignIn`** is minting and redeeming of codes by threads: `Pop` under the lock, `Redeem` or `RefuseExpired` after
it. The clock is a bounded number of ticks, of which `Life` and `Session` stand for 60 seconds and 8 hours.

**`HookAdapters`** is one settings file. Load, backup and replacement are steps between which the user may save and the
command may die. A save has hooks of the user's or none (`bare`): GitHub Copilot's file goes when no hook is left in it, whatever else the user
put there. The histories `race` and `plain` say of the last save whether it fell into a command, and whether it was bare: `UserHooksKept`
excuses a lost save for nothing else, and the backup for neither.
**`DemoLab`** is the demo's processes, with Python's signal handlers between any two steps; `missed` collects the workloads that a
signal, an `OSError` or one that outlives SIGKILL puts out of the code's reach, and `NothingLeft` lets no other survive.

The five share no variable and never call each other within the modelled steps; `MCEndpointHost` checks them in one run in
which one of them, `focus`, moves.

## 4. Runs

| Run | Instance | Properties |
|---|---|---|
| `outbox_workers` | two interchangeable workers, one asset and its device, two ingests; one state the encoder refuses, one over the byte limit; a queue of two rows and three bytes | `TypeOK`; `CapacityBound`, `Accounted`, `DedupSound`; `LeaseExclusive`: a live lease is decided by its holder's step only; `NoStaleClaim`: a replaced state is never picked up; `AtLeastOnce`: implements `EventDelivery` |
| `outbox_progress` | queue of one row; a state heavier than the batch's byte budget; rows that grow too old; answers accept, reject part, or get lost | `OldEventsClose`, `LatestStateArrives` |
| `store` | one device, four prints, two of them with one key and one not exported, new and upgraded databases, three scans at two times, a projection that fails, a restart; a consumer with pages of one record and a crash | `NewestWins`, `FeedIsCurrent`, `EveryChangeChanges`; `ConsumerTypeOK` (with the store's `TypeOK`), `SnapshotConsistent`, `MirrorFaithful`, `MirrorConverges` |
| `store_restart` | two prints with one key, a restart | `RestartIsSilent` is violated (section 7) |
| `spool` | two uploaders, three events of a session, two failures, one short write, spool limit | `AtLeastOnce`: implements `EventDelivery`; `NothingElseLost`, `SessionsCountEvents`, `LatestDecides`, `EveryEventArrives` |
| `upload` | two states, three changes, two failures, a report of another process | `AcknowledgedIsStored`, `NeverBackwards`, `InventoryConverges` |
| `upload_skipped` | two states, three changes, one failure | `ChangeIsUploaded` is violated (section 7) |
| `rollback` | three targets, three installer runs, four failures, three reports | `NothingDestroyed`, `RestoredExactly`, `FirstRestoreKeeps` |
| `rollback_repeated` | two runs, two failures | `RepeatedRestoreKeeps` is violated (section 7) |
| `identity` | three setups, three failures, two databases that lose devices | `TypeOK`, `Settled`, `EnrolledForCause` |
| `host` | services: both platforms, all commands, unbounded; scanner: two roots, each moved and patched once, one fault; sign-in: two codes, two threads, two runs of the server, six ticks; demo: two workloads; hooks: two events, two configurations, two saves | `DeliveryStops`, `SetupRunsNew`, `CommandsDo`; `CacheSound`, `SeesEarlierChanges`, `ScannerConverges`; `SingleUse`, `CodesKept`; `NothingLeft`; `UserHooksKept` |
| `services_restart` | the services | `RestartKeepsOthers` is violated (section 7) |

Type invariants of spool, upload, rollback and the parts of `host` are theorems and not checked again by a run.

Bounds and why they are enough. The outbox needs two workers for every conflict over a lease (a third only repeats
the second), two ingests of a key for every replacement, and limits below what two ingests enqueue so that eviction
and refusal happen; a row heavier than a batch may be has to be sent alone (the mutant `BatchWithinBudget` never sends it).
The store needs three scans: an older one after a newer one, and one more that builds on the result;
two times suffice to be older, equal or newer. The consumer's page of one record puts an ingest between any two
records. The spool needs a third event to follow the one a short write joins. An upload needs three changes to
return to a state and leave it again. Installer runs and setups are bounded by three: one that is interrupted, one
that meets what it left, and one that meets what that left. (`EnrolledForCause` was also tried with more setups before it was
proved for any number.) The services need no bound: their state is finite. The scanner needs a root read before a change and one
read after it; sign-in needs two threads on one code, a code that expires while another lives, a restart between them, and time for a
session to end; two workloads
put a signal between their launches. Failure bounds are finite because liveness is asked only once failures end.
Symmetry is used for interchangeable workers and reports, in runs without temporal formulas of liveness.
`CHECK_DEADLOCK FALSE` is set where a bounded system has nothing left to do.

Every property of a passing run has a mutated definition beside the one it mutates (the comments "Mutant: ...");
with it in place of the original TLC finds the property violated.

## 5. Fairness

* Outbox: weak fairness of the server's transactions, of time (leases expire, retries come due, rows age) and of
  each worker's next step, because services restart exporters and `run` loops. `LatestStateArrives` additionally assumes `Healthy(i)`:
  strong fairness of beginning, accepting and finishing the request for event `i`. Without it a collector may refuse
  forever, which the system cannot help. `OldEventsClose` does without.
* Consumer: it keeps polling. Restarts of the server complete.
* Spool: some uploader keeps flushing (`_upload_runtime` loops with a bounded backoff) and the network delivers or loses;
  failures are finitely many.
* Scanner: the agent keeps calling `collect_inventory` and time passes (`Advance`, `Lapse`); the endpoint changes and calls raise
  finitely often. `HostSpec` gives the same fairness to the scanner when it is what moves. No other part of the host promises progress.
* Upload: collecting, time and the upload thread's steps are weakly fair; `Take` is strongly fair because the idle thread
  polls every 0.2 seconds and a snapshot waits at least ten seconds before the next replaces it.
* Lock starvation inside SQLite's busy timeout is not modelled beyond `Halt`.

## 6. Proofs

Every theorem holds for all values of the constants that the named assumptions allow (`OutboxAssumption`, `StoreAssumption`, `ConsumerAssumption`,
`SpoolAssumption`, `EventAssumption`, `RollbackAssumption`, `UploadAssumption`, `IdentityAssumption`, `ScannerAssumption`, `SignInAssumption`, `HooksAssumption`), which
TLC evaluates in the runs. Safety is proved from an inductive invariant that TLC checked first; what each adds to the property, and why it must:

`OtlpOutbox_proofs`

* `TypeCorrect`: `Spec => [](TypeOK /\ TransactionOK)`. `TransactionOK` says that the key being
  made room for is one of the transaction's own and that no key is treated twice; without it the typing of `Enqueue` is not inductive.
* `DedupCorrect`: `Spec => []DedupSound`. `DedupInv` adds that an entry of the deduplication
  table names a row that was issued, that rows of the transaction under way are the newest of their keys, that what a worker holds in a request
  answered "ok" was received, and that a delivered row was received. `DedupSound` alone is not
  inductive: `FinishDelivered` keeps the entry of a row that leaves the queue, which is sound only because an "ok" answer implies
  reception.
* `OutboxImplementsDelivery`: `Spec => AtLeastOnce`, the refinement of `EventDelivery`. The argument goes through the fate of a
  row (unused, open, delivered, failed, dropped). Lemma `StepEffect`: every step drops, confirms or fails a set of open rows, opens one
  unused row, or leaves all fates alone, and counts accordingly. It needs `DeliveryInv`, which is `DedupInv` with `Fresh` (ids of
  later ingests are unused) and `HeldIssued` (workers hold issued rows).
* `EveryEventAccounted` (`[]Accounted`) follows from `StepEffect` by cardinalities.
* `QueueIsBounded`: `Spec => []CapacityBound`, events and bytes. Only `Enqueue` can add to the undelivered rows, and its guard makes
  room (`EnqueueFits`); no other step changes the payload of a row (`HashesKept`). The sum of payload sizes is handled by the lemmas of `DataInduction`.
* `LeasesAreExclusive` (`LeaseExclusive`) and `ClaimsAreCurrent` (`NoStaleClaim`) are action properties, proved action by
  action from `DeliveryInv`.

`FeedConsumer_proofs`, the store beside its consumer

* `StoreTypes`, `InventoryIsNewest` (`[]NewestWins`), `LogIsCurrent` (`[]FeedIsCurrent`) and `LogHasNoRepeats`
  (`[]EveryChangeChanges`) are theorems of the store alone. What an ingest or a start appends is a batch: entries of different keys, each of
  which changes its key (`Sound`), after which the log says of every key what the report says (`Tells`). `ChangesSound` shows it of one
  report, `BootstrapSound` of a start, device by device; `BatchDiffers` and `Told` carry it to the log. `ReportShown` and
  `InventoryStays` do the same for the assets. `StoreInv` adds that the log of a server that never started is empty.
* The upgrade is the initial state: `LegacyRows` replays a history of any length, and `LegacyWins` shows that, unless a header in it
  was misdated, the last report to be reconciled is the newest and that equal counts mean equal sets.
* `ConsumerTypes`, `PagesBelongTogether` (`[]SnapshotConsistent`), `CopyWasTrue` (`[]MirrorFaithful`): the log only grows
  (`LogGrows`), so the states at a watermark or a cursor stay what they were (`PastKept`). `Followed` adds what `MirrorFaithful` lacks
  to survive a crash: what is read again is one page at most, so one read brings the copy back to the furthest cursor.
* `CopyIsNewestReport` joins both halves: a consumer that has read the whole log (`UpToDate`) has of every device the assets of its
  newest report and no others. The devices it leaves out wait for a projection (`lagging`) or for their first report after an upgrade (`Unreported`).
* `PollsApproach`: every poll lowers `Distance`, the pages and entries left to read, which is zero exactly for an up-to-date
  consumer with a persisted cursor.
* `RestartsAreExplained`: a restart appends entries only for lagging devices and for keys whose assets differ and are equally present
  (`Ambiguous`). `RestartsAreSilent`: where a key has one asset and no projection fails, `RestartIsSilent` holds.

`InstallRollback_proofs`

* `TypeCorrect`: `Spec => []TypeOK`, whose last conjunct says that a running server has its database. It needs that
  services are down during a snapshot and a restore (`Quiet`) and that a restore has made its directory (`DirectoryMade`).
* `EvidenceKept`: `Spec => []NothingDestroyed`. `KeepInv` adds that the three steps that write over a
  database write over an empty place: the backup gets its database once (`CopiedOnce`), the directory of the current run has
  none before the live one is moved there (`MovedOnce`), and the live one is gone when the backup is copied back (`Vacated`).
  The lemma `HeldGrows` covers the steps that only add rows.
* `FilesRestored`: `Spec => []RestoredExactly`. A restore has treated a prefix of the targets: those it passed are as the backup
  has them and the one it has moved is gone (`Passed`), and so are all once it has finished (`AsSaved`).
* `EvidenceMerged`: `Spec => []FirstRestoreKeeps`. `MergeInv` follows what the server accepted since the snapshot: it is in the
  live database, then in the one this run moved away (`LaterHeld`), until the backup is back (`BackupBack`) and the merge adds it.
* `RepeatedRestoreMisses`: what a repeated restore lacks is in the directories of its earlier runs. `AsideInv` says that the disk holds
  what the server accepted and nothing else (`NothingInvented`), and that the rows of this run's directory are merged.

`AgentUpload_proofs`: `TypeCorrect`; `InventoryNeverBackwards` (`NeverBackwards`); `AcknowledgedStored`
(`[]AcknowledgedIsStored`). `Agreement` says that snapshots of one time are equal wherever they are (queue, memory, network, server), `TokensKept` that
the file has no token that memory lacks and that devices are bounded by failures, and `StoredInv` that what
is answered is stored already, before it becomes `last`. `SkipsHaveCauses`: until a request fails, the agent restarts or another process
reports, acknowledged, reported and requested snapshots are in step (`InStep`), so that no snapshot is skipped wrongly.

`EndpointIdentity_proofs`

* `TypeCorrect`: `Spec => [](TypeOK /\ MemoryOK)`: no configuration, in a file or in memory, asks for an identity beside the one it has.
* `SetupSettles`: `Spec => []Settled`. While setup reports and restarts the agent, an agent that was already running can
  rename its own identity over the file or leave it in the temporary file; `SettledInv` says that all of these are known to the server,
  for a setup that restarted the agent and for one that could not stop it.
* `EnrollmentsHaveCauses`: `Spec => []EnrolledForCause`. A potential argument: `SetupMay` and `AgentMay` say which of the two
  can still enroll without another cause, and `issued + Chances <= 1 + 2 * (failures + resets)` is inductive. A quiet step gives nobody a
  chance (`SetupIsQuiet`, `AgentIsQuiet`), an enrollment uses one up (`EnrollSpends`), a failure or a lost database pays for two
  (`CausesCount`).

`RuntimeSpool_proofs`

* `SpoolTypeCorrect` (`[]TypeOK`), `SessionsAreSums` (`[]SessionsCountEvents`), `LatestEventDecides` (`[]LatestDecides`). A batch is
  folded into the tables event by event. `UpsertRight`: one step of the fold keeps what both properties say of the tables (`RightTables`).
  `BatchRight` carries it over a batch of any length.
* `NothingElseIsLost`: `Spec => []NothingElseLost`. `SpoolInv` adds that the ids in the files are those handed out (`UniqueIds`); that
  every event of the file under way is stored, in the request that is awaited or not yet sent (`UnderWay`), so that deleting the file loses
  nothing; and that a torn last line owes one event at most (`Costs`).
* `SpoolImplementsDelivery`: `Spec => AtLeastOnce`, the second refinement of `EventDelivery`: open is what the files hold, delivered what is
  stored and in no file, nothing is abandoned. Every step appends a new event, stores events that are in a
  file, or removes from the files what is stored (`Moves`). It needs `Backed`: no request, however late, carries an event that is neither filed nor stored.
* `FlushingApproaches`: every step of an uploader or of the network, the loss of a request included, lowers `WorkLeft`; who holds the lock has
  something to send or to wait for, and who waits has a request under way or an answer (`NobodyStuck`). Only hooks and failures add work.

`EndpointHost_proofs`, the five parts of `host`

* `ScannerTypeCorrect`, `CacheIsSound`, `CallsSeeEarlierChanges`. `ScannerInv` orders the counters: what
  the cache remembers as metadata, what it holds, and what is on the disk (`CacheBetween`), and the same for the call under way.
* `CallsAtRestAreExact`: a call during which nothing changed returns the endpoint as it is, but for changes that move no metadata when the
  refresh interval forced no scan; no result is ahead of the endpoint (`NotAhead`). `CallsEnd`: each step of a call leaves fewer
  (`CallLeft`), whatever changes meanwhile; it assumes that the roots are finitely many.
* `SignInTypeCorrect`, `SingleUseHolds`, `CodesAreKept`. `SignInInv`: a code is in at most one place, in
  the map, in a thread's hands, or used (`Places`).
* `DemoTypeCorrect`, `NothingIsLeft`, from: a workload that lives is owned, just launched or out of reach, and what an end leaves
  owned is out of reach (`Tracked`).
* `HooksTypeCorrect`, `UserHooksAreKept`, from: the draft holds the user's last save unless that was made under the command, and then
  the file holds it until the command replaces it; a backup exists before anything but such a save is replaced (`HooksInv`).
* `ServicesTypeCorrect`, `DeliveryIsStopped`, `SetupRenews`, `CommandsAreDone`. The services have no constant and the run is
  exhaustive; the proof says why they are right. The steps left of a command are a tail of what it began with plus
  the steps that belong to the one just done (`Shape`). For each promise of a command, `ServicesInv` says that it is kept
  already or that a step that will keep it is left; and for each step left, that none that would undo it comes after (`InOrder`, `Misplaced`).
  `RestartCost`, a part of `CommandsDo`, is the exact cost of what the run `services_restart` shows.

`DataInduction` is what the proofs about recursive functions and sums share. The library's induction theorems take an operator as a parameter,
which the provers cannot instantiate; here the property is a set instead (of numbers, or of subsets), and the
lemmas follow from the least number of a set. `Recursion` gives a recursive function its values; `SumRule`, `SumAny`
and `SumAtMost` are the facts about sums over finite sets.

Only model-checked: all liveness, as fairness and ENABLED are out of the prover's reach. What is proved of it is the well-founded part: the
steps that fairness promises bring the goal nearer (`PollsApproach`, `FlushingApproaches`, `CallsEnd`).
The four properties of section 7 do not hold; section 7 names the theorem that says how far each of them fails.

## 7. Where the code and its documents disagree

Found by a run:

* `store_restart`: bootstrap reads present rows in another order than ingest saw them, so with two assets under one key every
  restart records an upsert although nothing changed; `docs/inventory-sync-mcp.md:71` excludes that. `RestartsAreExplained` proves that this and an
  earlier failed projection are the only causes.
* `upload_skipped`: after a report that was accepted but whose answer was lost, a return to the acknowledged state is skipped for up to
  `report_interval`, while `docs/scanning-performance.md:21` says changes are uploaded immediately. `SkipsHaveCauses`: without a failed request, a
  restart or a report of another process it does not happen.
* `services_restart`: under systemd, restarting only the server stops the agent that requires it and does not start it again, while
  `docs/deployment-linux.md:276-279` lists `edgedisco restart server` as a command that targets an individual service. `RestartCost` (in `CommandsAreDone`) says that no other
  service is ever hit.
* `rollback_repeated`: a restore run again after an unfinished one merges only the database its own run moved away, so the evidence in the first
  failed-state directory is not merged (it is not destroyed: `NothingDestroyed`); the docstring at `upgrade.py:197` calls repetition idempotent. `RepeatedRestoreMisses`: all
  that is missed is in the directories of earlier runs of that restore, so merging all of them would repair it.

Met while modelling, without a run of their own:

* `docs/spec/SPEC-001-OTLP-INVARIANTS.md:45` retains events on any HTTP 5xx, `otlp_exporter.py:49` on 502, 503 and 504 only;
  line 43 promises FIFO order by id, `otlp_store.py:107` orders due rows by creation, so a row that waits for its retry is overtaken.
* `runtime.py:219` ignores the count `os.write` returns: after a short write the next event joins the torn line and is lost too.
  `NothingElseLost` shows that this is all that is lost.
* `database.py:590`: the newest event that names a model does not set the session's model if a newer event without one came first.
* `inventory_sync.py:93-95` says an upgrade with unknown membership waits "instead of resurrecting old assets". If a header dated
  beyond the clock tolerance is in the history, its rows hide those of the newest honest scan, and equal counts can then make an asset
  current that the newest scan did not contain: `NewestWins` excludes such histories (`Misdated`).
* `self_service.py:578` writes back a configuration loaded before the server's restart, over the identity an agent got in
  between; `EnrolledForCause` bounds the duplicates that follow.

## 8. Not modelled

* Recognition of applications, executables, extensions and processes (`detector.py`, `fingerprint_library.py`), path policy and
  fingerprints: I/O and pattern matching without state. Their cache is modelled.
* Validation, encoding, the exporter's configuration (`validation.py`, `otlp_encoder.py`, `otlp_config.py`): pure functions. What
  the models need of them is an assumption (`validate_report` refuses a repeated fingerprint) or a constant (`BadHash`: what the encoder refuses).
* Pages, summaries, CSV exports, freshness queries, MCP tools: read-only. The MCP audit log only appends.
* The launcher, the PATH block, purge, the contents of service definitions and `server.env`, the command line and the SDK: files and wording.
* A database is moved with its `-wal` and `-shm` files as one unit (`upgrade.py:170`): a kill between them is SQLite's own recovery.
* SQLite itself: a transaction under `BEGIN IMMEDIATE` is atomic and isolated.
