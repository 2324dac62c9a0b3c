--------------------------- MODULE InventoryStore ---------------------------
(***************************************************************************)
(* The inventory server's tables: ingest (database.py) reconciles complete *)
(* reports that arrive in any order into the assets table, and             *)
(* record_scan_changes and bootstrap (inventory_sync.py) append what       *)
(* changed to the synchronization log.  Every operation is one transaction *)
(* under BEGIN IMMEDIATE.                                                  *)
(*                                                                         *)
(* A report that is sent again carries the scan id the server already has: *)
(* ingest then changes nothing, a stuttering step.                         *)
(***************************************************************************)
EXTENDS Integers, FiniteSets, Sequences, SequencesExt

CONSTANTS
    Device,
    Fingerprint,        \* asset fingerprints of a device
    Rank,         \* the order of the fingerprints
    KeyOf,        \* asset_key of a device's print, or NoKey if it is not exported
    Version,      \* what else the state hash of an asset depends on
    Report,       \* the asset lists a device can send
    Legacy,       \* histories of scans a database can hold before its upgrade
    MaxTime,      \* bound on observation times
    MaxScans,     \* bound on scans
    MaxRestarts,  \* bound on the runs of initialize after the first
    MaxUnlogged   \* bound on projections that fail

NoKey == 0
Evidence == [version : Version, running : BOOLEAN]
Item == [print : Fingerprint, version : Version, running : BOOLEAN]
Keys(d) == {KeyOf[<<d, p>>] : p \in Fingerprint} \ {NoKey}
Key == UNION {Keys(d) : d \in Device}

\* validate_report refuses a fingerprint that occurs twice.
Unrepeated(r) == \A i, j \in DOMAIN r : r[i].print = r[j].print => i = j
Scan == [dev : Device, obs : 1..MaxTime, future : BOOLEAN, assets : Seq(Item)]

ASSUME StoreAssumption ==
    /\ IsFiniteSet(Device) /\ IsFiniteSet(Fingerprint)
    /\ Rank \in [Fingerprint -> Nat]
    /\ \A p, q \in Fingerprint : Rank[p] = Rank[q] => p = q
    /\ KeyOf \in [Device \X Fingerprint -> Nat]
    /\ \A d, e \in Device : d # e => Keys(d) \cap Keys(e) = {}
    /\ Report \subseteq Seq(Item)
    /\ \A r \in Report : Unrepeated(r)
    /\ Legacy \subseteq Seq(Scan)
    /\ \A h \in Legacy : \A i \in DOMAIN h : Unrepeated(h[i].assets)
    /\ {MaxTime, MaxScans, MaxRestarts, MaxUnlogged} \subseteq Nat

VARIABLES
    scans,     \* scans, in rowid order; "assets" is the report (asset_count its length)
    assets,    \* assets, by device and fingerprint
    log,       \* inventory_sync_changes, in seq order
    restarts,  \* runs of initialize
    unlogged,  \* projections that failed
    lagging    \* history: devices whose last report did not reach the log

vars == <<scans, assets, log, restarts, unlogged, lagging>>

\* present is NULL in rows from before the upgrade.
Row == [version : Version, running : BOOLEAN, seen : 1..MaxTime,
        present : {"yes", "no", "null"}]
NoRow == [present |-> "none"]
Gone == [running |-> FALSE]
Entry == [key : Key, present : BOOLEAN, state : Evidence]

TypeOK ==
    /\ scans \in Seq(Scan)
    /\ assets \in [Device -> [Fingerprint -> Row \cup {NoRow}]]
    /\ log \in Seq(Entry)
    /\ restarts \in 0..(MaxRestarts + 1)
    /\ unlogged \in 0..MaxUnlogged /\ lagging \subseteq Device

-----------------------------------------------------------------------------
(* The synchronization log. *)

\* The entries of key k up to sequence number n, and the state they leave it in.
Upto(n, k) == {i \in 1..n : log[i].key = k}
StateAt(n, k) ==
    LET S == Upto(n, k) IN
    IF S = {} \/ ~log[CHOOSE i \in S : \A j \in S : j <= i].present
    THEN Gone
    ELSE log[CHOOSE i \in S : \A j \in S : j <= i].state
Current(k) == StateAt(Len(log), k)

\* Items of r with key k; one item speaks for its key: the first running one or,
\* if none runs, the first.
Places(d, r, k) == {i \in DOMAIN r : KeyOf[<<d, r[i].print>>] = k}
First(S) == CHOOSE i \in S : \A j \in S : i <= j
\* Mutant: the last item in the report wins.
SpeakerLast(d, r, k) == r[CHOOSE i \in Places(d, r, k) : \A j \in Places(d, r, k) : j <= i]
Speaker(d, r, k) ==
    LET S == Places(d, r, k)
        running == {i \in S : r[i].running} IN
    r[First(IF running = {} THEN S ELSE running)]

EvidenceOf(a) == [version |-> a.version, running |-> a.running]
Projected(d, r, k) ==
    IF Places(d, r, k) = {} THEN Gone ELSE EvidenceOf(Speaker(d, r, k))

\* The members of S from the lowest rank to the highest.
InOrder(S, rank) ==
    [n \in 1..Cardinality(S) |->
       CHOOSE x \in S : Cardinality({y \in S : rank[y] < rank[x]}) = n - 1]

\* Keys of the report that are news, in the order they first appear in it.
\* Mutant: a key is compared with its last recorded state, deleted or not.
UpsertedUnlessSeen(d, r) ==
    LET new == {k \in Keys(d) : /\ Places(d, r, k) # {}
                                /\ \A i \in Upto(Len(log), k) : log[i].state # Projected(d, r, k)}
    IN InOrder(new, [k \in new |-> First(Places(d, r, k))])
Upserted(d, r) ==
    LET new == {k \in Keys(d) : Places(d, r, k) # {} /\ Current(k) # Projected(d, r, k)}
    IN InOrder(new, [k \in new |-> First(Places(d, r, k))])
\* SQLite reads the previous entries from its index in key order.
\* Mutant: the presence of the last entry is not looked at.
RemovedAgain(d, r) ==
    LET old == {k \in Keys(d) : Upto(Len(log), k) # {} /\ Places(d, r, k) = {}}
    IN InOrder(old, [k \in old |-> k])
Removed(d, r) ==
    LET old == {k \in Keys(d) : Current(k) # Gone /\ Places(d, r, k) = {}}
    IN InOrder(old, [k \in old |-> k])

\* What record_scan_changes appends for the report r of device d.
Changes(d, r) ==
    LET up == Upserted(d, r)
        down == Removed(d, r) IN
    [n \in DOMAIN up |->
       [key |-> up[n], present |-> TRUE, state |-> Projected(d, r, up[n])]]
    \o [n \in DOMAIN down |->
          [key |-> down[n], present |-> FALSE, state |-> Current(down[n])]]

-----------------------------------------------------------------------------
(* Ingest. *)

ScansOf(s, d) == {i \in DOMAIN s : s[i].dev = d /\ ~s[i].future}

\* A report as new as the newest one replaces it; headers dated beyond the clock
\* tolerance do not count.
\* Mutant: future headers count.
OutdatedByFuture(d, obs) == \E i \in DOMAIN scans : scans[i].dev = d /\ scans[i].obs > obs
Outdated(d, obs) == \E i \in ScansOf(scans, d) : scans[i].obs > obs

ItemOf(r, p) == r[CHOOSE i \in DOMAIN r : r[i].print = p]
Reports(r, p) == \E i \in DOMAIN r : r[i].print = p

\* The rows of a device once report r is the newest.
\* Mutant: rows the report does not mention stay present.
ReconcileKeeping(rows, obs, r) ==
    [p \in Fingerprint |->
       IF Reports(r, p)
       THEN [version |-> ItemOf(r, p).version, running |-> ItemOf(r, p).running,
             seen |-> obs, present |-> "yes"]
       ELSE rows[p]]
Reconcile(rows, obs, r) ==
    [p \in Fingerprint |->
       IF Reports(r, p)
       THEN [version |-> ItemOf(r, p).version, running |-> ItemOf(r, p).running,
             seen |-> obs, present |-> "yes"]
       ELSE IF rows[p] = NoRow THEN NoRow
       ELSE [rows[p] EXCEPT !.running = FALSE, !.present = "no"]]

Header(d, obs, r) == [dev |-> d, obs |-> obs, future |-> FALSE, assets |-> r]

IngestOutdated(d, obs, r) ==
    /\ restarts > 0 /\ Len(scans) < MaxScans
    /\ Outdated(d, obs)
    /\ scans' = Append(scans, Header(d, obs, r))
    /\ UNCHANGED <<assets, log, restarts, unlogged, lagging>>

IngestCurrent(d, obs, r) ==
    /\ restarts > 0 /\ Len(scans) < MaxScans
    /\ ~Outdated(d, obs)
    /\ scans' = Append(scans, Header(d, obs, r))
    /\ assets' = [assets EXCEPT ![d] = Reconcile(@, obs, r)]
    /\ log' = log \o Changes(d, r)
    /\ lagging' = lagging \ {d}
    /\ UNCHANGED <<restarts, unlogged>>

\* The projection raises and is rolled back to its savepoint; the reconciled
\* inventory is committed without it.
IngestUnlogged(d, obs, r) ==
    /\ restarts > 0 /\ Len(scans) < MaxScans
    /\ unlogged < MaxUnlogged
    /\ ~Outdated(d, obs)
    /\ scans' = Append(scans, Header(d, obs, r))
    /\ assets' = [assets EXCEPT ![d] = Reconcile(@, obs, r)]
    /\ unlogged' = unlogged + 1
    /\ lagging' = lagging \cup {d}
    /\ UNCHANGED <<log, restarts>>

-----------------------------------------------------------------------------
(* Start-up: every server and every MCP process runs initialize. *)

\* The newest scan of device d: by observation, then by arrival.
Newest(d) ==
    CHOOSE i \in ScansOf(scans, d) :
      \A j \in ScansOf(scans, d) :
        \/ scans[j].obs < scans[i].obs
        \/ scans[j].obs = scans[i].obs /\ j <= i

SeenAt(d, t) == {p \in Fingerprint : assets[d][p] # NoRow /\ assets[d][p].seen = t}

\* Rows of unknown presence are current if the newest scan alone accounts for
\* every row last seen at its time.
\* Mutant: the count is not compared.
MembersSeen(d) ==
    IF ScansOf(scans, d) = {} THEN {}
    ELSE {p \in Fingerprint :
            \/ assets[d][p].present = "yes"
            \/ assets[d][p].present = "null" /\ p \in SeenAt(d, scans[Newest(d)].obs)}
Members(d) ==
    IF ScansOf(scans, d) = {} THEN {}
    ELSE LET scan == scans[Newest(d)] IN
         {p \in Fingerprint :
            \/ assets[d][p].present = "yes"
            \/ /\ assets[d][p].present = "null"
               /\ p \in SeenAt(d, scan.obs)
               /\ Len(scan.assets) = Cardinality(SeenAt(d, scan.obs))}

\* Members are read back in descending order of fingerprint.
Retained(d) ==
    LET down == InOrder(Members(d), [p \in Fingerprint |-> -Rank[p]]) IN
    [n \in DOMAIN down |->
       [print |-> down[n], version |-> assets[d][down[n]].version,
        running |-> assets[d][down[n]].running]]

\* A device without members is left alone.
Bootstrapped ==
    FlattenSeq([n \in 1..Cardinality(Device) |->
      LET d == SetToSeq(Device)[n] IN
      IF Members(d) = {} THEN <<>> ELSE Changes(d, Retained(d))])

Initialize ==
    /\ restarts <= MaxRestarts
    /\ restarts' = restarts + 1
    /\ log' = log \o Bootstrapped
    /\ lagging' = {d \in lagging : Members(d) = {}}
    /\ UNCHANGED <<scans, assets, unlogged>>

-----------------------------------------------------------------------------
\* Earlier releases reconciled rows the same way but recorded no presence.
LegacyRows(h, d) ==
    LET Late(n) == \E j \in 1..(n - 1) : h[j].dev = d /\ h[j].obs > h[n].obs
        rows[n \in 0..Len(h)] ==
          IF n = 0 THEN [p \in Fingerprint |-> NoRow]
          ELSE IF h[n].dev # d \/ Late(n) THEN rows[n - 1]
          ELSE Reconcile(rows[n - 1], h[n].obs, h[n].assets)
    IN [p \in Fingerprint |->
          IF rows[Len(h)][p] = NoRow THEN NoRow
          ELSE [rows[Len(h)][p] EXCEPT !.present = "null"]]

Init ==
    /\ scans \in Legacy
    /\ assets = [d \in Device |-> LegacyRows(scans, d)]
    /\ log = <<>>
    /\ restarts = 0 /\ unlogged = 0 /\ lagging = {}

Next ==
    \/ \E d \in Device, obs \in 1..MaxTime, r \in Report :
         \/ IngestOutdated(d, obs, r)
         \/ IngestCurrent(d, obs, r)
         \/ IngestUnlogged(d, obs, r)
    \/ Initialize

Spec == Init /\ [][Next]_vars

-----------------------------------------------------------------------------
(* Properties. *)

\* No report of d was reconciled since the presence column exists.
Unreported(d) == \A p \in Fingerprint : assets[d][p].present \in {"none", "null"}

\* Earlier releases also accepted reports dated beyond the clock tolerance.
Misdated(d) == \E i \in DOMAIN scans : scans[i].dev = d /\ scans[i].future

Evident(d) == {[print |-> p, version |-> assets[d][p].version,
                running |-> assets[d][p].running] : p \in Members(d)}

\* Whatever the order reports arrive in, the inventory of a device is what its
\* newest report says: a late report neither resurrects nor removes an asset
\* (ingest).  An upgraded database whose membership cannot be told shows
\* nothing, and never an asset the newest scan did not contain (bootstrap), unless
\* a header dated beyond the clock tolerance is in its history.
NewestWins ==
    \A d \in Device : ScansOf(scans, d) # {} =>
      LET newest == ToSet(scans[Newest(d)].assets) IN
      IF Unreported(d) THEN Misdated(d) \/ Members(d) \in {{}, {a.print : a \in newest}}
      ELSE Evident(d) = newest

\* Folding the log gives, for every exported key, the state of an asset that is
\* in the inventory, a running one if there is one; a key without assets in the
\* inventory is deleted (record_scan_changes).  A projection that failed is made
\* up for by the next report that is not outdated, or by the next start unless
\* the inventory is empty.
FeedIsCurrent ==
    restarts > 0 =>
      \A d \in Device \ lagging : \A k \in Keys(d) :
        LET here == {a \in Evident(d) : KeyOf[<<d, a.print>>] = k} IN
        IF here = {} THEN Current(k) = Gone
        ELSE /\ Current(k) \in {EvidenceOf(a) : a \in here}
             /\ Current(k).running = \E a \in here : a.running

\* Every entry of the log changes its key: consumers are told neither an upsert
\* of what they have nor a delete of what they lack.
EveryChangeChanges ==
    \A n \in DOMAIN log :
      LET before == StateAt(n - 1, log[n].key) IN
      IF log[n].present THEN before # log[n].state ELSE before # Gone

\* What the synchronization guide says and a restart does not keep: "an
\* unchanged asset does not create another change event"
\* (docs/inventory-sync-mcp.md).
RestartIsSilent ==
    [][(restarts > 0 /\ restarts' > restarts) => log' = log]_vars

=============================================================================
