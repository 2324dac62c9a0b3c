---------------------------- MODULE FeedConsumer ----------------------------
(***************************************************************************)
(* A consumer of the synchronization tools beside the running store: it    *)
(* pages through snapshot at one watermark, then follows changes from its  *)
(* persisted cursor (inventory_sync.py; the protocol of the client is that *)
(* of docs/inventory-sync-mcp.md).  Reports arrive between any two calls,  *)
(* and the consumer may crash between any two steps.                       *)
(***************************************************************************)
EXTENDS InventoryStore

CONSTANTS
    Limit,        \* page size
    MaxCrashes    \* bound on crashes of the consumer

ASSUME ConsumerAssumption == Limit \in Nat \ {0} /\ MaxCrashes \in Nat

VARIABLES
    phase,      \* "new", "paging" or "following"
    watermark,  \* of the snapshot it pages through
    after,      \* last asset key of the pages it has
    mirror,     \* external: its copy of the inventory, by key
    taken,      \* the next_cursor it has applied
    cursor,     \* the next_cursor it has persisted
    reach,      \* history: the furthest cursor it ever applied
    crashes

consumer == <<phase, watermark, after, mirror, taken, cursor, reach, crashes>>
allvars == <<vars, consumer>>

Empty == [k \in Key |-> Gone]

ConsumerTypeOK ==
    /\ TypeOK
    /\ phase \in {"new", "paging", "following"}
    /\ watermark \in 0..Len(log)
    /\ after \in Nat
    /\ mirror \in [Key -> Evidence \cup {Gone}]
    /\ {taken, cursor, reach} \subseteq 0..Len(log)
    /\ crashes \in 0..MaxCrashes

ConsumerInit ==
    /\ Init
    /\ phase = "new"
    /\ watermark = 0 /\ after = 0
    /\ mirror = Empty
    /\ taken = 0 /\ cursor = 0 /\ reach = 0
    /\ crashes = 0

-----------------------------------------------------------------------------
\* The first page of snapshot reads the watermark and then the rows: what is
\* committed between the two reads lies above the watermark.
BeginSnapshot ==
    /\ restarts > 0
    /\ phase = "new"
    /\ phase' = "paging"
    /\ watermark' = Len(log)
    /\ after' = 0
    /\ mirror' = Empty
    /\ UNCHANGED <<vars, taken, cursor, reach, crashes>>

\* Mutant: the page shows the state of now.
ListedNow(n, a) == {k \in Key : k > a /\ Current(k) # Gone /\ n \in Nat}
\* The keys present at sequence number n that sort after key a.
Listed(n, a) == {k \in Key : k > a /\ StateAt(n, k) # Gone}

\* The first Limit keys of S.
Page(S) == {k \in S : Cardinality({j \in S : j < k}) < Limit}

\* The entries of one read of changes.
\* Mutant: the last entry of a full page is skipped over.
UnreadSkipping(from) == {i \in DOMAIN log : i > from /\ i < from + Limit}
Unread(from) == {i \in DOMAIN log : i > from /\ i <= from + Limit}
\* Mutant: the cursor names the entry to read next.
NextCursorAfter(from) == IF from + Limit < Len(log) THEN from + Limit + 1 ELSE Len(log) + 1
NextCursor(from) == IF from + Limit < Len(log) THEN from + Limit ELSE Len(log)

\* One page: rows of the snapshot at the watermark, in key order.
SnapshotPage ==
    /\ phase = "paging"
    /\ LET left == Listed(watermark, after)
           page == Page(left) IN
         /\ mirror' = [k \in Key |-> IF k \in page THEN StateAt(watermark, k) ELSE mirror[k]]
         /\ IF page # left
            THEN /\ after' = CHOOSE k \in page : \A j \in page : j <= k
                 /\ UNCHANGED <<phase, taken, cursor, reach>>
            ELSE /\ phase' = "following"
                 /\ taken' = watermark /\ cursor' = watermark /\ reach' = watermark
                 /\ UNCHANGED after
    /\ UNCHANGED <<vars, watermark, crashes>>

\* One page of changes, applied in order.
ReadChanges ==
    /\ phase = "following"
    /\ cursor = taken
    /\ taken < Len(log)
    /\ LET next == NextCursor(taken)
           changed(k) == {i \in Unread(taken) : log[i].key = k} IN
         /\ mirror' = [k \in Key |->
              IF changed(k) = {} THEN mirror[k]
              ELSE LET last == log[CHOOSE i \in changed(k) : \A j \in changed(k) : j <= i] IN
                   IF last.present THEN last.state ELSE Gone]
         /\ taken' = next
         /\ reach' = IF next > reach THEN next ELSE reach
    /\ UNCHANGED <<vars, phase, watermark, after, cursor, crashes>>

PersistCursor ==
    /\ phase = "following"
    /\ cursor # taken
    /\ cursor' = taken
    /\ UNCHANGED <<vars, phase, watermark, after, mirror, taken, reach, crashes>>

\* A crash loses what is not persisted: a snapshot not completed starts again,
\* and changes applied since the cursor are read a second time.
Crash ==
    /\ crashes < MaxCrashes
    /\ crashes' = crashes + 1
    /\ \/ phase = "paging" /\ phase' = "new" /\ UNCHANGED taken
       \/ phase = "following" /\ taken' = cursor /\ UNCHANGED phase
    /\ UNCHANGED <<vars, watermark, after, mirror, cursor, reach>>

Consume == BeginSnapshot \/ SnapshotPage \/ ReadChanges \/ PersistCursor

ConsumerNext ==
    \/ Next /\ UNCHANGED consumer
    \/ Consume
    \/ Crash

ConsumerSpec == ConsumerInit /\ [][ConsumerNext]_allvars

\* The consumer keeps polling.
PollingSpec == ConsumerSpec /\ WF_allvars(Consume)

-----------------------------------------------------------------------------
(* Properties. *)

\* The pages of one snapshot belong together however the store changes between
\* them: all of them show the state at the watermark (snapshot).
SnapshotConsistent ==
    \A k \in Key :
      /\ phase = "paging" =>
           mirror[k] = IF k <= after THEN StateAt(watermark, k) ELSE Gone
      /\ phase = "following" /\ reach = watermark => mirror[k] = StateAt(watermark, k)

\* A consumer that follows the feed never holds an asset state that was not
\* true: each key is as it was at the cursor it applied or, where a crash made
\* it read changes again, as it was at the furthest one (changes).
MirrorFaithful ==
    phase = "following" =>
      /\ cursor <= taken /\ taken <= reach
      /\ \A k \in Key : mirror[k] \in {StateAt(taken, k), StateAt(reach, k)}
      /\ taken = reach => \A k \in Key : mirror[k] = StateAt(taken, k)

\* Once reports stop, every consumer of a started server ends with the inventory
\* the log has, across crashes, restarts and replayed changes.
MirrorConverges == <>[](restarts > 0 => \A k \in Key : mirror[k] = Current(k))

=============================================================================
