---------------------------- MODULE ScannerCache ----------------------------
(***************************************************************************)
(* The agent's scanner (detector.py): collect_inventory keeps the static   *)
(* evidence of its last full scan, and repeats that scan when the metadata *)
(* of a watched root has moved or the refresh interval has passed.         *)
(* Reading metadata and scanning go root by root, and the endpoint changes *)
(* between any two reads.  One thread calls it.                            *)
(*                                                                         *)
(* The number of changes of a root stands for what is found there; changes *)
(* that leave its metadata alone (an update in place, or one within the    *)
(* resolution of its timestamps) are counted apart.  Processes are listed  *)
(* anew by every call, so only a listing that fails is modelled.           *)
(***************************************************************************)
EXTENDS Naturals, FiniteSets

CONSTANTS
    Root,          \* watched roots
    MaxMoves,      \* bound on changes that move a root's metadata
    MaxPatches,    \* bound on changes that do not
    MaxScanFaults  \* bound on calls that raise

\* Every platform has roots to watch.
ASSUME ScannerAssumption ==
    /\ Root # {}
    /\ {MaxMoves, MaxPatches, MaxScanFaults} \subseteq Nat

VARIABLES
    moved,     \* by root: changes that moved its metadata
    patched,   \* by root: changes that did not
    call,      \* where collect_inventory is: "idle", "stat", "scan" or "merge"
    left,      \* roots this step of the call has yet to read
    revision,  \* the metadata this call has read
    found,     \* the evidence this call has found
    cached,    \* _static_assets; no root before the first scan
    known,     \* _cached_revision
    lapsed,    \* static_refresh_seconds have passed since the last static scan
    expired,   \* lapsed, as this call read it
    asked,     \* history: the endpoint when the call began
    faults

disk == <<moved, patched>>
cache == <<cached, known>>
scanner == <<disk, call, left, revision, found, cache, lapsed, expired, asked, faults>>

Static == [moved : Nat, patched : Nat]
Here(r) == [moved |-> moved[r], patched |-> patched[r]]
Blank == [r \in Root |-> [moved |-> 0, patched |-> 0]]
Unread == [r \in Root |-> 0]

ScannerTypeOK ==
    /\ moved \in [Root -> Nat] /\ patched \in [Root -> Nat]
    /\ call \in {"idle", "stat", "scan", "merge"}
    /\ left \subseteq Root
    /\ revision \in [Root -> Nat] /\ found \in [Root -> Static]
    /\ cached \in [Root -> Static] \cup {<<>>}
    /\ known \in [Root -> Nat]
    /\ lapsed \in BOOLEAN /\ expired \in BOOLEAN
    /\ asked \in [Root -> Static]
    /\ faults \in 0..MaxScanFaults

ScannerInit ==
    /\ moved = Unread /\ patched = Unread
    /\ call = "idle" /\ left = {}
    /\ revision = Unread /\ found = Blank
    /\ cached = <<>> /\ known = Unread
    /\ lapsed = TRUE /\ expired = FALSE
    /\ asked = Blank
    /\ faults = 0

-----------------------------------------------------------------------------
(* The endpoint. *)

Move(r) ==
    /\ moved[r] < MaxMoves
    /\ moved' = [moved EXCEPT ![r] = @ + 1]
    /\ UNCHANGED <<patched, call, left, revision, found, cache, lapsed, expired,
                   asked, faults>>

Patch(r) ==
    /\ patched[r] < MaxPatches
    /\ patched' = [patched EXCEPT ![r] = @ + 1]
    /\ UNCHANGED <<moved, call, left, revision, found, cache, lapsed, expired,
                   asked, faults>>

Lapse ==
    /\ ~lapsed
    /\ lapsed' = TRUE
    /\ UNCHANGED <<disk, call, left, revision, found, cache, expired, asked, faults>>

-----------------------------------------------------------------------------
(* collect_inventory. *)

BeginCall ==
    /\ call = "idle"
    /\ call' = "stat" /\ left' = Root
    /\ expired' = lapsed
    /\ asked' = [r \in Root |-> Here(r)]
    /\ UNCHANGED <<disk, revision, found, cache, lapsed, faults>>

Stat(r) ==
    /\ call = "stat" /\ r \in left
    /\ left' = left \ {r}
    /\ revision' = [revision EXCEPT ![r] = moved[r]]
    /\ UNCHANGED <<disk, call, found, cache, lapsed, expired, asked, faults>>

\* Mutant: the refresh interval is not looked at.
StaleByRevision == cached = <<>> \/ (revision # known /\ expired \in BOOLEAN)
\* Mutant: the metadata is not looked at once there is a cache.
StaleByAge == cached = <<>> \/ (expired /\ revision \in [Root -> Nat])
\* force_static, which nothing in the repository passes, is left out.
Stale == cached = <<>> \/ revision # known \/ expired

Decide ==
    /\ call = "stat" /\ left = {}
    /\ IF Stale THEN call' = "scan" /\ left' = Root
       ELSE call' = "merge" /\ UNCHANGED left
    /\ UNCHANGED <<disk, revision, found, cache, lapsed, expired, asked, faults>>

Scan(r) ==
    /\ call = "scan" /\ r \in left
    /\ left' = left \ {r}
    /\ found' = [found EXCEPT ![r] = Here(r)]
    /\ UNCHANGED <<disk, call, revision, cache, lapsed, expired, asked, faults>>

\* Mutant: the metadata is read again after the scan.
StoreNewRevision ==
    /\ call = "scan" /\ left = {}
    /\ call' = "merge"
    /\ cached' = found /\ known' = moved
    /\ lapsed' = FALSE
    /\ UNCHANGED <<disk, left, revision, found, expired, asked, faults>>
\* The cache is remembered under the metadata read before the scan.  The refresh
\* interval counts from the beginning of the call; it may lapse again at once.
Store ==
    /\ call = "scan" /\ left = {}
    /\ call' = "merge"
    /\ cached' = found /\ known' = revision
    /\ lapsed' = FALSE
    /\ UNCHANGED <<disk, left, revision, found, expired, asked, faults>>

\* The cached evidence and the processes of now are the inventory.
Merge ==
    /\ call = "merge"
    /\ call' = "idle"
    /\ UNCHANGED <<disk, left, revision, found, cache, lapsed, expired, asked, faults>>

\* The static scan raises and leaves the old cache, or the listing of the
\* processes raises and leaves the new one.
Raise ==
    /\ call \in {"scan", "merge"}
    /\ faults < MaxScanFaults
    /\ faults' = faults + 1
    /\ call' = "idle"
    /\ UNCHANGED <<disk, left, revision, found, cache, lapsed, expired, asked>>

Advance ==
    \/ BeginCall \/ Decide \/ Store \/ Merge
    \/ \E r \in Root : Stat(r) \/ Scan(r)

ScannerNext ==
    \/ \E r \in Root : Move(r) \/ Patch(r)
    \/ Lapse
    \/ Advance
    \/ Raise

ScannerSpec == ScannerInit /\ [][ScannerNext]_scanner

\* The agent keeps polling, and time passes.
PollingScanner == ScannerSpec /\ WF_scanner(Advance) /\ WF_scanner(Lapse)

-----------------------------------------------------------------------------
(* Properties. *)

\* Changes during a scan are never lost behind an unchanged revision: where the
\* metadata is as the cache remembers it, the cache has every change but those
\* that leave metadata alone (collect_inventory reads the revision first).
CacheSound ==
    cached # <<>> => \A r \in Root : known[r] = moved[r] => cached[r].moved = moved[r]

\* What a call returns includes every change that moved metadata before the call
\* began and, once the refresh interval has passed, every change at all.
SeesEarlierChanges ==
    call = "merge" =>
      /\ cached # <<>>
      /\ \A r \in Root : /\ cached[r].moved >= asked[r].moved
                         /\ expired => cached[r].patched >= asked[r].patched

\* Whatever happened during scans, and whichever calls raised, an endpoint that
\* no longer changes is in the end cached as it is.
CacheConverges == <>[](cached = [r \in Root |-> Here(r)])

=============================================================================
