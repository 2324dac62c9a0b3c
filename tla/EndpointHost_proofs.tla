------------------------ MODULE EndpointHost_proofs ------------------------
(***************************************************************************)
(* Proofs about the five parts of the endpoint that share no variable: the *)
(* scanner's caches, the browser sign-in, the demo lab, the hook adapters  *)
(* and the background services.                                            *)
(***************************************************************************)
EXTENDS ScannerCache, BrowserSignIn, DemoLab, HookAdapters, LocalServices,
        FiniteSetTheorems, SequenceTheorems, TLAPS

-----------------------------------------------------------------------------
(***************************************************************************)
(* Proofs about ScannerCache for every set of roots and any number of      *)
(* changes.  The numbers of changes only grow; the invariant orders what   *)
(* was read at the begin of a call, before the scan, by the scan and what  *)
(* is there now.                                                           *)
(***************************************************************************)

(***************************************************************************)
(* Type correctness.                                                       *)
(***************************************************************************)

LEMMA HereType ==
  ASSUME ScannerTypeOK
  PROVE  [r \in Root |-> Here(r)] \in [Root -> Static] /\ \A r \in Root : Here(r) \in Static
BY DEF ScannerTypeOK, Here, Static

LEMMA ScannerInitType == ScannerInit => ScannerTypeOK
<1>1. Unread \in [Root -> Nat] /\ Blank \in [Root -> Static]
  BY DEF Unread, Blank, Static
<1>2. 0 \in 0..MaxScanFaults
  BY ScannerAssumption
<1> QED BY <1>1, <1>2 DEF ScannerInit, ScannerTypeOK

LEMMA ScannerNextType == ScannerTypeOK /\ [ScannerNext]_scanner => ScannerTypeOK'
<1> SUFFICES ASSUME ScannerTypeOK, [ScannerNext]_scanner PROVE ScannerTypeOK'
  OBVIOUS
<1> USE ScannerAssumption
<1>1. ASSUME NEW r \in Root, Move(r) \/ Patch(r) PROVE ScannerTypeOK'
  <2>1. moved' \in [Root -> Nat] /\ patched' \in [Root -> Nat]
    <3>1. /\ moved \in [Root -> Nat] /\ patched \in [Root -> Nat]
          /\ moved[r] + 1 \in Nat /\ patched[r] + 1 \in Nat
      BY DEF ScannerTypeOK
    <3>2. CASE Move(r)
      BY <3>1, <3>2 DEF Move
    <3>3. CASE Patch(r)
      BY <3>1, <3>3 DEF Patch
    <3> QED BY <1>1, <3>2, <3>3
  <2> QED BY <1>1, <2>1 DEF Move, Patch, ScannerTypeOK, cache
<1>2. CASE Lapse
  BY <1>2 DEF Lapse, ScannerTypeOK, disk, cache
<1>3. CASE BeginCall
  BY <1>3, HereType DEF BeginCall, ScannerTypeOK, disk, cache
<1>4. ASSUME NEW r \in Root, Stat(r) PROVE ScannerTypeOK'
  BY <1>4 DEF Stat, ScannerTypeOK, disk, cache
<1>5. CASE Decide
  BY <1>5 DEF Decide, ScannerTypeOK, disk, cache
<1>6. ASSUME NEW r \in Root, Scan(r) PROVE ScannerTypeOK'
  BY <1>6, HereType DEF Scan, ScannerTypeOK, disk, cache
<1>7. CASE Store
  BY <1>7 DEF Store, ScannerTypeOK, disk
<1>8. CASE Merge
  BY <1>8 DEF Merge, ScannerTypeOK, disk, cache
<1>9. CASE Raise
  BY <1>9 DEF Raise, ScannerTypeOK, disk, cache
<1>10. CASE UNCHANGED scanner
  BY <1>10 DEF scanner, ScannerTypeOK, disk, cache
<1> QED BY <1>1, <1>2, <1>3, <1>4, <1>5, <1>6, <1>7, <1>8, <1>9, <1>10
        DEF ScannerNext, Advance

\* The scanner's variables keep their types.
THEOREM ScannerTypeCorrect == ScannerSpec => []ScannerTypeOK
BY ScannerInitType, ScannerNextType, PTL DEF ScannerSpec

(***************************************************************************)
(* What the reads of a call have in common with the endpoint.              *)
(***************************************************************************)

\* The cache is between what its revision says and what is there.
CacheBetween ==
    cached # <<>> => \A r \in Root : known[r] <= cached[r].moved /\ cached[r].moved <= moved[r]

\* Nothing was read before it happened.
BegunBefore ==
    \A r \in Root : asked[r].moved <= moved[r] /\ asked[r].patched <= patched[r]

\* The metadata read is between the begin of the call and now.
RevisionBetween ==
    \A r \in Root : call = "scan" \/ (call = "stat" /\ r \notin left) =>
        asked[r].moved <= revision[r] /\ revision[r] <= moved[r]

\* And so is, after it, the evidence scanned.
FoundBetween ==
    \A r \in Root : call = "scan" /\ r \notin left =>
        /\ revision[r] <= found[r].moved /\ found[r].moved <= moved[r]
        /\ asked[r].patched <= found[r].patched

ScannerInv ==
    /\ ScannerTypeOK /\ SeesEarlierChanges
    /\ CacheBetween /\ BegunBefore /\ RevisionBetween /\ FoundBetween

LEMMA ScannerInvInit == ScannerInit => ScannerInv
<1> SUFFICES ASSUME ScannerInit PROVE ScannerInv
  OBVIOUS
<1>1. CacheBetween /\ RevisionBetween /\ FoundBetween /\ SeesEarlierChanges
  BY DEF ScannerInit, CacheBetween, RevisionBetween, FoundBetween, SeesEarlierChanges
<1>2. BegunBefore
  BY DEF ScannerInit, BegunBefore, Unread, Blank
<1> QED BY <1>1, <1>2, ScannerInitType DEF ScannerInv

\* The parts of the invariant that a change of the endpoint can disturb bound
\* something by the counts of changes, which grow.
LEMMA ChangeKeeps ==
  ASSUME ScannerInv, NEW r \in Root, Move(r) \/ Patch(r)
  PROVE  CacheBetween' /\ BegunBefore' /\ RevisionBetween' /\ FoundBetween' /\ SeesEarlierChanges'
<1>1. /\ \A s \in Root : /\ moved[s] \in Nat /\ patched[s] \in Nat
                         /\ moved'[s] \in Nat /\ moved'[s] >= moved[s]
                         /\ patched'[s] \in Nat /\ patched'[s] >= patched[s]
      /\ UNCHANGED <<call, left, revision, found, cached, known, expired, asked>>
  <2>1. /\ moved \in [Root -> Nat] /\ patched \in [Root -> Nat]
        /\ moved' \in [Root -> Nat] /\ patched' \in [Root -> Nat]
    BY DEF Move, Patch, ScannerInv, ScannerTypeOK
  <2>2. \A s \in Root : moved'[s] >= moved[s] /\ patched'[s] >= patched[s]
    BY <2>1 DEF Move, Patch
  <2> QED BY <2>1, <2>2 DEF Move, Patch, cache
<1>2. /\ \A s \in Root : asked[s].moved \in Nat /\ asked[s].patched \in Nat
      /\ \A s \in Root : revision[s] \in Nat /\ found[s].moved \in Nat
      /\ cached # <<>> => \A s \in Root : cached[s].moved \in Nat
  BY DEF ScannerInv, ScannerTypeOK, Static
<1>3. CacheBetween'
  BY <1>1, <1>2 DEF ScannerInv, CacheBetween
<1>4. BegunBefore'
  BY <1>1, <1>2 DEF ScannerInv, BegunBefore
<1>5. RevisionBetween'
  BY <1>1, <1>2 DEF ScannerInv, RevisionBetween
<1>6. FoundBetween'
  BY <1>1, <1>2 DEF ScannerInv, FoundBetween
<1>7. SeesEarlierChanges'
  BY <1>1 DEF ScannerInv, SeesEarlierChanges
<1> QED BY <1>3, <1>4, <1>5, <1>6, <1>7

LEMMA ScannerInvNext == ScannerInv /\ [ScannerNext]_scanner => ScannerInv'
<1> SUFFICES ASSUME ScannerInv, [ScannerNext]_scanner PROVE ScannerInv'
  OBVIOUS
<1> DEFINE Between == /\ CacheBetween /\ BegunBefore /\ RevisionBetween
                      /\ FoundBetween /\ SeesEarlierChanges
<1>0. ScannerTypeOK /\ ScannerTypeOK'
  BY ScannerNextType DEF ScannerInv
<1> SUFFICES Between'
  BY <1>0 DEF ScannerInv
<1>1. ASSUME NEW r \in Root, Move(r) \/ Patch(r) PROVE Between'
  BY <1>1, ChangeKeeps
<1>2. CASE Lapse
  BY <1>2 DEF ScannerInv, Lapse, disk, cache, CacheBetween, BegunBefore, RevisionBetween,
              FoundBetween, SeesEarlierChanges
<1>3. CASE BeginCall
  <2>1. BegunBefore'
    BY <1>0, <1>3 DEF BeginCall, disk, Here, BegunBefore, ScannerTypeOK
  <2>2. CacheBetween'
    BY <1>3 DEF ScannerInv, BeginCall, disk, cache, CacheBetween
  <2>3. RevisionBetween' /\ FoundBetween' /\ SeesEarlierChanges'
    BY <1>3 DEF BeginCall, RevisionBetween, FoundBetween, SeesEarlierChanges
  <2> QED BY <2>1, <2>2, <2>3
<1>4. ASSUME NEW r \in Root, Stat(r) PROVE Between'
  <2>1. RevisionBetween'
    BY <1>0, <1>4 DEF ScannerInv, Stat, disk, RevisionBetween, BegunBefore, ScannerTypeOK
  <2>2. CacheBetween' /\ BegunBefore'
    BY <1>4 DEF ScannerInv, Stat, disk, cache, CacheBetween, BegunBefore
  <2>3. FoundBetween' /\ SeesEarlierChanges'
    BY <1>4 DEF Stat, FoundBetween, SeesEarlierChanges
  <2> QED BY <2>1, <2>2, <2>3
<1>5. CASE Decide
  <2>1. CacheBetween' /\ BegunBefore'
    BY <1>5 DEF ScannerInv, Decide, disk, cache, CacheBetween, BegunBefore
  <2>2. RevisionBetween' /\ FoundBetween'
    BY <1>5 DEF ScannerInv, Decide, disk, RevisionBetween, FoundBetween
  <2>3. CASE Stale
    BY <1>5, <2>1, <2>2, <2>3 DEF Decide, SeesEarlierChanges
  <2>4. CASE ~Stale
    <3>1. /\ cached # <<>> /\ ~expired
          /\ \A r \in Root : asked[r].moved <= known[r] /\ known[r] <= cached[r].moved
      BY <1>5, <2>4 DEF ScannerInv, Decide, Stale, RevisionBetween, CacheBetween
    <3>2. \A r \in Root : /\ asked[r].moved \in Nat /\ known[r] \in Nat
                          /\ cached[r].moved \in Nat
      BY <1>0, <3>1 DEF ScannerTypeOK, Static
    <3>3. SeesEarlierChanges'
      BY <1>5, <3>1, <3>2 DEF Decide, cache, SeesEarlierChanges
    <3> QED BY <2>1, <2>2, <3>3
  <2> QED BY <2>3, <2>4
<1>6. ASSUME NEW r \in Root, Scan(r) PROVE Between'
  <2>1. FoundBetween'
    BY <1>0, <1>6 DEF ScannerInv, Scan, disk, Here, FoundBetween, RevisionBetween,
                      BegunBefore, ScannerTypeOK
  <2>2. CacheBetween' /\ BegunBefore' /\ RevisionBetween' /\ SeesEarlierChanges'
    BY <1>6 DEF ScannerInv, Scan, disk, cache, CacheBetween, BegunBefore, RevisionBetween,
                SeesEarlierChanges
  <2> QED BY <2>1, <2>2
<1>7. CASE Store
  <2>1. \A r \in Root : /\ asked[r].moved <= revision[r] /\ revision[r] <= found[r].moved
                        /\ found[r].moved <= moved[r] /\ asked[r].patched <= found[r].patched
    BY <1>7 DEF ScannerInv, Store, RevisionBetween, FoundBetween
  <2>2. \A r \in Root : /\ {asked[r].moved, asked[r].patched, revision[r], moved[r]} \subseteq Nat
                        /\ {found[r].moved, found[r].patched} \subseteq Nat
    <3> SUFFICES ASSUME NEW r \in Root
                 PROVE  /\ {asked[r].moved, asked[r].patched, revision[r], moved[r]} \subseteq Nat
                        /\ {found[r].moved, found[r].patched} \subseteq Nat
      OBVIOUS
    <3>1. asked[r] \in Static /\ found[r] \in Static /\ revision[r] \in Nat /\ moved[r] \in Nat
      BY <1>0 DEF ScannerTypeOK
    <3> QED BY <3>1 DEF Static
  <2>3. found # <<>>
    BY <1>0, ScannerAssumption DEF ScannerTypeOK
  <2>4. CacheBetween'
    BY <1>7, <2>1 DEF Store, disk, CacheBetween
  <2>5. SeesEarlierChanges'
    BY <1>7, <2>1, <2>2, <2>3 DEF Store, SeesEarlierChanges
  <2>6. BegunBefore' /\ RevisionBetween' /\ FoundBetween'
    BY <1>7 DEF ScannerInv, Store, disk, BegunBefore, RevisionBetween, FoundBetween
  <2> QED BY <2>4, <2>5, <2>6
<1>8. CASE Merge \/ Raise
  BY <1>8 DEF ScannerInv, Merge, Raise, disk, cache, CacheBetween, BegunBefore,
              RevisionBetween, FoundBetween, SeesEarlierChanges
<1>9. CASE UNCHANGED scanner
  BY <1>9 DEF ScannerInv, scanner, disk, cache, CacheBetween, BegunBefore,
              RevisionBetween, FoundBetween, SeesEarlierChanges
<1> QED BY <1>1, <1>2, <1>3, <1>4, <1>5, <1>6, <1>7, <1>8, <1>9 DEF ScannerNext, Advance

\* Where the metadata is as the cache remembers it, no change that moved it is
\* missing from the cache, whatever happened while the roots were scanned
\* (InventoryScanner.collect_inventory).
THEOREM CacheIsSound == ScannerSpec => []CacheSound
<1>1. ScannerInv => CacheSound
  BY DEF ScannerInv, CacheBetween, CacheSound, ScannerTypeOK, Static
<1> QED BY <1>1, ScannerInvInit, ScannerInvNext, PTL DEF ScannerSpec

\* Every call returns what was there when it began, as far as its metadata or an
\* expired interval can tell (InventoryScanner.collect_inventory).
THEOREM CallsSeeEarlierChanges == ScannerSpec => []SeesEarlierChanges
<1>1. ScannerInv => SeesEarlierChanges
  BY DEF ScannerInv
<1> QED BY <1>1, ScannerInvInit, ScannerInvNext, PTL DEF ScannerSpec

(***************************************************************************)
(* What the scanner's liveness rests on: calls end, and one that the       *)
(* refresh interval forces on an endpoint at rest returns it as it is.     *)
(***************************************************************************)

\* Nothing is cached or found before it happened.
NotAhead ==
    /\ cached # <<>> => \A r \in Root : cached[r].patched <= patched[r]
    /\ \A r \in Root : found[r].patched <= patched[r]

\* The endpoint is as it was when the call began.
AtRest == asked = [r \in Root |-> Here(r)]

RestIsExact ==
    call = "merge" /\ AtRest =>
      /\ \A r \in Root : cached[r].moved = moved[r]
      /\ expired => cached = [r \in Root |-> Here(r)]

\* Reads the call has yet to make at most, and its decisions.
CallLeft ==
    IF call = "stat" THEN Cardinality(left) + Cardinality(Root) + 3
    ELSE IF call = "scan" THEN Cardinality(left) + 2
    ELSE IF call = "merge" THEN 1 ELSE 0

LEMMA NotAheadNext == ScannerTypeOK /\ NotAhead /\ [ScannerNext]_scanner => NotAhead'
<1> SUFFICES ASSUME ScannerTypeOK, NotAhead, [ScannerNext]_scanner PROVE NotAhead'
  OBVIOUS
<1>1. /\ patched \in [Root -> Nat] /\ found \in [Root -> Static]
      /\ \A r \in Root : patched[r] \in Nat /\ found[r].patched \in Nat
      /\ cached # <<>> => \A r \in Root : cached[r].patched \in Nat
  BY DEF ScannerTypeOK, Static
<1>2. ASSUME NEW r \in Root, Patch(r) PROVE NotAhead'
  <2>1. UNCHANGED <<cached, found>> /\ \A s \in Root : patched'[s] >= patched[s] /\ patched'[s] \in Nat
    BY <1>1, <1>2 DEF Patch, cache
  <2> QED BY <1>1, <2>1 DEF NotAhead
<1>3. ASSUME NEW r \in Root, Scan(r) PROVE NotAhead'
  <2>1. UNCHANGED <<cached, patched>> /\ found' = [found EXCEPT ![r] = Here(r)]
    BY <1>3 DEF Scan, disk, cache
  <2>2. Here(r).patched = patched[r]
    BY DEF Here
  <2> QED BY <1>1, <2>1, <2>2 DEF NotAhead
<1>4. CASE Store
  BY <1>4 DEF Store, disk, NotAhead
<1>5. CASE UNCHANGED <<patched, cached, found>>
  BY <1>5 DEF NotAhead
<1> QED BY <1>2, <1>3, <1>4, <1>5
        DEF ScannerNext, Advance, Move, Lapse, BeginCall, Stat, Decide, Merge, Raise,
            scanner, disk, cache

LEMMA RestExact ==
  ASSUME ScannerInv, NotAhead
  PROVE  RestIsExact
<1> SUFFICES ASSUME call = "merge", AtRest
             PROVE  /\ \A r \in Root : cached[r].moved = moved[r]
                    /\ expired => cached = [r \in Root |-> Here(r)]
  BY DEF RestIsExact
<1>1. /\ cached # <<>> /\ ScannerTypeOK
      /\ \A r \in Root : /\ cached[r].moved >= asked[r].moved
                         /\ expired => cached[r].patched >= asked[r].patched
                         /\ cached[r].moved <= moved[r] /\ cached[r].patched <= patched[r]
  BY DEF ScannerInv, SeesEarlierChanges, CacheBetween, NotAhead
<1>2. cached \in [Root -> Static]
  BY <1>1 DEF ScannerTypeOK
<1>3. \A r \in Root : asked[r].moved = moved[r] /\ asked[r].patched = patched[r]
  BY DEF AtRest, Here
<1>4. \A r \in Root : /\ moved[r] \in Nat /\ patched[r] \in Nat
                      /\ cached[r].moved \in Nat /\ cached[r].patched \in Nat
  BY <1>1, <1>2 DEF ScannerTypeOK, Static
<1>5. \A r \in Root : cached[r].moved = moved[r] /\ (expired => cached[r].patched = patched[r])
  BY <1>1, <1>3, <1>4
<1>6. ASSUME expired PROVE cached = [r \in Root |-> Here(r)]
  <2>1. \A r \in Root : cached[r] = Here(r)
    <3> SUFFICES ASSUME NEW r \in Root PROVE cached[r] = Here(r)
      OBVIOUS
    <3>1. cached[r] = [moved |-> cached[r].moved, patched |-> cached[r].patched]
      BY <1>2 DEF Static
    <3> QED BY <1>5, <1>6, <3>1 DEF Here
  <2> QED BY <1>2, <2>1
<1> QED BY <1>5, <1>6

\* A call during which the endpoint did not change returns every change that moved
\* metadata, and the endpoint as it is if the refresh interval forced a scan
\* (InventoryScanner.collect_inventory).
THEOREM CallsAtRestAreExact == ScannerSpec => []RestIsExact
<1>1. ScannerInit => NotAhead
  <2>1. \A r \in Root : Blank[r].patched <= Unread[r]
    BY DEF Blank, Unread
  <2> QED BY <2>1 DEF ScannerInit, NotAhead
<1>2. ScannerInv => ScannerTypeOK
  BY DEF ScannerInv
<1>3. ScannerSpec => []ScannerInv
  BY ScannerInvInit, ScannerInvNext, PTL DEF ScannerSpec
<1>4. ScannerSpec => []NotAhead
  BY <1>1, <1>2, <1>3, NotAheadNext, PTL DEF ScannerSpec
<1>5. ScannerInv /\ NotAhead => RestIsExact
  BY RestExact
<1> QED BY <1>3, <1>4, <1>5, PTL

LEMMA CallApproaches ==
  ASSUME IsFiniteSet(Root), ScannerTypeOK, Advance \/ Raise, call # "idle"
  PROVE  CallLeft \in Nat /\ CallLeft' \in Nat /\ CallLeft' < CallLeft
<1>1. Cardinality(Root) \in Nat /\ IsFiniteSet(left) /\ Cardinality(left) \in Nat
  <2>1. left \subseteq Root
    BY DEF ScannerTypeOK
  <2> QED BY <2>1, FS_Subset, FS_CardinalityType
<1>2. ASSUME NEW r \in left, left' = left \ {r}
      PROVE  Cardinality(left') = Cardinality(left) - 1 /\ Cardinality(left') \in Nat
  <2>1. IsFiniteSet(left \ {r}) /\ Cardinality(left \ {r}) = Cardinality(left) - 1
    BY <1>1, FS_RemoveElement
  <2> QED BY <1>2, <2>1, FS_CardinalityType
<1>3. ASSUME NEW r \in Root, Stat(r) \/ Scan(r)
      PROVE  CallLeft \in Nat /\ CallLeft' \in Nat /\ CallLeft' < CallLeft
  <2>1. /\ r \in left /\ left' = left \ {r} /\ call' = call /\ call \in {"stat", "scan"}
    BY <1>3 DEF Stat, Scan
  <2> QED BY <1>1, <1>2, <2>1 DEF CallLeft
<1>4. CASE Decide
  <2>1. /\ call = "stat"
        /\ \/ call' = "scan" /\ left' = Root
           \/ call' = "merge"
    BY <1>4 DEF Decide
  <2> QED BY <1>1, <1>4, <2>1 DEF CallLeft, Decide
<1>5. CASE Store \/ Merge \/ Raise
  <2>1. \/ call = "scan" /\ call' = "merge"
        \/ call \in {"scan", "merge"} /\ call' = "idle"
    BY <1>5 DEF Store, Merge, Raise
  <2> QED BY <1>1, <2>1 DEF CallLeft
<1> QED BY <1>3, <1>4, <1>5 DEF Advance, BeginCall

\* Every call ends: whatever the endpoint does meanwhile, each step of the call leaves
\* fewer (InventoryScanner.collect_inventory).
THEOREM CallsEnd ==
  ASSUME IsFiniteSet(Root)
  PROVE  ScannerSpec => [][call # "idle" => \/ UNCHANGED <<call, left>>
                                            \/ CallLeft' \in Nat /\ CallLeft' < CallLeft]_scanner
<1> DEFINE Nearer == call # "idle" => \/ UNCHANGED <<call, left>>
                                      \/ CallLeft' \in Nat /\ CallLeft' < CallLeft
<1>1. ScannerTypeOK /\ [ScannerNext]_scanner => Nearer
  <2> SUFFICES ASSUME ScannerTypeOK, [ScannerNext]_scanner, call # "idle", ~UNCHANGED <<call, left>>
               PROVE  CallLeft' \in Nat /\ CallLeft' < CallLeft
    OBVIOUS
  <2>1. Advance \/ Raise
    BY DEF ScannerNext, Move, Patch, Lapse, scanner
  <2> QED BY <2>1, CallApproaches
<1>2. ScannerSpec => [][Nearer]_scanner
  <2> HIDE DEF Nearer
  <2> QED BY <1>1, ScannerInitType, ScannerNextType, PTL DEF ScannerSpec
<1> QED BY <1>2

-----------------------------------------------------------------------------
(***************************************************************************)
(* Proofs about BrowserSignIn for every set of codes and of requests, any  *)
(* lifetimes and any number of server runs.  The argument: a code that can *)
(* still give a session is in one place, the map or one request, and has   *)
(* given none.                                                             *)
(***************************************************************************)

(***************************************************************************)
(* Type correctness.                                                       *)
(***************************************************************************)

LEMMA NothingType ==
  /\ Never \in Stamp
  /\ Nothing.code \notin Code /\ Nothing \notin Popped
BY SignInAssumption DEF Never, Stamp, Nothing, Popped

LEMMA HoldsType ==
  ASSUME SignInTypeOK, NEW t \in Thread
  PROVE  /\ holds[t] # Nothing <=> holds[t].code \in Code
         /\ holds[t] # Nothing => holds[t] \in Popped /\ holds[t].expiry \in Nat
BY NothingType DEF SignInTypeOK, Popped

LEMMA NowType == SignInTypeOK => [at |-> clock, run |-> serves] \in Stamp
BY DEF SignInTypeOK, Stamp

LEMMA SignInInitType == SignInInit => SignInTypeOK
BY NothingType DEF SignInInit, SignInTypeOK

LEMMA SignInNextType == SignInTypeOK /\ [SignInNext]_signIn => SignInTypeOK'
<1> SUFFICES ASSUME SignInTypeOK, [SignInNext]_signIn PROVE SignInTypeOK'
  OBVIOUS
<1>1. CASE Tick
  BY <1>1 DEF Tick, SignInTypeOK
<1>2. CASE Serve
  BY <1>2 DEF Serve, SignInTypeOK
<1>3. ASSUME NEW c \in Code, Mint(c) PROVE SignInTypeOK'
  <2>1. minted' \in [Code -> Stamp]
    BY <1>3, NowType DEF Mint, SignInTypeOK
  <2>2. DOMAIN codes' \subseteq Code /\ \A d \in DOMAIN codes' : codes'[d] \in Nat
    BY <1>3, SignInAssumption DEF Mint, SignInTypeOK
  <2> QED BY <1>3, <2>1, <2>2 DEF Mint, SignInTypeOK
<1>4. ASSUME NEW c \in Code, NEW t \in Thread, Pop(t, c) PROVE SignInTypeOK'
  <2>1. [code |-> c, expiry |-> codes[c]] \in Popped
    BY <1>4 DEF Pop, SignInTypeOK, Popped
  <2>2. holds' \in [Thread -> Popped \cup {Nothing}]
    BY <1>4, <2>1 DEF Pop, SignInTypeOK
  <2>3. DOMAIN codes' \subseteq Code /\ \A d \in DOMAIN codes' : codes'[d] \in Nat
    BY <1>4 DEF Pop, SignInTypeOK
  <2> QED BY <1>4, <2>2, <2>3 DEF Pop, SignInTypeOK
<1>5. ASSUME NEW t \in Thread, Redeem(t) PROVE SignInTypeOK'
  <2>1. holds[t].code \in Code /\ holds' \in [Thread -> Popped \cup {Nothing}]
    BY <1>5, HoldsType DEF Redeem, SignInTypeOK
  <2>2. Append(grants[holds[t].code], [at |-> clock, run |-> serves]) \in Seq(Stamp)
    BY <2>1, NowType DEF SignInTypeOK
  <2>3. grants' \in [Code -> Seq(Stamp)]
    BY <1>5, <2>1, <2>2 DEF Redeem, SignInTypeOK
  <2> QED BY <1>5, <2>1, <2>3 DEF Redeem, SignInTypeOK
<1>6. ASSUME NEW t \in Thread, RefuseExpired(t) PROVE SignInTypeOK'
  BY <1>6 DEF RefuseExpired, SignInTypeOK
<1>7. CASE UNCHANGED signIn
  BY <1>7 DEF signIn, SignInTypeOK
<1> QED BY <1>1, <1>2, <1>3, <1>4, <1>5, <1>6, <1>7 DEF SignInNext

\* The variables of the sign-in keep their types.
THEOREM SignInTypeCorrect == SignInSpec => []SignInTypeOK
BY SignInInitType, SignInNextType, PTL DEF SignInSpec

(***************************************************************************)
(* Where a code can be.                                                    *)
(***************************************************************************)

\* A code that was never minted has given nothing.
Fresh(c) == minted[c] = Never => grants[c] = <<>>

Dated(c) ==
    /\ minted[c] # Never => minted[c].run \in 1..serves
    /\ minted[c].at <= clock

\* A code that can still give a session, its expiry being e.
Live(c, e) ==
    /\ grants[c] = <<>>
    /\ minted[c] # Never /\ minted[c].run = serves
    /\ e = minted[c].at + Life

Waiting(c) ==
    c \in DOMAIN codes =>
        Live(c, codes[c]) /\ \A t \in Thread : holds[t].code # c

Presented(t) ==
    holds[t] # Nothing =>
        /\ Live(holds[t].code, holds[t].expiry)
        /\ \A u \in Thread : holds[u].code = holds[t].code => u = t

\* What a code has given.
GivenOut(c) ==
    /\ Len(grants[c]) <= 1
    /\ \A i \in DOMAIN grants[c] :
         /\ grants[c][i].run = minted[c].run
         /\ grants[c][i].at \in minted[c].at..(minted[c].at + Life)

Places ==
    /\ serves > 0
    /\ \A c \in Code : Fresh(c) /\ Dated(c) /\ Waiting(c) /\ GivenOut(c)
    /\ \A t \in Thread : Presented(t)

SignInInv == SignInTypeOK /\ Places

LEMMA SignInInvInit == SignInInit => SignInInv
<1> SUFFICES ASSUME SignInInit PROVE SignInInv
  OBVIOUS
<1>1. ASSUME NEW c \in Code PROVE Fresh(c) /\ Dated(c) /\ Waiting(c) /\ GivenOut(c)
  <2>1. /\ minted[c] = Never /\ minted[c].at = 0 /\ clock = 0
        /\ grants[c] = <<>> /\ c \notin DOMAIN codes
    BY DEF SignInInit, Never
  <2>2. Len(grants[c]) <= 1 /\ DOMAIN grants[c] = {}
    BY <2>1
  <2> QED BY <2>1, <2>2 DEF Fresh, Dated, Waiting, GivenOut
<1>2. \A t \in Thread : Presented(t)
  BY DEF SignInInit, Presented
<1> QED BY <1>1, <1>2, SignInInitType DEF SignInInit, SignInInv, Places

LEMMA SignInInvNext == SignInInv /\ [SignInNext]_signIn => SignInInv'
<1> SUFFICES ASSUME SignInInv, [SignInNext]_signIn PROVE SignInInv'
  OBVIOUS
<1>0. SignInTypeOK /\ SignInTypeOK' /\ Places
  BY SignInNextType DEF SignInInv
<1> SUFFICES Places'
  BY <1>0 DEF SignInInv
<1>1. CASE Tick
  <2>1. \A c \in Code : Fresh(c)' /\ Waiting(c)' /\ GivenOut(c)'
    BY <1>0, <1>1 DEF Tick, Places, Fresh, Waiting, Live, GivenOut
  <2>2. \A c \in Code : Dated(c)'
    BY <1>0, <1>1 DEF Tick, Places, Dated, SignInTypeOK, Stamp
  <2>3. \A t \in Thread : Presented(t)'
    BY <1>0, <1>1 DEF Tick, Places, Presented, Live
  <2> QED BY <1>0, <1>1, <2>1, <2>2, <2>3 DEF Tick, Places
<1>2. CASE Serve
  <2>1. \A c \in Code : Fresh(c)' /\ GivenOut(c)'
    BY <1>0, <1>2 DEF Serve, Places, Fresh, GivenOut
  <2>2. \A c \in Code : Dated(c)'
    BY <1>0, <1>2 DEF Serve, Places, Dated, SignInTypeOK, Stamp
  <2>3. \A c \in Code : Waiting(c)'
    BY <1>2 DEF Serve, Waiting
  <2>4. \A t \in Thread : Presented(t)'
    BY <1>2 DEF Serve, Presented
  <2>5. serves' > 0
    BY <1>0, <1>2 DEF Serve, Places, SignInTypeOK
  <2> QED BY <2>1, <2>2, <2>3, <2>4, <2>5 DEF Places
<1>3. ASSUME NEW c \in Code, Mint(c) PROVE Places'
  <2>1. /\ grants[c] = <<>> /\ UNCHANGED <<clock, serves, holds, grants>>
        /\ minted'[c] = [at |-> clock, run |-> serves]
        /\ \A d \in Code : d # c => minted'[d] = minted[d]
    BY <1>0, <1>3 DEF Mint, Places, Fresh, SignInTypeOK
  <2>2. minted'[c] # Never
    BY <1>0, <2>1 DEF Places, Never
  <2>3. \A t \in Thread : holds[t].code # c
    BY <1>0, <1>3, HoldsType DEF Mint, Places, Presented, Live
  <2>4. \A d \in Code : d # c => Fresh(d)' /\ Dated(d)' /\ GivenOut(d)'
    BY <1>0, <2>1 DEF Places, Fresh, Dated, GivenOut
  <2>5. Fresh(c)' /\ GivenOut(c)'
    BY <2>1 DEF Fresh, GivenOut
  <2>6. Dated(c)'
    BY <1>0, <2>1 DEF Places, Dated, SignInTypeOK
  <2>7. ASSUME NEW d \in Code PROVE Waiting(d)'
    <3>1. CASE d = c
      <4>1. codes'[c] = clock + Life
        BY <1>3 DEF Mint
      <4> QED BY <2>1, <2>2, <2>3, <3>1, <4>1 DEF Waiting, Live
    <3>2. CASE d # c
      <4>1. d \in DOMAIN codes' => d \in DOMAIN codes /\ codes'[d] = codes[d]
        BY <1>3, <3>2 DEF Mint
      <4> QED BY <1>0, <2>1, <3>2, <4>1 DEF Places, Waiting, Live
    <3> QED BY <3>1, <3>2
  <2>8. ASSUME NEW t \in Thread PROVE Presented(t)'
    BY <1>0, <2>1, <2>3, HoldsType DEF Places, Presented, Live
  <2> QED BY <1>0, <2>1, <2>4, <2>5, <2>6, <2>7, <2>8 DEF Places
<1>4. ASSUME NEW c \in Code, NEW t \in Thread, Pop(t, c) PROVE Places'
  <2>1. /\ Live(c, codes[c]) /\ \A u \in Thread : holds[u].code # c
        /\ UNCHANGED <<clock, serves, minted, grants>>
    BY <1>0, <1>4 DEF Pop, Places, Waiting
  <2>2. /\ holds'[t] = [code |-> c, expiry |-> codes[c]]
        /\ \A u \in Thread : u # t => holds'[u] = holds[u]
    BY <1>0, <1>4 DEF Pop, SignInTypeOK
  <2>3. \A d \in Code : Fresh(d)' /\ Dated(d)' /\ GivenOut(d)'
    BY <1>0, <2>1 DEF Places, Fresh, Dated, GivenOut
  <2>4. ASSUME NEW d \in Code PROVE Waiting(d)'
    <3>1. d \in DOMAIN codes' => d # c /\ d \in DOMAIN codes /\ codes'[d] = codes[d]
      BY <1>4 DEF Pop
    <3> QED BY <1>0, <2>1, <2>2, <3>1 DEF Places, Waiting, Live
  <2>5. ASSUME NEW u \in Thread PROVE Presented(u)'
    BY <1>0, <2>1, <2>2 DEF Places, Presented, Live
  <2> QED BY <1>0, <2>1, <2>3, <2>4, <2>5 DEF Places
<1>5. ASSUME NEW t \in Thread, Redeem(t) PROVE Places'
  <2>0. PICK c \in Code : c = holds[t].code
    BY <1>0, <1>5, HoldsType DEF Redeem
  <2>1. /\ Live(c, holds[t].expiry)
        /\ \A u \in Thread : holds[u].code = c => u = t
        /\ UNCHANGED <<clock, serves, codes, minted>>
    BY <1>0, <1>5, <2>0 DEF Redeem, Places, Presented
  <2>2. /\ grants'[c] = <<[at |-> clock, run |-> serves]>>
        /\ \A d \in Code : d # c => grants'[d] = grants[d]
    BY <1>0, <1>5, <2>0, <2>1 DEF Redeem, Live, SignInTypeOK
  <2>3. holds'[t] = Nothing /\ \A u \in Thread : u # t => holds'[u] = holds[u]
    BY <1>0, <1>5 DEF Redeem, SignInTypeOK
  <2>4. \A d \in Code : Dated(d)' /\ Fresh(d)'
    BY <1>0, <2>1, <2>2 DEF Places, Dated, Fresh, Live
  <2>5. \A d \in Code : d # c => GivenOut(d)'
    BY <1>0, <2>1, <2>2 DEF Places, GivenOut
  <2>6. GivenOut(c)'
    <3>1. minted[c].at \in Nat /\ minted[c].at <= clock /\ clock <= minted[c].at + Life
      BY <1>0, <1>5, <2>1 DEF Redeem, Live, Places, Dated, SignInTypeOK, Stamp
    <3>2. clock \in minted[c].at..(minted[c].at + Life)
      BY <1>0, <3>1, SignInAssumption DEF SignInTypeOK
    <3>3. \A i \in DOMAIN grants'[c] : grants'[c][i] = [at |-> clock, run |-> serves]
      BY <2>2
    <3>4. Len(grants'[c]) <= 1
      BY <2>2
    <3> QED BY <2>1, <3>2, <3>3, <3>4 DEF GivenOut, Live
  <2>7. ASSUME NEW d \in Code PROVE Waiting(d)'
    <3>1. d \in DOMAIN codes => d # c
      BY <1>0, <1>5, <2>0 DEF Places, Waiting
    <3>2. \A u \in Thread : holds'[u].code # holds[u].code => u = t /\ holds'[u].code \notin Code
      BY <2>3, NothingType
    <3> QED BY <1>0, <2>1, <2>2, <3>1, <3>2 DEF Places, Waiting, Live
  <2>8. ASSUME NEW u \in Thread PROVE Presented(u)'
    BY <1>0, <2>0, <2>1, <2>2, <2>3, HoldsType, NothingType DEF Places, Presented, Live
  <2> QED BY <1>0, <2>1, <2>4, <2>5, <2>6, <2>7, <2>8 DEF Places
<1>6. ASSUME NEW t \in Thread, RefuseExpired(t) PROVE Places'
  <2>1. holds'[t] = Nothing /\ \A u \in Thread : u # t => holds'[u] = holds[u]
    BY <1>0, <1>6 DEF RefuseExpired, SignInTypeOK
  <2>2. \A c \in Code : Fresh(c)' /\ Dated(c)' /\ GivenOut(c)'
    BY <1>0, <1>6 DEF RefuseExpired, Places, Fresh, Dated, GivenOut
  <2>3. ASSUME NEW c \in Code PROVE Waiting(c)'
    BY <1>0, <1>6, <2>1, NothingType DEF RefuseExpired, Places, Waiting, Live
  <2>4. ASSUME NEW u \in Thread PROVE Presented(u)'
    BY <1>0, <1>6, <2>1, HoldsType, NothingType DEF RefuseExpired, Places, Presented, Live
  <2> QED BY <1>0, <1>6, <2>2, <2>3, <2>4 DEF RefuseExpired, Places
<1>7. CASE UNCHANGED signIn
  BY <1>0, <1>7 DEF signIn, Places, Fresh, Dated, Waiting, Live, Presented, GivenOut
<1> QED BY <1>1, <1>2, <1>3, <1>4, <1>5, <1>6, <1>7 DEF SignInNext

\* A code gives one session at most, in its minute and in its run of the server,
\* whatever requests present it at once (RequestHandler.do_GET).
THEOREM SingleUseHolds == SignInSpec => []SingleUse
<1>1. ASSUME SignInInv, NEW c \in Code, NEW i \in DOMAIN grants[c],
             ValidSession(grants[c][i])
      PROVE  serves = minted[c].run /\ clock <= minted[c].at + Life + Session
  <2>1. /\ grants[c][i] \in Stamp /\ minted[c] \in Stamp
        /\ grants[c][i].run = minted[c].run
        /\ grants[c][i].at \in minted[c].at..(minted[c].at + Life)
    <3>1. grants[c] \in Seq(Stamp) /\ i \in 1..Len(grants[c])
      BY <1>1 DEF SignInInv, SignInTypeOK
    <3> QED BY <1>1, <3>1 DEF SignInInv, SignInTypeOK, Places, GivenOut
  <2>2. /\ {clock, Life, Session, grants[c][i].at, minted[c].at} \subseteq Nat
        /\ grants[c][i].at + Session >= clock
    BY <1>1, <2>1, SignInAssumption DEF SignInInv, SignInTypeOK, Stamp, ValidSession
  <2> QED BY <1>1, <2>1, <2>2 DEF ValidSession
<1>2. SignInInv => SingleUse
  BY <1>1 DEF SignInInv, Places, GivenOut, SingleUse
<1> QED BY <1>2, SignInInvInit, SignInInvNext, PTL DEF SignInSpec

(***************************************************************************)
(* No code is lost.                                                        *)
(***************************************************************************)

LEMMA CodesKeptNext == SignInInv /\ CodesKept /\ [SignInNext]_signIn => CodesKept'
<1> SUFFICES ASSUME SignInInv, CodesKept, [SignInNext]_signIn,
                    NEW d \in Code, minted'[d].run = serves', minted'[d].at + Life > clock'
             PROVE  \/ d \in DOMAIN codes' \/ grants'[d] # <<>>
                    \/ \E t \in Thread : holds'[t].code = d
  BY DEF CodesKept
<1>0. /\ SignInTypeOK /\ Places
      /\ minted[d] \in Stamp /\ minted[d].run <= serves
  BY DEF SignInInv, SignInTypeOK, Places, Dated, Never, Stamp
<1>1. CASE Tick
  <2>1. minted[d].run = serves /\ minted[d].at + Life > clock
    <3>1. {minted[d].at, Life, clock} \subseteq Nat /\ UNCHANGED <<serves, minted>>
      BY <1>0, <1>1, SignInAssumption DEF Tick, SignInTypeOK, Stamp
    <3> QED BY <1>1, <3>1 DEF Tick
  <2> QED BY <1>1, <2>1 DEF Tick, CodesKept
<1>2. CASE Serve
  BY <1>0, <1>2 DEF Serve, SignInTypeOK, Stamp
<1>3. ASSUME NEW c \in Code, Mint(c)
      PROVE  \/ d \in DOMAIN codes' \/ grants'[d] # <<>>
             \/ \E t \in Thread : holds'[t].code = d
  <2>1. CASE d = c
    BY <1>3, <2>1 DEF Mint
  <2>2. CASE d # c
    <3>1. minted'[d] = minted[d]
      BY <1>0, <1>3, <2>2 DEF Mint, SignInTypeOK
    <3>2. d \in DOMAIN codes => codes[d] > clock
      BY <1>0, <1>3, <3>1 DEF Mint, Places, Waiting, Live
    <3> QED BY <1>3, <3>1, <3>2 DEF Mint, CodesKept
  <2> QED BY <2>1, <2>2
<1>4. ASSUME NEW c \in Code, NEW t \in Thread, Pop(t, c)
      PROVE  \/ d \in DOMAIN codes' \/ grants'[d] # <<>>
             \/ \E u \in Thread : holds'[u].code = d
  <2>1. /\ holds'[t] = [code |-> c, expiry |-> codes[c]]
        /\ \A u \in Thread : u # t => holds'[u] = holds[u]
        /\ holds[t].code # d
    BY <1>0, <1>4, NothingType DEF Pop, SignInTypeOK
  <2> QED BY <1>4, <2>1 DEF Pop, CodesKept
<1>5. ASSUME NEW t \in Thread, Redeem(t)
      PROVE  \/ d \in DOMAIN codes' \/ grants'[d] # <<>>
             \/ \E u \in Thread : holds'[u].code = d
  <2>1. CASE holds[t].code = d
    <3>1. grants'[d] = Append(grants[d], [at |-> clock, run |-> serves]) /\ grants[d] \in Seq(Stamp)
      BY <1>0, <1>5, <2>1 DEF Redeem, SignInTypeOK
    <3> QED BY <1>0, <3>1, NowType
  <2>2. CASE holds[t].code # d
    <3>1. grants'[d] = grants[d] /\ \A u \in Thread : u # t => holds'[u] = holds[u]
      BY <1>0, <1>5, <2>2 DEF Redeem, SignInTypeOK
    <3> QED BY <1>5, <2>2, <3>1 DEF Redeem, CodesKept
  <2> QED BY <2>1, <2>2
<1>6. ASSUME NEW t \in Thread, RefuseExpired(t)
      PROVE  \/ d \in DOMAIN codes' \/ grants'[d] # <<>>
             \/ \E u \in Thread : holds'[u].code = d
  <2>1. holds[t].code # d
    BY <1>0, <1>6, SignInAssumption DEF RefuseExpired, Places, Presented, Live, SignInTypeOK, Stamp
  <2>2. \A u \in Thread : u # t => holds'[u] = holds[u]
    BY <1>0, <1>6 DEF RefuseExpired, SignInTypeOK
  <2> QED BY <1>6, <2>1, <2>2 DEF RefuseExpired, CodesKept
<1>7. CASE UNCHANGED signIn
  BY <1>7 DEF signIn, CodesKept
<1> QED BY <1>1, <1>2, <1>3, <1>4, <1>5, <1>6, <1>7 DEF SignInNext

\* A code that is in time stays redeemable: no mint and no request of another
\* window takes it away (RequestHandler.do_POST).
THEOREM CodesAreKept == SignInSpec => []CodesKept
<1>1. SignInInit => CodesKept
  BY DEF SignInInit, CodesKept, Never
<1> QED BY <1>1, CodesKeptNext, SignInInvInit, SignInInvNext, PTL DEF SignInSpec

-----------------------------------------------------------------------------
(***************************************************************************)
(* Proofs about DemoLab for every set of workloads: what runs is known to  *)
(* cleanup, but for what the code can no longer end.                       *)
(***************************************************************************)

LEMMA DemoInitType == DemoInit => DemoTypeOK
BY DEF DemoInit, DemoTypeOK

LEMMA DemoNextType == DemoTypeOK /\ [DemoNext]_demo => DemoTypeOK'
BY DEF DemoTypeOK, DemoNext, demo, Spawn, Exit, Terminate, Stuck, Own, Leave, Signal,
       SignalAgain, Killed, CleanedUp

\* The demonstration's variables keep their types.
THEOREM DemoTypeCorrect == DemoSpec => []DemoTypeOK
BY DemoInitType, DemoNextType, PTL DEF DemoSpec

\* Cleanup has begun, and with it the end.
CleaningUp ==
    /\ at = "cleanup" => cleaned
    /\ cleaned => at \in {"cleanup", "ended"}

\* What runs is in _processes or about to be, or out of reach.
Tracked ==
    /\ at # "spawned" => alive \subseteq owned \cup missed
    /\ at = "spawned" => alive \subseteq owned \cup pending \cup missed
    /\ at = "ended" => owned \subseteq missed

DemoInv == DemoTypeOK /\ CleaningUp /\ Tracked

LEMMA DemoInvInit == DemoInit => DemoInv
BY DemoInitType DEF DemoInit, DemoInv, CleaningUp, Tracked

LEMMA DemoInvNext == DemoInv /\ [DemoNext]_demo => DemoInv'
<1> SUFFICES ASSUME DemoInv, [DemoNext]_demo PROVE CleaningUp' /\ Tracked'
  BY DemoNextType DEF DemoInv
<1> USE DEF DemoInv, DemoTypeOK, CleaningUp, Tracked
<1>1. ASSUME NEW w \in Workload, Spawn(w) PROVE CleaningUp' /\ Tracked'
  BY <1>1 DEF Spawn
<1>2. ASSUME NEW w \in Workload, Exit(w) PROVE CleaningUp' /\ Tracked'
  BY <1>2 DEF Exit
<1>3. ASSUME NEW w \in Workload, Terminate(w) PROVE CleaningUp' /\ Tracked'
  BY <1>3 DEF Terminate
<1>4. ASSUME NEW w \in Workload, Stuck(w) PROVE CleaningUp' /\ Tracked'
  BY <1>4 DEF Stuck
<1>5. CASE Own
  BY <1>5 DEF Own
<1>6. CASE Leave
  BY <1>6 DEF Leave
<1>7. CASE Signal
  BY <1>7 DEF Signal
<1>8. CASE SignalAgain
  BY <1>8 DEF SignalAgain
<1>9. CASE Killed
  BY <1>9 DEF Killed
<1>10. CASE CleanedUp
  BY <1>10 DEF CleanedUp
<1>11. CASE UNCHANGED demo
  BY <1>11 DEF demo
<1> QED BY <1>1, <1>2, <1>3, <1>4, <1>5, <1>6, <1>7, <1>8, <1>9, <1>10, <1>11 DEF DemoNext

\* A demonstration leaves no workload behind, however it ends, but for those that its
\* code can no longer end (DemoLab.cleanup, run_demo).
THEOREM NothingIsLeft == DemoSpec => []NothingLeft
<1>1. DemoInv => NothingLeft
  BY DEF DemoInv, Tracked, NothingLeft
<1> QED BY <1>1, DemoInvInit, DemoInvNext, PTL DEF DemoSpec

-----------------------------------------------------------------------------
(***************************************************************************)
(* Proofs about HookAdapters for every set of events and configurations,   *)
(* and any number of saves, commands and kills.                            *)
(***************************************************************************)

LEMMA Markers ==
  /\ Absent # Torn /\ Absent # Unwritten
  /\ Unwritten \notin Settings \cup {Absent}
BY DEF Absent, Torn, Unwritten, Settings

LEMMA HooksInitType == HooksInit => HooksTypeOK
<1> SUFFICES ASSUME HooksInit PROVE HooksTypeOK
  OBVIOUS
<1>1. file \in Settings \cup {Absent}
  <2>1. ASSUME NEW e \in {{}, Event}, NEW c \in Config
        PROVE  [user |-> 0, bare |-> TRUE, hooks |-> e \X {c}, ok |-> TRUE] \in Settings
    <3>1. e \X {c} \in SUBSET Hook
      BY DEF Hook
    <3> QED BY <3>1 DEF Settings
  <2> QED BY <2>1, Zenon DEF HooksInit
<1>2. own \in BOOLEAN /\ plain \in BOOLEAN /\ race = "none" /\ saves \in Nat
  BY DEF HooksInit
<1>3. backup = Absent /\ step = "idle" /\ draft = Absent /\ first = Unwritten
  BY DEF HooksInit
<1> QED BY <1>1, <1>2, <1>3 DEF HooksTypeOK

\* What a command makes of the file it loads.
LEMMA LoadType ==
  ASSUME HooksTypeOK
  PROVE  /\ \A c \in Config : Install(c) =>
              /\ draft' \in Settings /\ step' = "backup"
              /\ draft'.user = file.user /\ draft'.bare = file.bare
         /\ Uninstall =>
              /\ draft' \in Settings
              /\ draft'.user = file.user /\ draft'.bare = file.bare
              /\ step' = "backup" \/ (step' = "unlink" /\ own /\ file.bare)
<1>1. file.user \in Nat /\ file.bare \in BOOLEAN /\ file.hooks \subseteq Hook
  <2>1. CASE file \in Settings
    BY <2>1 DEF Settings
  <2>2. CASE file = Absent
    <3>1. file.user = 0 /\ file.bare = TRUE /\ file.hooks = {}
      BY <2>2 DEF Absent
    <3>2. file.bare \in BOOLEAN
      BY <3>1, Zenon
    <3> QED BY <3>1, <3>2
  <2> QED BY <2>1, <2>2 DEF HooksTypeOK
<1>2. ASSUME NEW c \in Config, Install(c)
      PROVE  /\ draft' \in Settings /\ step' = "backup"
             /\ draft'.user = file.user /\ draft'.bare = file.bare
  <2>1. {h \in file.hooks : h[1] \notin Wanted} \cup (Wanted \X {c}) \in SUBSET Hook
    BY <1>1, HooksAssumption DEF Hook
  <2> QED BY <1>1, <1>2, <2>1 DEF Install, Changed, Load, Settings
<1>3. ASSUME Uninstall
      PROVE  /\ draft' \in Settings
             /\ draft'.user = file.user /\ draft'.bare = file.bare
             /\ step' = "backup" \/ (step' = "unlink" /\ own /\ file.bare)
  BY <1>1, <1>3 DEF Uninstall, Changed, Load, Settings
<1> QED BY <1>2, <1>3

\* A save changes the user's part of the file and leaves the hooks in it.
LEMMA SaveType ==
  ASSUME HooksTypeOK, Save
  PROVE  /\ file' \in Settings /\ file'.user = saves' /\ file'.bare = plain'
         /\ file'.hooks = file.hooks /\ plain' \in BOOLEAN
<1>1. saves' \in Nat /\ file.hooks \subseteq Hook
  BY DEF HooksTypeOK, Settings, Absent, Save
<1> QED BY <1>1 DEF Save, Settings

LEMMA HooksNextType == HooksTypeOK /\ [HooksNext]_hookFile => HooksTypeOK'
<1> SUFFICES ASSUME HooksTypeOK, [HooksNext]_hookFile PROVE HooksTypeOK'
  OBVIOUS
<1>1. ASSUME NEW c \in Config, Install(c) PROVE HooksTypeOK'
  BY <1>1, LoadType DEF Install, Load, histories, HooksTypeOK
<1>2. CASE Uninstall
  BY <1>2, LoadType DEF Uninstall, Load, histories, HooksTypeOK
<1>3. CASE Backup
  BY <1>3 DEF Backup, histories, HooksTypeOK
<1>4. CASE Replace \/ Delete
  BY <1>4 DEF Replace, Delete, Overwrites, HooksTypeOK
<1>5. CASE KillCommand
  BY <1>5 DEF KillCommand, HooksTypeOK
<1>6. CASE Save
  BY <1>6, SaveType DEF Save, HooksTypeOK
<1>7. CASE UNCHANGED hookFile
  BY <1>7 DEF hookFile, histories, HooksTypeOK
<1> QED BY <1>1, <1>2, <1>3, <1>4, <1>5, <1>6, <1>7 DEF HooksNext

\* The variables of a hook file keep their types.
THEOREM HooksTypeCorrect == HooksSpec => []HooksTypeOK
BY HooksInitType, HooksNextType, PTL DEF HooksSpec

(***************************************************************************)
(* The user's part of the file, and the backup.                            *)
(***************************************************************************)

\* The last save may be gone: the command it was made under has replaced the file, or
\* the file may be unlinked with it.
MayBeGone == race = "lost" \/ (own /\ plain)
Current(settings) == settings.user = saves /\ settings.bare = plain

FileCurrent ==
    /\ Current(file) \/ MayBeGone
    /\ race = "open" => Current(file) /\ step # "idle"

\* What is about to replace the file has the user's last save too, unless that is newer.
DraftCurrent ==
    /\ step \in {"backup", "replace"} => Current(draft) \/ MayBeGone \/ race = "open"
    /\ step = "unlink" => own /\ (plain \/ race # "none")

\* Until the first replacement, a whole backup has the hooks the file has.
BackupFirst ==
    /\ first = Unwritten => backup \in {Absent, Torn} \/ backup.hooks = file.hooks
    /\ step = "replace" /\ file # Absent => backup # Absent \/ race = "open"
    /\ first \notin {Unwritten, Absent} /\ ~own =>
         backup = Torn \/ (backup # Absent /\ backup.hooks = first.hooks)

HooksInv == HooksTypeOK /\ FileCurrent /\ DraftCurrent /\ BackupFirst

LEMMA HooksInvInit == HooksInit => HooksInv
<1> SUFFICES ASSUME HooksInit PROVE FileCurrent /\ DraftCurrent /\ BackupFirst
  BY HooksInitType DEF HooksInv
<1>1. file.user = 0 /\ file.bare = TRUE /\ saves = 0
  BY DEF HooksInit, Absent
<1>2. plain = TRUE /\ race = "none"
  BY DEF HooksInit
<1> QED BY <1>1, <1>2 DEF HooksInit, FileCurrent, DraftCurrent, BackupFirst, Current

LEMMA HooksInvNext == HooksInv /\ [HooksNext]_hookFile => HooksInv'
<1> SUFFICES ASSUME HooksInv, [HooksNext]_hookFile
             PROVE  (FileCurrent /\ DraftCurrent /\ BackupFirst)'
  BY HooksNextType DEF HooksInv
<1>0. HooksTypeOK /\ FileCurrent /\ DraftCurrent /\ BackupFirst
  BY DEF HooksInv
<1>1. ASSUME \/ \E c \in Config : Install(c)
             \/ Uninstall
      PROVE  (FileCurrent /\ DraftCurrent /\ BackupFirst)'
  <2>1. /\ draft'.user = file.user /\ draft'.bare = file.bare
        /\ step' = "backup" \/ (step' = "unlink" /\ own /\ file.bare)
        /\ step = "idle" /\ UNCHANGED <<own, file, backup, saves, first, plain, race>>
    BY <1>0, <1>1, LoadType DEF Install, Uninstall, Load, histories
  <2>2. step' = "unlink" => own /\ (plain \/ race # "none")
    BY <1>0, <2>1 DEF FileCurrent, MayBeGone, Current
  <2> QED BY <1>0, <2>1, <2>2 DEF FileCurrent, DraftCurrent, BackupFirst, MayBeGone, Current
<1>2. CASE Backup
  <2>1. /\ step = "backup" /\ step' = "replace"
        /\ UNCHANGED <<own, file, draft, saves, first, plain, race>>
        /\ backup' = IF backup = Absent THEN file ELSE backup
    BY <1>2 DEF Backup, histories
  <2> QED BY <1>0, <2>1, Markers DEF FileCurrent, DraftCurrent, BackupFirst, MayBeGone, Current
<1>3. CASE Replace \/ Delete
  <2>1. /\ UNCHANGED <<own, backup, saves, plain>> /\ step' = "idle"
        /\ race' = IF race = "open" THEN "lost" ELSE race
        /\ first' = IF first # Unwritten THEN first
                    ELSE IF race = "open" /\ backup = Absent THEN Absent ELSE file
        /\ first' # Unwritten
    BY <1>0, <1>3, Markers DEF Replace, Delete, Overwrites, HooksTypeOK
  <2>2. FileCurrent' /\ DraftCurrent'
    <3>1. CASE Replace
      <4>1. step = "replace" /\ file' = draft
        BY <3>1 DEF Replace
      <4> QED BY <1>0, <2>1, <4>1 DEF FileCurrent, DraftCurrent, MayBeGone, Current, HooksTypeOK
    <3>2. CASE Delete
      <4>1. step = "unlink"
        BY <3>2 DEF Delete
      <4> QED BY <1>0, <2>1, <4>1 DEF FileCurrent, DraftCurrent, MayBeGone, HooksTypeOK
    <3> QED BY <1>3, <3>1, <3>2
  <2>3. BackupFirst'
    <3>1. step = "replace" \/ own
      BY <1>0, <1>3 DEF Replace, Delete, DraftCurrent
    <3> QED BY <1>0, <2>1, <3>1, Markers DEF BackupFirst
  <2> QED BY <2>2, <2>3
<1>4. CASE KillCommand
  <2>1. /\ UNCHANGED <<own, file, saves, first, plain>> /\ step' = "idle"
        /\ race' = IF race = "open" THEN "none" ELSE race
        /\ backup' = backup \/ (backup = Absent /\ backup' = Torn)
    BY <1>4 DEF KillCommand
  <2> QED BY <1>0, <2>1, Markers DEF FileCurrent, DraftCurrent, BackupFirst, MayBeGone, Current
<1>5. CASE Save
  <2>1. /\ UNCHANGED <<own, backup, step, draft, first>>
        /\ race' = IF step = "idle" THEN "none" ELSE "open"
    BY <1>5 DEF Save
  <2>2. Current(file)' /\ file'.hooks = file.hooks
    BY <1>0, <1>5, SaveType DEF Current
  <2> QED BY <1>0, <2>1, <2>2 DEF FileCurrent, DraftCurrent, BackupFirst
<1>6. CASE UNCHANGED hookFile
  BY <1>0, <1>6
     DEF hookFile, histories, FileCurrent, DraftCurrent, BackupFirst, MayBeGone, Current
<1> QED BY <1>1, <1>2, <1>3, <1>4, <1>5, <1>6 DEF HooksNext

\* However often hooks are installed and removed and commands killed, the file holds
\* the user's last save unless the command it was made under replaced the file, or the
\* save left EdgeDisco's own file without hooks of the user's; and the backup holds the
\* hooks EdgeDisco found, whatever the user saves meanwhile (_load, _write).
THEOREM UserHooksAreKept == HooksSpec => []UserHooksKept
<1>1. HooksInv => UserHooksKept
  BY DEF HooksInv, FileCurrent, MayBeGone, Current, BackupFirst, UserHooksKept
<1> QED BY <1>1, HooksInvInit, HooksInvNext, PTL DEF HooksSpec

-----------------------------------------------------------------------------
(***************************************************************************)
(* Proofs about LocalServices.  A command is the list of the steps it has  *)
(* left.  The invariant says which steps these can be, which never come    *)
(* before which (Misplaced), and for each thing a command promises that    *)
(* it is so or that a step that makes it so is still left; when none is    *)
(* left, the promise is kept.                                              *)
(***************************************************************************)

Kind == {"stop", "start", "drain", "wait", "off", "drop", "write", "check", "halt",
         "launch", "enroll", "quit", "unlink"}
Step == [do : Kind, on : Service]
Steps == Seq(Step)

\* The steps in a list, and a list in which no step comes before one that it must
\* follow.
Listed(q) == {q[i] : i \in DOMAIN q}
Left == Listed(work)
Misplaced(x, y) ==
    \/ x.do = "start" /\ y.do \in {"stop", "drain"}
    \/ x.do = "unlink" /\ x.on = "server" /\ y.do = "unlink" /\ y.on = "agent"
    \/ x.do = "write" /\ x.on = "agent" /\ y.do = "write" /\ y.on = "server"
    \/ x.do = "launch" /\ y.do = "halt" /\ x.on = y.on
    \/ /\ x.do = "launch" /\ x.on = "agent"
       /\ y.do \in {"check", "halt"} /\ y.on = "server"
    \/ x.do = "wait" /\ y.do \in {"check", "drain"}
    \/ x.do = "check" /\ y.do = "halt" /\ y.on = "server"
InOrder(q) == \A i, j \in DOMAIN q : i < j => ~Misplaced(q[i], q[j])

\* What is left of each command are steps of its own.
Fits(x) ==
    /\ cmd = "stop" => x.do \in {"stop", "drain"} /\ (x.do = "stop" => x.on \in goal)
    /\ cmd = "start" => x.do \in {"start", "wait"} /\ (x.do = "start" => x.on \in goal)
    /\ cmd = "restart" => /\ x.do \in {"stop", "drain", "start", "wait"}
                          /\ x.do \in {"stop", "start"} => x.on \in goal
    /\ cmd = "uninstall" => x.do \in {"quit", "unlink"}
    /\ cmd = "setup" =>
         /\ x.do \in {"off", "drop", "write", "check", "drain", "wait", "enroll",
                      "halt", "launch"}
         /\ x.do \in {"off", "drop"} => x.on = "exporter" /\ ~wanted
         /\ x.do \in {"check", "drain", "wait"} => x.on = "server"
         /\ x.do = "launch" /\ x.on = "exporter" => wanted
Shape == InOrder(work) /\ \A x \in Left : Fits(x)

\* A job without a definition is one that uninstall could not stop, and the
\* agent's unit never stays without the server's.
Definitions ==
    /\ running \ defined \subseteq forsaken
    /\ "agent" \in defined => "server" \in defined

StopInv == cmd = "stop" =>
    \A s \in goal : Do("stop", s) \in Left \/ s \notin running \/ "print" \in slips
StartInv == cmd = "start" =>
    \A s \in goal : Do("start", s) \in Left \/ s \in running
RestartInv == cmd = "restart" =>
    /\ \A s \in goal :
         /\ Do("stop", s) \in Left \/ s \notin running \cap old \/ "print" \in slips
         /\ Do("start", s) \in Left \/ s \in running
    /\ (\E x \in Left : x.do = "stop") => \A s \in goal : Do("start", s) \in Left
    /\ \A s \in before \ goal : s \in running \/ (Linux /\ "server" \in goal /\ s = "agent")
    /\ Linux /\ "server" \in goal /\ "agent" \notin goal
         => Do("stop", "server") \in Left \/ "agent" \notin running
UninstallInv == cmd = "uninstall" => \A s \in defined : Do("unlink", s) \in Left

\* Setup: what is defined, what no longer is the job of before, and what runs.
Mine == {"server", "agent"} \cup (IF wanted THEN {"exporter"} ELSE {})
Told == slips \cap {"health", "stray"} # {}
Renewed(s) ==
    s \in running \cap old => "stop" \in slips /\ (Linux \/ Do("launch", s) \in Left)
SetupInv == cmd = "setup" =>
    /\ \A s \in Mine : s \in defined \/ Do("write", s) \in Left
    /\ \A s \in Mine :
         \/ s \in running \/ Do("launch", s) \in Left
         \/ s = "server" /\ Do("check", s) \in Left
    /\ \A s \in Service : Do("halt", s) \in Left => Do("launch", s) \in Left
    /\ Do("halt", "server") \in Left \/ Do("check", "server") \in Left
         => Do("launch", "agent") \in Left
    /\ \A s \in Mine : \/ Do("halt", s) \in Left \/ Renewed(s)
                       \/ s = "server" /\ Do("check", s) \in Left
    /\ Do("check", "server") \in Left \/ Do("drain", "server") \in Left
         \/ stray = "none" \/ Told
    /\ Do("wait", "server") \in Left \/ answered = "job" \/ Told
OffInv == cmd = "setup" /\ ~wanted =>
    \/ "exporter" \notin running \ forsaken
    \/ work # <<>> /\ Head(work).do = "off"

\* ServicesTypeOK, with the whole of a step.
Typed ==
    /\ platform \in {"macos", "linux"} /\ work \in Steps
    /\ defined \subseteq Service /\ enabled \subseteq Service /\ running \subseteq Service
    /\ goal \subseteq Service /\ before \subseteq Service /\ old \subseteq Service
    /\ forsaken \subseteq Service
    /\ up \in BOOLEAN /\ export \in BOOLEAN /\ wanted \in BOOLEAN
    /\ stray \in {"none", "ours", "other"}
    /\ cmd \in {"idle", "setup", "start", "stop", "restart", "uninstall"}
    /\ answered \in {"nobody", "job", "stray"}
    /\ slips \subseteq {"health", "stop", "print", "stray"}
ServicesInv ==
    /\ Typed
    /\ Shape /\ Definitions /\ StopInv /\ StartInv /\ RestartInv /\ UninstallInv
    /\ SetupInv /\ OffInv
-----------------------------------------------------------------------------
(* Lists of steps. *)

LEMMA DoFields ==
  \A what \in Kind, s \in Service :
    /\ Do(what, s) \in Step /\ Do(what, s).do = what /\ Do(what, s).on = s
BY DEF Do, Step

LEMMA StepIsDo == \A x \in Step : x.on \in Service /\ x.do \in Kind /\ x = Do(x.do, x.on)
BY DEF Do, Step

LEMMA TailLists ==
  ASSUME NEW q \in Steps, q # <<>>
  PROVE  /\ Head(q) \in Step /\ Tail(q) \in Steps
         /\ Listed(q) = {Head(q)} \cup Listed(Tail(q))
         /\ InOrder(q) => /\ InOrder(Tail(q))
                          /\ \A y \in Listed(Tail(q)) : ~Misplaced(Head(q), y)
<1>1. /\ Head(q) \in Step /\ Tail(q) \in Steps /\ Len(q) \in Nat \ {0}
      /\ Len(Tail(q)) = Len(q) - 1 /\ Head(q) = q[1]
      /\ DOMAIN q = 1..Len(q) /\ DOMAIN Tail(q) = 1..Len(q) - 1
      /\ \A i \in 1..Len(q) - 1 : Tail(q)[i] = q[i + 1] /\ i + 1 \in 1..Len(q)
  <2>1. Head(q) = q[1]
    BY DEF Steps
  <2> QED BY <2>1, HeadTailProperties, LenProperties, EmptySeq DEF Steps
<1>2. \A j \in DOMAIN q : j = 1 \/ (j - 1 \in DOMAIN Tail(q) /\ q[j] = Tail(q)[j - 1])
  BY <1>1
<1>3. Listed(q) = {Head(q)} \cup Listed(Tail(q))
  <2>1. 1 \in DOMAIN q
    BY <1>1
  <2>2. Listed(q) \subseteq {Head(q)} \cup Listed(Tail(q))
    BY <1>1, <1>2 DEF Listed
  <2>3. {Head(q)} \cup Listed(Tail(q)) \subseteq Listed(q)
    BY <1>1, <2>1 DEF Listed
  <2> QED BY <2>2, <2>3
<1>4. ASSUME InOrder(q), NEW i \in DOMAIN Tail(q), NEW j \in DOMAIN Tail(q), i < j
      PROVE  ~Misplaced(Tail(q)[i], Tail(q)[j])
  <2>1. i + 1 \in DOMAIN q /\ j + 1 \in DOMAIN q /\ i + 1 < j + 1
    BY <1>1, <1>4
  <2> QED BY <1>1, <1>4, <2>1 DEF InOrder
<1>5. ASSUME InOrder(q), NEW y \in Listed(Tail(q)) PROVE ~Misplaced(Head(q), y)
  <2>1. PICK j \in DOMAIN Tail(q) : y = Tail(q)[j]
    BY DEF Listed
  <2>2. 1 \in DOMAIN q /\ j + 1 \in DOMAIN q /\ 1 < j + 1 /\ y = q[j + 1]
    BY <1>1, <2>1
  <2> QED BY <1>1, <1>5, <2>2 DEF InOrder
<1> QED BY <1>1, <1>3, <1>4, <1>5 DEF InOrder

LEMMA ConcatLists ==
  ASSUME NEW p \in Steps, NEW q \in Steps
  PROVE  /\ p \o q \in Steps
         /\ Listed(p \o q) = Listed(p) \cup Listed(q)
         /\ /\ InOrder(p) /\ InOrder(q)
            /\ \A x \in Listed(p), y \in Listed(q) : ~Misplaced(x, y)
            => InOrder(p \o q)
<1> DEFINE r == p \o q
<1>1. /\ r \in Steps /\ DOMAIN r = 1..Len(p) + Len(q)
      /\ DOMAIN p = 1..Len(p) /\ DOMAIN q = 1..Len(q)
      /\ Len(p) \in Nat /\ Len(q) \in Nat
      /\ \A i \in 1..Len(p) + Len(q) :
           r[i] = IF i <= Len(p) THEN p[i] ELSE q[i - Len(p)]
  <2>1. r \in Steps /\ Len(r) = Len(p) + Len(q)
    BY ConcatProperties DEF Steps
  <2> QED BY <2>1, ConcatProperties, LenProperties DEF Steps
<1> HIDE DEF r
<1>2. \A i \in DOMAIN r :
        \/ i \in DOMAIN p /\ r[i] = p[i]
        \/ i > Len(p) /\ i - Len(p) \in DOMAIN q /\ r[i] = q[i - Len(p)]
  BY <1>1
<1>3. \A i \in DOMAIN p : i \in DOMAIN r /\ r[i] = p[i]
  BY <1>1
<1>4. \A i \in DOMAIN q : i + Len(p) \in DOMAIN r /\ r[i + Len(p)] = q[i]
  <2> SUFFICES ASSUME NEW i \in DOMAIN q
               PROVE  i + Len(p) \in DOMAIN r /\ r[i + Len(p)] = q[i]
    OBVIOUS
  <2>1. i + Len(p) \in DOMAIN r /\ ~(i + Len(p) <= Len(p)) /\ (i + Len(p)) - Len(p) = i
    BY <1>1
  <2>2. r[i + Len(p)] = q[(i + Len(p)) - Len(p)]
    BY <1>1, <2>1
  <2> QED BY <2>1, <2>2
<1>5. Listed(r) = Listed(p) \cup Listed(q)
  <2>1. Listed(r) \subseteq Listed(p) \cup Listed(q)
    BY <1>2 DEF Listed
  <2>2. Listed(p) \subseteq Listed(r)
    BY <1>3 DEF Listed
  <2>3. Listed(q) \subseteq Listed(r)
    BY <1>4 DEF Listed
  <2> QED BY <2>1, <2>2, <2>3
<1>6. ASSUME InOrder(p), InOrder(q),
             \A x \in Listed(p), y \in Listed(q) : ~Misplaced(x, y),
             NEW i \in DOMAIN r, NEW j \in DOMAIN r, i < j
      PROVE  ~Misplaced(r[i], r[j])
  <2>1. CASE i \in DOMAIN p /\ r[i] = p[i] /\ j \in DOMAIN p /\ r[j] = p[j]
    BY <1>6, <2>1 DEF InOrder
  <2>2. CASE /\ i - Len(p) \in DOMAIN q /\ r[i] = q[i - Len(p)]
             /\ j - Len(p) \in DOMAIN q /\ r[j] = q[j - Len(p)]
    <3>1. i - Len(p) < j - Len(p)
      BY <1>1, <1>6
    <3> QED BY <1>6, <2>2, <3>1 DEF InOrder
  <2>3. CASE /\ i \in DOMAIN p /\ r[i] = p[i]
             /\ j - Len(p) \in DOMAIN q /\ r[j] = q[j - Len(p)]
    <3>1. r[i] \in Listed(p) /\ r[j] \in Listed(q)
      BY <2>3 DEF Listed
    <3> QED BY <1>6, <3>1
  <2>4. ~(i > Len(p) /\ j \in DOMAIN p)
    BY <1>1, <1>6
  <2> QED BY <1>2, <2>1, <2>2, <2>3, <2>4
<1> QED BY <1>1, <1>5, <1>6 DEF InOrder, r

LEMMA ShortLists ==
  /\ <<>> \in Steps /\ Listed(<<>>) = {} /\ InOrder(<<>>)
  /\ \A x \in Step : <<x>> \in Steps /\ Listed(<<x>>) = {x} /\ InOrder(<<x>>)
<1>1. <<>> \in Steps /\ Listed(<<>>) = {} /\ InOrder(<<>>)
  BY DEF Steps, Listed, InOrder
<1>2. ASSUME NEW x \in Step
      PROVE  <<x>> \in Steps /\ Listed(<<x>>) = {x} /\ InOrder(<<x>>)
  <2>1. <<x>> \in Steps /\ DOMAIN <<x>> = {1} /\ <<x>>[1] = x
    BY DEF Steps
  <2> QED BY <2>1 DEF Listed, InOrder
<1> QED BY <1>1, <1>2

LEMMA Pairs ==
  ASSUME NEW x \in Step, NEW y \in Step
  PROVE  /\ <<x, y>> \in Steps /\ Listed(<<x, y>>) = {x, y}
         /\ ~Misplaced(x, y) => InOrder(<<x, y>>)
<1>1. <<x, y>> \in Steps /\ DOMAIN <<x, y>> = {1, 2} /\ <<x, y>>[1] = x /\ <<x, y>>[2] = y
  BY DEF Steps
<1>2. InOrder(<<x, y>>) <=> ~Misplaced(x, y)
  BY <1>1 DEF InOrder
<1> QED BY <1>1, <1>2 DEF Listed

-----------------------------------------------------------------------------
(* The step at the head of a command, and what replaces it. *)

Rest == Listed(Tail(work))

LEMMA HeadTaken ==
  ASSUME work \in Steps, Shape, NEW what \in Kind, NEW s \in Service, Now(what, s)
  PROVE  /\ Left = {Do(what, s)} \cup Rest /\ Rest \subseteq Step
         /\ Tail(work) \in Steps /\ InOrder(Tail(work)) /\ Fits(Do(what, s))
         /\ \A y \in Rest : Fits(y) /\ ~Misplaced(Do(what, s), y)
<1>1. work # <<>> /\ Head(work) = Do(what, s)
  BY DEF Now
<1>2. Rest \subseteq Step
  <2>1. Tail(work) \in Seq(Step)
    BY <1>1, TailLists DEF Steps
  <2> QED BY <2>1 DEF Rest, Listed
<1>3. /\ Left = {Do(what, s)} \cup Rest /\ Tail(work) \in Steps /\ InOrder(Tail(work))
      /\ \A y \in Rest : ~Misplaced(Do(what, s), y)
  BY <1>1, TailLists DEF Left, Rest, Shape
<1> QED BY <1>2, <1>3 DEF Shape

LEMMA HeadReplaced ==
  ASSUME work \in Steps, Shape, NEW what \in Kind, NEW s \in Service, Now(what, s),
         NEW p \in Steps, Then(p), InOrder(p),
         \A x \in Listed(p) : Fits(x) /\ \A y \in Rest : ~Misplaced(x, y)
  PROVE  work' \in Steps /\ Left' = Listed(p) \cup Rest /\ Shape'
<1>1. /\ Tail(work) \in Steps /\ InOrder(Tail(work)) /\ \A y \in Rest : Fits(y)
      /\ work' = p \o Tail(work) /\ UNCHANGED <<cmd, goal, wanted>>
  BY HeadTaken DEF Then, request
<1>2. work' \in Steps /\ Left' = Listed(p) \cup Rest /\ InOrder(work')
  BY <1>1, ConcatLists DEF Left, Rest
<1>3. \A x \in Left' : Fits(x)
  BY <1>1, <1>2
<1>4. \A x : Fits(x) => Fits(x)'
  BY <1>1 DEF Fits
<1> QED BY <1>2, <1>3, <1>4 DEF Shape

LEMMA Proceeded ==
  ASSUME work \in Steps, Shape, NEW what \in Kind, NEW s \in Service, Now(what, s), Proceed
  PROVE  work' \in Steps /\ Left' = Rest /\ Shape'
<1>1. <<>> \in Steps /\ InOrder(<<>>) /\ Listed(<<>>) = {}
  BY ShortLists
<1> QED BY <1>1, HeadReplaced DEF Proceed

-----------------------------------------------------------------------------
(* The lists with which the commands begin. *)

LEMMA ForList ==
  ASSUME NEW S, NEW what \in Kind, NEW s \in Service
  PROVE  /\ For(S, what, s) \in Steps /\ InOrder(For(S, what, s))
         /\ Listed(For(S, what, s)) = IF s \in S THEN {Do(what, s)} ELSE {}
<1>1. Do(what, s) \in Step
  BY DoFields
<1> QED BY <1>1, ShortLists DEF For

\* Lists whose steps all do the same thing, and that is neither unlink nor write.
LEMMA SameDoing ==
  ASSUME NEW what \in {"start", "stop"}, NEW p \in Steps, NEW q \in Steps,
         \A x \in Listed(p) \cup Listed(q) : x.do = what,
         InOrder(p), InOrder(q)
  PROVE  InOrder(p \o q)
<1>1. \A x \in Listed(p), y \in Listed(q) : ~Misplaced(x, y)
  BY DEF Misplaced
<1> QED BY <1>1, ConcatLists

\* What start and stop begin with: one step for each service of S, in either order.
Each(S, what, a, b, c) == For(S, what, a) \o For(S, what, b) \o For(S, what, c)

LEMMA OneEach ==
  ASSUME NEW S \in SUBSET Service, NEW what \in {"start", "stop"},
         NEW a \in Service, NEW b \in Service, NEW c \in Service,
         \A s \in Service : s \in {a, b, c}
  PROVE  /\ Each(S, what, a, b, c) \in Steps /\ InOrder(Each(S, what, a, b, c))
         /\ Listed(Each(S, what, a, b, c)) = {Do(what, s) : s \in S}
<1> DEFINE p == Each(S, what, a, b, c)
           x == For(S, what, a)
           y == For(S, what, b)
           z == For(S, what, c)
<1>0. what \in Kind
  BY DEF Kind
<1>1. /\ x \in Steps /\ InOrder(x) /\ Listed(x) = IF a \in S THEN {Do(what, a)} ELSE {}
      /\ y \in Steps /\ InOrder(y) /\ Listed(y) = IF b \in S THEN {Do(what, b)} ELSE {}
      /\ z \in Steps /\ InOrder(z) /\ Listed(z) = IF c \in S THEN {Do(what, c)} ELSE {}
  BY <1>0, ForList
<1>2. \A s \in Service : Do(what, s).do = what
  BY <1>0, DoFields
<1> HIDE DEF x, y, z
<1>3. \A d \in Listed(x) \cup Listed(y) \cup Listed(z) : d.do = what
  BY <1>1, <1>2
<1>4. /\ x \o y \in Steps /\ Listed(x \o y) = Listed(x) \cup Listed(y)
      /\ InOrder(x \o y)
  BY <1>1, <1>3, ConcatLists, SameDoing
<1>5. /\ (x \o y) \o z \in Steps /\ InOrder((x \o y) \o z)
      /\ Listed((x \o y) \o z) = Listed(x) \cup Listed(y) \cup Listed(z)
  BY <1>1, <1>3, <1>4, ConcatLists, SameDoing
<1>6. p = (x \o y) \o z
  BY DEF Each, x, y, z
<1>7. Listed(x) \cup Listed(y) \cup Listed(z) = {Do(what, s) : s \in S}
  BY <1>1
<1> HIDE DEF p
<1>8. p \in Steps /\ InOrder(p) /\ Listed(p) = {Do(what, s) : s \in S}
  BY <1>5, <1>6, <1>7
<1> QED BY <1>8 DEF p

LEMMA StartsList ==
  ASSUME NEW S \in SUBSET Service
  PROVE  /\ Starts(S) \in Steps /\ InOrder(Starts(S))
         /\ Listed(Starts(S)) = {Do("start", s) : s \in S}
<1>1. Starts(S) = Each(S, "start", "server", "agent", "exporter")
  BY DEF Starts, Each
<1>2. /\ "start" \in {"start", "stop"} /\ Service = {"server", "agent", "exporter"}
      /\ "server" \in Service /\ "agent" \in Service /\ "exporter" \in Service
      /\ \A s \in Service : s \in {"server", "agent", "exporter"}
  BY DEF Service
<1> DEFINE p == Each(S, "start", "server", "agent", "exporter")
<1>3. p \in Steps /\ InOrder(p) /\ Listed(p) = {Do("start", s) : s \in S}
  BY <1>2, OneEach
<1> HIDE DEF p
<1> QED BY <1>1, <1>3 DEF p

LEMMA StopsList ==
  ASSUME NEW S \in SUBSET Service
  PROVE  /\ Stops(S) \in Steps /\ InOrder(Stops(S))
         /\ Listed(Stops(S)) = {Do("stop", s) : s \in S}
<1>1. Stops(S) = Each(S, "stop", "exporter", "agent", "server")
  BY DEF Stops, Each
<1>2. /\ "exporter" \in Service /\ "agent" \in Service /\ "server" \in Service
      /\ "stop" \in {"start", "stop"}
      /\ \A s \in Service : s \in {"exporter", "agent", "server"}
  BY DEF Service
<1> QED BY <1>1, <1>2, OneEach

LEMMA RestartList ==
  ASSUME NEW S \in SUBSET Service
  PROVE  /\ Stops(S) \o Starts(S) \in Steps /\ InOrder(Stops(S) \o Starts(S))
         /\ Listed(Stops(S) \o Starts(S)) =
              {Do("stop", s) : s \in S} \cup {Do("start", s) : s \in S}
<1>1. \A x \in Listed(Stops(S)) : x.do = "stop"
  BY StopsList, DoFields DEF Kind
<1>2. \A y \in Listed(Starts(S)) : y.do = "start"
  BY StartsList, DoFields DEF Kind
<1>3. \A x \in Listed(Stops(S)), y \in Listed(Starts(S)) : ~Misplaced(x, y)
  BY <1>1, <1>2 DEF Misplaced
<1> QED BY <1>3, StartsList, StopsList, ConcatLists

LEMMA RemovalList ==
  /\ Removal \in Steps /\ InOrder(Removal)
  /\ \A x \in Listed(Removal) : x.do \in {"quit", "unlink"}
  /\ \A s \in {"server", "agent"} \cup defined : s \in Service => Do("unlink", s) \in Listed(Removal)
<1> DEFINE E == UnregisterExporter
           Quit2 == <<Do("quit", "agent"), Do("quit", "server")>>
           Unlink2 == <<Do("unlink", "agent"), Do("unlink", "server")>>
           A == Unregister("agent")
           R == Unregister("server")
<1>0. {"server", "agent", "exporter"} = Service
  BY DEF Service
<1>1. /\ E \in Steps /\ InOrder(E)
      /\ \A x \in Listed(E) : x.do \in {"quit", "unlink"} /\ x.on = "exporter"
      /\ "exporter" \in defined => Do("unlink", "exporter") \in Listed(E)
  <2>1. /\ Do("quit", "exporter") \in Step /\ Do("unlink", "exporter") \in Step
        /\ Do("quit", "exporter").do = "quit" /\ Do("unlink", "exporter").do = "unlink"
        /\ Do("quit", "exporter").on = "exporter" /\ Do("unlink", "exporter").on = "exporter"
    BY <1>0, DoFields DEF Kind
  <2>2. ~Misplaced(Do("quit", "exporter"), Do("unlink", "exporter"))
    BY <2>1 DEF Misplaced
  <2>3. /\ Unregister("exporter") \in Steps /\ InOrder(Unregister("exporter"))
        /\ Listed(Unregister("exporter")) = {Do("quit", "exporter"), Do("unlink", "exporter")}
    BY <2>1, <2>2, Pairs DEF Unregister
  <2>4. CASE "exporter" \in defined
    <3>1. E = Unregister("exporter")
      BY <2>4 DEF UnregisterExporter
    <3> QED BY <2>1, <2>3, <3>1
  <2>5. CASE "exporter" \notin defined
    <3>1. E = <<>>
      BY <2>5 DEF UnregisterExporter
    <3> QED BY <2>5, <3>1, ShortLists
  <2> QED BY <2>4, <2>5
<1>2. /\ \A what \in {"quit", "unlink"}, s \in {"server", "agent"} :
           Do(what, s) \in Step /\ Do(what, s).do = what /\ Do(what, s).on = s
  BY <1>0, DoFields DEF Kind
<1>3. /\ A \in Steps /\ InOrder(A) /\ R \in Steps /\ InOrder(R)
      /\ Listed(A) = {Do("quit", "agent"), Do("unlink", "agent")}
      /\ Listed(R) = {Do("quit", "server"), Do("unlink", "server")}
  <2>1. /\ ~Misplaced(Do("quit", "agent"), Do("unlink", "agent"))
        /\ ~Misplaced(Do("quit", "server"), Do("unlink", "server"))
    BY <1>2 DEF Misplaced
  <2> QED BY <1>2, <2>1, Pairs DEF Unregister
<1>4. /\ Quit2 \in Steps /\ InOrder(Quit2) /\ Unlink2 \in Steps /\ InOrder(Unlink2)
      /\ Listed(Quit2) = {Do("quit", "agent"), Do("quit", "server")}
      /\ Listed(Unlink2) = {Do("unlink", "agent"), Do("unlink", "server")}
  <2>1. /\ ~Misplaced(Do("quit", "agent"), Do("quit", "server"))
        /\ ~Misplaced(Do("unlink", "agent"), Do("unlink", "server"))
    BY <1>2 DEF Misplaced
  <2> QED BY <1>2, <2>1, Pairs
<1> HIDE DEF E, Quit2, Unlink2, A, R
<1>5. CASE Linux
  <2>1. /\ E \o A \in Steps /\ InOrder(E \o A) /\ Listed(E \o A) = Listed(E) \cup Listed(A)
    <3>1. \A x \in Listed(E), y \in Listed(A) : ~Misplaced(x, y)
      BY <1>1, <1>2, <1>3 DEF Misplaced
    <3> QED BY <1>1, <1>3, <3>1, ConcatLists
  <2>2. /\ (E \o A) \o R \in Steps /\ InOrder((E \o A) \o R)
        /\ Listed((E \o A) \o R) = Listed(E) \cup Listed(A) \cup Listed(R)
    <3>1. \A x \in Listed(E \o A), y \in Listed(R) : ~Misplaced(x, y)
      BY <1>1, <1>2, <1>3, <2>1 DEF Misplaced
    <3> QED BY <1>3, <2>1, <3>1, ConcatLists
  <2>3. Removal = (E \o A) \o R
    BY <1>5 DEF Removal, E, A, R
  <2> QED BY <1>0, <1>1, <1>2, <1>3, <2>2, <2>3
<1>6. CASE ~Linux
  <2>1. /\ Quit2 \o E \in Steps /\ InOrder(Quit2 \o E)
        /\ Listed(Quit2 \o E) = Listed(Quit2) \cup Listed(E)
    <3>1. \A x \in Listed(Quit2), y \in Listed(E) : ~Misplaced(x, y)
      BY <1>1, <1>2, <1>4 DEF Misplaced
    <3> QED BY <1>1, <1>4, <3>1, ConcatLists
  <2>2. /\ (Quit2 \o E) \o Unlink2 \in Steps /\ InOrder((Quit2 \o E) \o Unlink2)
        /\ Listed((Quit2 \o E) \o Unlink2) = Listed(Quit2) \cup Listed(E) \cup Listed(Unlink2)
    <3>1. \A x \in Listed(Quit2 \o E), y \in Listed(Unlink2) : ~Misplaced(x, y)
      BY <1>1, <1>2, <1>4, <2>1 DEF Misplaced
    <3> QED BY <1>4, <2>1, <3>1, ConcatLists
  <2>3. Removal = (Quit2 \o E) \o Unlink2
    BY <1>6 DEF Removal, E, Quit2, Unlink2
  <2> QED BY <1>0, <1>1, <1>2, <1>4, <2>2, <2>3
<1> QED BY <1>5, <1>6

LEMMA SetupList ==
  /\ Setup \in Steps /\ InOrder(Setup)
  /\ Listed(Setup) =
       {Do("write", "server"), Do("write", "agent"), Do("check", "server"),
        Do("wait", "server"), Do("enroll", "agent"), Do("halt", "agent"), Do("launch", "agent")}
       \cup (IF export
             THEN {Do("write", "exporter"), Do("halt", "exporter"), Do("launch", "exporter")}
             ELSE {Do("off", "exporter")})
  /\ ~export => Setup # <<>> /\ Head(Setup) = Do("off", "exporter")
<1> DEFINE q == <<Do("write", "server"), Do("write", "agent"), Do("check", "server"),
                  Do("wait", "server"), Do("enroll", "agent")>>
           A == Relaunch("agent")
           w == <<Do("write", "exporter")>>
           E == Relaunch("exporter")
           C == CoreServices
<1>0. \A s \in {"server", "agent", "exporter"}, what \in Kind :
        Do(what, s) \in Step /\ Do(what, s).do = what /\ Do(what, s).on = s
  BY DoFields DEF Service
<1>1. /\ q \in Steps /\ InOrder(q)
      /\ Listed(q) = {Do("write", "server"), Do("write", "agent"), Do("check", "server"),
                      Do("wait", "server"), Do("enroll", "agent")}
  <2>1. /\ Do("write", "server") \in Step /\ Do("write", "agent") \in Step
        /\ Do("check", "server") \in Step /\ Do("wait", "server") \in Step
        /\ Do("enroll", "agent") \in Step
    BY <1>0 DEF Kind
  <2>2. /\ q \in Steps /\ DOMAIN q = 1..5
        /\ q[1] = Do("write", "server") /\ q[2] = Do("write", "agent")
        /\ q[3] = Do("check", "server") /\ q[4] = Do("wait", "server")
        /\ q[5] = Do("enroll", "agent")
    BY <2>1 DEF Steps
  <2> HIDE DEF q
  <2>3. /\ q[1].do = "write" /\ q[1].on = "server" /\ q[2].do = "write" /\ q[2].on = "agent"
        /\ q[3].do = "check" /\ q[4].do = "wait" /\ q[5].do = "enroll"
    BY <1>0, <2>2 DEF Kind
  <2>4. InOrder(q)
    <3> SUFFICES ASSUME NEW i \in 1..5, NEW j \in 1..5, i < j PROVE ~Misplaced(q[i], q[j])
      BY <2>2 DEF InOrder
    <3>1. i = 1 \/ i = 2 \/ i = 3 \/ i = 4
      OBVIOUS
    <3>2. j = 2 \/ j = 3 \/ j = 4 \/ j = 5
      OBVIOUS
    <3>3. ~(q[j].do \in {"stop", "unlink", "halt", "drain"})
      BY <2>3, <3>2
    <3>4. /\ ~(q[i].do = "wait" /\ q[j].do = "check")
          /\ ~(q[i].do = "write" /\ q[i].on = "agent" /\ q[j].do = "write")
      BY <2>3, <3>1, <3>2
    <3>5. q[i].do # "launch"
      BY <2>3, <3>1
    <3> QED BY <3>3, <3>4, <3>5 DEF Misplaced
  <2>5. Listed(q) = {q[1], q[2], q[3], q[4], q[5]}
    BY <2>2 DEF Listed
  <2> QED BY <2>2, <2>4, <2>5
<1>2. ASSUME NEW s \in {"agent", "exporter"}
      PROVE  /\ Relaunch(s) \in Steps /\ InOrder(Relaunch(s))
             /\ Listed(Relaunch(s)) = {Do("halt", s), Do("launch", s)}
  <2>1. ~Misplaced(Do("halt", s), Do("launch", s))
    BY <1>0 DEF Misplaced, Kind
  <2>2. Do("halt", s) \in Step /\ Do("launch", s) \in Step
    BY <1>0 DEF Kind
  <2> QED BY <2>1, <2>2, Pairs DEF Relaunch
<1>3. /\ C \in Steps /\ InOrder(C)
      /\ Listed(C) = Listed(q) \cup {Do("halt", "agent"), Do("launch", "agent")}
  <2>1. A \in Steps /\ InOrder(A) /\ Listed(A) = {Do("halt", "agent"), Do("launch", "agent")}
    BY <1>2
  <2>2. \A x \in Listed(q), y \in Listed(A) : ~Misplaced(x, y)
    BY <1>0, <1>1, <2>1 DEF Misplaced, Kind
  <2>3. C = q \o A
    BY DEF CoreServices
  <2> HIDE DEF q, A, C
  <2> QED BY <1>1, <2>1, <2>2, <2>3, ConcatLists
<1>4. ASSUME export
      PROVE  /\ Setup = C \o (w \o E)
             /\ w \o E \in Steps /\ InOrder(w \o E)
             /\ Listed(w \o E) =
                  {Do("write", "exporter"), Do("halt", "exporter"), Do("launch", "exporter")}
  <2>1. w \in Steps /\ InOrder(w) /\ Listed(w) = {Do("write", "exporter")}
    BY <1>0, ShortLists DEF Kind
  <2>2. E \in Steps /\ InOrder(E) /\ Listed(E) = {Do("halt", "exporter"), Do("launch", "exporter")}
    BY <1>2
  <2>3. \A x \in Listed(w), y \in Listed(E) : ~Misplaced(x, y)
    BY <1>0, <2>1, <2>2 DEF Misplaced, Kind
  <2>4. Setup = (<<>> \o C) \o (w \o E)
    BY <1>4 DEF Setup, ExportOff, ExportOn
  <2>5. <<>> \o C = C
    BY <1>3, ConcatEmptySeq DEF Steps
  <2> HIDE DEF w, E, C
  <2> QED BY <2>1, <2>2, <2>3, <2>4, <2>5, ConcatLists
<1>5. CASE export
  <2> DEFINE X == w \o E
  <2>1. X \in Steps /\ InOrder(X) /\ Setup = C \o X /\ Listed(X) =
          {Do("write", "exporter"), Do("halt", "exporter"), Do("launch", "exporter")}
    BY <1>4, <1>5
  <2> HIDE DEF q, C, X
  <2>2. \A x \in Listed(C), y \in Listed(X) : ~Misplaced(x, y)
    <3>1. \A y \in Listed(X) : y.on = "exporter" /\ y.do \in {"write", "halt", "launch"}
      BY <1>0, <2>1 DEF Kind
    <3>2. \A x \in Listed(C) : x.on # "exporter"
      BY <1>0, <1>1, <1>3 DEF Kind
    <3> QED BY <3>1, <3>2 DEF Misplaced
  <2>3. C \o X \in Steps /\ InOrder(C \o X) /\ Listed(C \o X) = Listed(C) \cup Listed(X)
    BY <1>3, <2>1, <2>2, ConcatLists
  <2> QED BY <1>1, <1>3, <1>5, <2>1, <2>3
<1>6. CASE ~export
  <2> DEFINE o == <<Do("off", "exporter")>>
  <2>1. o \in Steps /\ InOrder(o) /\ Listed(o) = {Do("off", "exporter")} /\ Len(o) = 1
        /\ o[1] = Do("off", "exporter")
    BY <1>0, ShortLists DEF Kind
  <2>2. Setup = (o \o C) \o <<>>
    BY <1>6 DEF Setup, ExportOff, ExportOn
  <2> HIDE DEF q, C, o
  <2>3. \A x \in Listed(o), y \in Listed(C) : ~Misplaced(x, y)
    BY <1>0, <2>1 DEF Misplaced, Kind
  <2>4. o \o C \in Steps /\ InOrder(o \o C) /\ Listed(o \o C) = Listed(o) \cup Listed(C)
    BY <1>3, <2>1, <2>3, ConcatLists
  <2>5. Setup = o \o C
    BY <2>2, <2>4, ConcatEmptySeq DEF Steps
  <2>6. Len(o \o C) > 0 /\ (o \o C)[1] = o[1]
    <3>1. Len(C) \in Nat
      BY <1>3, LenProperties DEF Steps
    <3>2. /\ Len(o \o C) = Len(o) + Len(C)
          /\ \A i \in 1..Len(o) + Len(C) :
               (o \o C)[i] = IF i <= Len(o) THEN o[i] ELSE C[i - Len(o)]
      BY <1>3, <2>1, ConcatProperties DEF Steps
    <3> QED BY <2>1, <3>1, <3>2
  <2>7. Setup # <<>> /\ Head(Setup) = Setup[1]
    BY <2>4, <2>5, <2>6 DEF Steps
  <2> QED BY <1>1, <1>3, <1>6, <2>1, <2>4, <2>5, <2>6, <2>7
<1> QED BY <1>5, <1>6

-----------------------------------------------------------------------------
(* The invariant: at the beginning, and when no command is run. *)

LEMMA IdleInv ==
  ASSUME Typed, Definitions, cmd = "idle", work = <<>>
  PROVE  ServicesInv
<1>1. work \in Steps /\ Left = {} /\ InOrder(work)
  BY ShortLists DEF Left
<1>2. Shape
  BY <1>1 DEF Shape
<1> QED BY <1>1, <1>2 DEF ServicesInv, StopInv, StartInv, RestartInv, UninstallInv, SetupInv, OffInv

LEMMA IdleNextInv ==
  ASSUME Typed', Definitions', cmd' = "idle", work' = <<>>
  PROVE  ServicesInv'
<1>1. work' \in Steps /\ Left' = {} /\ InOrder(work')
  BY ShortLists DEF Left
<1>2. Shape'
  BY <1>1 DEF Shape
<1> QED BY <1>1, <1>2 DEF ServicesInv, StopInv, StartInv, RestartInv, UninstallInv, SetupInv, OffInv

LEMMA ServicesInvInit == ServicesInit => ServicesInv
<1> SUFFICES ASSUME ServicesInit PROVE ServicesInv
  OBVIOUS
<1>1. Typed
  BY ShortLists DEF ServicesInit, Typed
<1>2. Definitions
  BY DEF ServicesInit, Definitions
<1> QED BY <1>1, <1>2, IdleInv DEF ServicesInit

LEMMA FinishKeeps ==
  ASSUME ServicesInv, Finish, platform' = platform, enabled' \subseteq enabled,
         UNCHANGED <<defined, export>>, stray' \in {stray, "none"}, up' \in BOOLEAN,
         running' \subseteq Service, forsaken' \subseteq Service,
         running' \ defined \subseteq forsaken'
  PROVE  ServicesInv'
<1>1. Typed'
  BY ShortLists DEF ServicesInv, Typed, Finish
<1>2. Definitions'
  BY DEF ServicesInv, Definitions
<1> QED BY <1>1, <1>2, IdleNextInv DEF Finish

LEMMA EndKeeps == ASSUME ServicesInv, End PROVE ServicesInv'
BY FinishKeeps DEF End, ServicesInv, Typed, Definitions, files

LEMMA RebootKeeps == ASSUME ServicesInv, Reboot PROVE ServicesInv'
<1>1. AtLogin \subseteq defined
  <2>1. CASE Linux
    BY <2>1 DEF AtLogin, Entering, ServicesInv, Definitions
  <2>2. CASE ~Linux
    BY <2>2 DEF AtLogin
  <2> QED BY <2>1, <2>2
<1>2. defined \subseteq Service
  BY DEF ServicesInv, Typed
<1> QED BY <1>1, <1>2, FinishKeeps DEF Reboot, files

\* What happens beside a command: the jobs, their definitions and the command stay.
LEMMA BesideKeeps ==
  ASSUME ServicesInv,
         UNCHANGED <<platform, defined, enabled, running, request, work, answered, forsaken>>,
         up' \in BOOLEAN, export' \in BOOLEAN, stray' \in {"none", "ours", "other"},
         old' \subseteq old, slips \subseteq slips', slips' \subseteq slips \cup {"stray"},
         \/ cmd = "idle" \/ stray' \in {stray, "none"} \/ "stray" \in slips'
  PROVE  ServicesInv'
<1>1. Typed'
  BY DEF ServicesInv, Typed, request
<1>2. Left' = Left /\ Shape' /\ Definitions'
  <2>1. \A x : Fits(x) => Fits(x)'
    BY DEF Fits, request
  <2> QED BY <2>1 DEF ServicesInv, Left, Shape, Definitions
<1>3. StopInv' /\ StartInv' /\ RestartInv' /\ UninstallInv' /\ OffInv'
  BY <1>2 DEF ServicesInv, StopInv, StartInv, RestartInv, UninstallInv, OffInv, request, Linux
<1>4. SetupInv'
  <2> SUFFICES ASSUME cmd = "setup" PROVE SetupInv'
    BY DEF SetupInv, request
  <2>1. stray' = "none" \/ stray' = stray \/ "stray" \in slips'
    OBVIOUS
  <2>2. Told => Told'
    BY DEF Told
  <2>3. \A s \in Mine : Renewed(s) => Renewed(s)'
    BY <1>2 DEF Renewed, Linux
  <2>4. Mine' = Mine
    BY DEF Mine, request
  <2>5. "stray" \in slips' => Told'
    BY DEF Told
  <2> QED BY <1>2, <2>1, <2>2, <2>3, <2>4, <2>5 DEF ServicesInv, SetupInv
<1> QED BY <1>1, <1>2, <1>3, <1>4 DEF ServicesInv

LEMMA EnvironmentKeeps ==
  ASSUME ServicesInv,
         Bind \/ Crash \/ StrayStarts \/ StrayQuits \/ EditEnv \/ UNCHANGED services
  PROVE  ServicesInv'
<1>0. up \in BOOLEAN /\ export \in BOOLEAN /\ stray \in {"none", "ours", "other"}
  BY DEF ServicesInv, Typed
<1>1. CASE Bind
  BY <1>0, <1>1, BesideKeeps DEF Bind, files
<1>2. CASE Crash
  BY <1>0, <1>2, BesideKeeps DEF Crash, files
<1>3. CASE StrayStarts
  BY <1>0, <1>3, BesideKeeps DEF StrayStarts, files
<1>4. CASE StrayQuits
  BY <1>0, <1>4, BesideKeeps DEF StrayQuits, files
<1>5. CASE EditEnv
  BY <1>0, <1>5, BesideKeeps DEF EditEnv
<1>6. CASE UNCHANGED services
  BY <1>0, <1>6, BesideKeeps DEF services, files
<1> QED BY <1>1, <1>2, <1>3, <1>4, <1>5, <1>6

-----------------------------------------------------------------------------
(* The invariant when a command begins. *)

LEMMA Begun ==
  ASSUME ServicesInv, NEW c \in {"setup", "start", "stop", "restart", "uninstall"},
         NEW S \in SUBSET Service, NEW p \in Steps, InOrder(p), Begin(c, S, p),
         \A x \in Listed(p) : Fits(x)'
  PROVE  /\ Typed' /\ Left' = Listed(p) /\ Shape' /\ Definitions'
         /\ cmd' = c /\ goal' = S /\ before' = running /\ running' = running
         /\ wanted' = (c = "setup" /\ export)
         /\ defined' = defined
<1>1. Left' = Listed(p) /\ work' \in Steps /\ Shape'
  BY DEF Begin, Left, Shape
<1>2. Typed'
  BY <1>1 DEF Begin, ServicesInv, Typed, files
<1>3. Definitions'
  BY DEF Begin, ServicesInv, Definitions, files
<1> QED BY <1>1, <1>2, <1>3 DEF Begin, files

LEMMA BeginStartKeeps ==
  ASSUME ServicesInv, NEW S \in SUBSET Service, BeginStart(S) PROVE ServicesInv'
<1>1. /\ cmd' = "start" /\ goal' = S
      /\ \A s \in Service : Do("start", s).do = "start" /\ Do("start", s).on = s
  BY DoFields DEF BeginStart, Begin, Kind
<1>2. \A x \in Listed(Starts(S)) : Fits(x)'
  BY <1>1, StartsList DEF Fits
<1>3. /\ Typed' /\ Left' = Listed(Starts(S)) /\ Shape' /\ Definitions'
  BY <1>2, StartsList, Begun DEF BeginStart
<1>4. StartInv'
  BY <1>1, <1>3, StartsList DEF StartInv
<1> QED BY <1>1, <1>3, <1>4 DEF ServicesInv, StopInv, RestartInv, UninstallInv, SetupInv, OffInv

LEMMA BeginStopKeeps ==
  ASSUME ServicesInv, NEW S \in SUBSET Service, BeginStop(S) PROVE ServicesInv'
<1>1. /\ cmd' = "stop" /\ goal' = S
      /\ \A s \in Service : Do("stop", s).do = "stop" /\ Do("stop", s).on = s
  BY DoFields DEF BeginStop, Begin, Kind
<1>2. \A x \in Listed(Stops(S)) : Fits(x)'
  BY <1>1, StopsList DEF Fits
<1>3. /\ Typed' /\ Left' = Listed(Stops(S)) /\ Shape' /\ Definitions'
  BY <1>2, StopsList, Begun DEF BeginStop
<1>4. StopInv'
  BY <1>1, <1>3, StopsList DEF StopInv
<1> QED BY <1>1, <1>3, <1>4 DEF ServicesInv, StartInv, RestartInv, UninstallInv, SetupInv, OffInv

LEMMA BeginRestartKeeps ==
  ASSUME ServicesInv, NEW S \in SUBSET Service, BeginRestart(S) PROVE ServicesInv'
<1> DEFINE p == Stops(S) \o Starts(S)
<1>0. /\ p \in Steps /\ InOrder(p)
      /\ Listed(p) = {Do("stop", s) : s \in S} \cup {Do("start", s) : s \in S}
  BY RestartList
<1>1. /\ cmd' = "restart" /\ goal' = S /\ Begin("restart", S, p)
      /\ before' = running /\ running' = running
      /\ \A s \in Service, what \in {"stop", "start"} :
           Do(what, s).do = what /\ Do(what, s).on = s
  BY DoFields DEF BeginRestart, Begin, Kind
<1> HIDE DEF p
<1>2. \A x \in Listed(p) : Fits(x)'
  BY <1>0, <1>1 DEF Fits
<1>3. /\ Typed' /\ Left' = Listed(p) /\ Shape' /\ Definitions'
  BY <1>0, <1>1, <1>2, Begun
<1>4. RestartInv'
  BY <1>0, <1>1, <1>3 DEF RestartInv
<1> QED BY <1>1, <1>3, <1>4 DEF ServicesInv, StopInv, StartInv, UninstallInv, SetupInv, OffInv

LEMMA BeginUninstallKeeps == ASSUME ServicesInv, BeginUninstall PROVE ServicesInv'
<1>1. /\ cmd' = "uninstall" /\ defined' = defined /\ Begin("uninstall", Service, Removal)
  BY DEF BeginUninstall, Begin, files
<1>2. \A x \in Listed(Removal) : Fits(x)'
  BY <1>1, RemovalList DEF Fits
<1>3. /\ Typed' /\ Left' = Listed(Removal) /\ Shape' /\ Definitions'
  BY <1>1, <1>2, RemovalList, Begun
<1>4. UninstallInv'
  <2>1. defined \subseteq Service
    BY DEF ServicesInv, Typed
  <2> QED BY <1>1, <1>3, <2>1, RemovalList DEF UninstallInv
<1> QED BY <1>1, <1>3, <1>4 DEF ServicesInv, StopInv, StartInv, RestartInv, SetupInv, OffInv

LEMMA BeginSetupKeeps == ASSUME ServicesInv, BeginSetup PROVE ServicesInv'
<1>0. \A s \in {"server", "agent", "exporter"}, what \in Kind :
        Do(what, s).do = what /\ Do(what, s).on = s
  BY DoFields DEF Service
<1>1. /\ cmd' = "setup" /\ wanted' = export /\ work' = Setup
      /\ Begin("setup", {"server", "agent"}, Setup) /\ {"server", "agent"} \subseteq Service
  <2>1. export \in BOOLEAN
    BY DEF ServicesInv, Typed
  <2> QED BY <2>1 DEF BeginSetup, Begin, Service
<1>2. \A x \in Listed(Setup) : Fits(x)'
  BY <1>0, <1>1, SetupList DEF Fits, Kind
<1>3. /\ Typed' /\ Left' = Listed(Setup) /\ Shape' /\ Definitions'
  BY <1>1, <1>2, SetupList, Begun
<1>4. Mine' = {"server", "agent"} \cup (IF export THEN {"exporter"} ELSE {})
  BY <1>1 DEF Mine
<1>5. SetupInv'
  <2>1. /\ Do("write", "server") \in Left' /\ Do("write", "agent") \in Left'
        /\ Do("check", "server") \in Left' /\ Do("wait", "server") \in Left'
        /\ Do("halt", "agent") \in Left' /\ Do("launch", "agent") \in Left'
        /\ export => /\ Do("write", "exporter") \in Left' /\ Do("halt", "exporter") \in Left'
                     /\ Do("launch", "exporter") \in Left'
    BY <1>3, SetupList
  <2>2. ASSUME NEW s \in Service, Do("halt", s) \in Left' PROVE Do("launch", s) \in Left'
    <3>1. s = "agent" \/ (s = "exporter" /\ export)
      <4>1. s \in {"server", "agent", "exporter"}
        BY DEF Service
      <4>2. Do("halt", s).do = "halt" /\ Do("halt", s).on = s
        BY <1>0, <4>1 DEF Kind
      <4>3. \A x \in Left' : x.do = "halt" => x.on = "agent" \/ (x.on = "exporter" /\ export)
        BY <1>0, <1>3, SetupList DEF Kind
      <4> QED BY <2>2, <4>2, <4>3
    <3> QED BY <2>1, <3>1
  <2> QED BY <1>4, <2>1, <2>2 DEF SetupInv
<1>6. OffInv'
  <2>1. Do("off", "exporter").do = "off"
    BY <1>0 DEF Kind
  <2> QED BY <1>1, <2>1, SetupList DEF OffInv
<1> QED BY <1>1, <1>3, <1>5, <1>6 DEF ServicesInv, StopInv, StartInv, RestartInv, UninstallInv

-----------------------------------------------------------------------------
(* The invariant under the steps of the commands. *)

\* What the invariant says of the step at the head and of the ones after it.
LEMMA HeadFacts ==
  ASSUME ServicesInv, NEW what \in Kind, NEW s \in Service, Now(what, s)
  PROVE  /\ Left = {Do(what, s)} \cup Rest /\ Rest \subseteq Step
         /\ Tail(work) \in Steps /\ InOrder(Tail(work)) /\ Fits(Do(what, s))
         /\ Do(what, s).do = what /\ Do(what, s).on = s
         /\ \A y \in Rest : Fits(y) /\ ~Misplaced(Do(what, s), y)
         /\ \A v \in Kind, t \in Service :
              Do(v, t) \in Left => (v = what /\ t = s) \/ Do(v, t) \in Rest
         /\ cmd # "idle"
<1>1. Do(what, s).do = what /\ Do(what, s).on = s
  BY DoFields
<1>2. \A v \in Kind, t \in Service : Do(v, t).do = v /\ Do(v, t).on = t
  BY DoFields
<1>3. work \in Steps /\ Shape /\ cmd # "idle"
  BY DEF ServicesInv, Typed, Now
<1>4. /\ Left = {Do(what, s)} \cup Rest /\ Rest \subseteq Step
      /\ Tail(work) \in Steps /\ InOrder(Tail(work)) /\ Fits(Do(what, s))
      /\ \A y \in Rest : Fits(y) /\ ~Misplaced(Do(what, s), y)
  BY <1>3, HeadTaken
<1>5. \A v \in Kind, t \in Service :
        Do(v, t) \in Left => (v = what /\ t = s) \/ Do(v, t) \in Rest
  BY <1>1, <1>2, <1>4
<1> QED BY <1>1, <1>3, <1>4, <1>5

\* A step that keeps what has been answered and the machine, and after which p is done
\* first.
LEMMA ThenKeeps ==
  ASSUME ServicesInv, NEW what \in Kind, NEW s \in Service, Now(what, s),
         NEW p \in Steps, Then(p), InOrder(p),
         \A x \in Listed(p) : Fits(x) /\ \A y \in Rest : ~Misplaced(x, y),
         defined' \subseteq Service, enabled' \subseteq Service, running' \subseteq Service,
         old' \subseteq Service, forsaken' \subseteq Service, up' \in BOOLEAN,
         export' = export, answered' \in {"nobody", "job", "stray"},
         slips' \subseteq {"health", "stop", "print", "stray"}
  PROVE  Typed' /\ Shape' /\ Left' = Listed(p) \cup Rest
<1>1. work' \in Steps /\ Left' = Listed(p) \cup Rest /\ Shape'
  BY HeadReplaced DEF ServicesInv, Typed
<1>2. Typed'
  BY <1>1 DEF ServicesInv, Typed, Then, request
<1> QED BY <1>1, <1>2

\* The list that puts back one step or none.
LEMMA PutList ==
  ASSUME NEW what \in Kind, NEW s \in Service
  PROVE  /\ <<Do(what, s)>> \in Steps /\ InOrder(<<Do(what, s)>>)
         /\ Listed(<<Do(what, s)>>) = {Do(what, s)}
         /\ <<>> \in Steps /\ InOrder(<<>>) /\ Listed(<<>>) = {}
BY DoFields, ShortLists

LEMMA StopKeeps ==
  ASSUME ServicesInv, NEW s \in Service, StopMac(s) \/ StopLinux(s) PROVE ServicesInv'
<1>0. "stop" \in Kind /\ "drain" \in Kind /\ "start" \in Kind /\ "server" \in Service
  BY DEF Kind, Service
<1>1. Now("stop", s) /\ UNCHANGED <<platform, request, files, answered, old>>
  BY DEF StopMac, StopLinux, Then, Proceed, ThenForServer
<1>2. /\ Left = {Do("stop", s)} \cup Rest /\ Fits(Do("stop", s))
      /\ Do("stop", s).do = "stop" /\ Do("stop", s).on = s
      /\ \A y \in Rest : Fits(y)
      /\ \A v \in Kind, t \in Service :
           Do(v, t) \in Left => (v = "stop" /\ t = s) \/ Do(v, t) \in Rest
  BY <1>0, <1>1, HeadFacts
<1>3. cmd \in {"stop", "restart"} /\ s \in goal
  BY <1>1, <1>2 DEF Fits, Now, ServicesInv, Typed
<1>4. /\ running' \subseteq running /\ running \ running' \subseteq Leaving(s)
      /\ running' \ forsaken' \subseteq running \ forsaken /\ forsaken' \subseteq forsaken
      /\ slips' \in {slips, slips \cup {"print"}} /\ up' \in BOOLEAN
      /\ s \notin running' \/ "print" \in slips'
      /\ Linux => running' = running \ Leaving(s)
  BY DEF StopMac, StopLinux, Unloads, Keeps, ServicesInv, Typed, Leaving
<1>5. PICK p \in {<<>>, <<Do("drain", "server")>>} : Then(p)
  BY DEF StopMac, StopLinux, Proceed, ThenForServer
<1>6. /\ p \in Steps /\ InOrder(p)
      /\ \A x \in Listed(p) : x.do = "drain"
  <2>1. Do("drain", "server").do = "drain"
    BY <1>0, DoFields
  <2>2. /\ <<Do("drain", "server")>> \in Steps /\ InOrder(<<Do("drain", "server")>>)
        /\ Listed(<<Do("drain", "server")>>) = {Do("drain", "server")}
        /\ <<>> \in Steps /\ InOrder(<<>>) /\ Listed(<<>>) = {}
    BY <1>0, PutList
  <2>3. CASE p = <<>>
    BY <2>2, <2>3
  <2>4. CASE p = <<Do("drain", "server")>>
    BY <2>1, <2>2, <2>4
  <2> QED BY <2>3, <2>4
<1>7. \A x \in Listed(p) : Fits(x) /\ \A y \in Rest : ~Misplaced(x, y)
  BY <1>3, <1>6 DEF Fits, Misplaced
<1>8. Typed' /\ Shape' /\ Left' = Listed(p) \cup Rest
  <2>1. /\ defined' \subseteq Service /\ enabled' \subseteq Service /\ running' \subseteq Service
        /\ old' \subseteq Service /\ forsaken' \subseteq Service
        /\ export' = export /\ answered' \in {"nobody", "job", "stray"}
        /\ slips' \subseteq {"health", "stop", "print", "stray"}
    BY <1>1, <1>4 DEF ServicesInv, Typed, files
  <2> QED BY <1>0, <1>1, <1>4, <1>5, <1>6, <1>7, <2>1, ThenKeeps
<1>9. Definitions'
  BY <1>1, <1>4 DEF ServicesInv, Definitions, files
<1>10. /\ \A t \in Service : Do("stop", t) \in Left => t = s \/ Do("stop", t) \in Left'
       /\ \A t \in Service : Do("start", t) \in Left => Do("start", t) \in Left'
  BY <1>0, <1>2, <1>8
<1>11. goal \subseteq Service
  BY DEF ServicesInv, Typed
<1>12. StopInv'
  BY <1>1, <1>4, <1>10, <1>11 DEF ServicesInv, StopInv, request
<1>13. RestartInv'
  <2> SUFFICES ASSUME cmd = "restart" PROVE RestartInv'
    BY <1>1 DEF RestartInv, request
  <2>1. \A g \in goal : Do("start", g) \in Left
    BY <1>2 DEF ServicesInv, RestartInv
  <2>2. \A g \in goal : Do("start", g) \in Left'
    BY <2>1, <1>10, <1>11
  <2>3. \A g \in goal : Do("stop", g) \in Left' \/ g \notin running' \cap old' \/ "print" \in slips'
    BY <1>1, <1>4, <1>10, <1>11 DEF ServicesInv, RestartInv
  <2>4. \A g \in before \ goal : g \in running' \/ (Linux /\ "server" \in goal /\ g = "agent")
    BY <1>3, <1>4 DEF ServicesInv, RestartInv, Leaving
  <2>5. Linux /\ "server" \in goal /\ "agent" \notin goal
          => Do("stop", "server") \in Left' \/ "agent" \notin running'
    <3>1. Linux /\ s = "server" => "agent" \notin running'
      BY <1>4 DEF Leaving
    <3> QED BY <1>0, <1>4, <1>10, <3>1 DEF ServicesInv, RestartInv
  <2> QED BY <1>1, <2>2, <2>3, <2>4, <2>5 DEF RestartInv, request, Linux
<1> QED BY <1>1, <1>3, <1>8, <1>9, <1>12, <1>13
        DEF ServicesInv, StartInv, UninstallInv, SetupInv, OffInv, request

LEMMA DrainKeeps ==
  ASSUME ServicesInv, NEW s \in Service, Drain(s) PROVE ServicesInv'
<1>0. /\ "drain" \in Kind
      /\ {"stop", "start", "unlink", "write", "launch", "check", "halt", "wait"} \subseteq Kind
      /\ "server" \in Service /\ "agent" \in Service /\ "exporter" \in Service
  BY DEF Kind, Service
<1>1. /\ Now("drain", s) /\ Proceed
      /\ UNCHANGED <<platform, stray, request, files, answered, old, running, up, forsaken>>
  BY DEF Drain, Then, Proceed, Keeps
<1>2. /\ Left = {Do("drain", s)} \cup Rest /\ Fits(Do("drain", s))
      /\ Do("drain", s).do = "drain" /\ Do("drain", s).on = s
      /\ \A v \in Kind, t \in Service :
           Do(v, t) \in Left => (v = "drain" /\ t = s) \/ Do(v, t) \in Rest
  BY <1>0, <1>1, HeadFacts
<1>3. cmd \in {"stop", "restart", "setup"}
  BY <1>1, <1>2 DEF Fits, Now, ServicesInv, Typed
<1>4. /\ slips' \in {slips, slips \cup {"health"}}
      /\ stray = "none" \/ "health" \in slips'
  BY DEF Drain, Heard, Listening
<1>5. Typed' /\ Shape' /\ Left' = Rest
  <2>1. /\ defined' \subseteq Service /\ enabled' \subseteq Service /\ running' \subseteq Service
        /\ old' \subseteq Service /\ forsaken' \subseteq Service /\ up' \in BOOLEAN
        /\ export' = export /\ answered' \in {"nobody", "job", "stray"}
        /\ slips' \subseteq {"health", "stop", "print", "stray"}
    BY <1>1, <1>4 DEF ServicesInv, Typed, files
  <2>2. <<>> \in Steps /\ InOrder(<<>>) /\ Listed(<<>>) = {} /\ Then(<<>>)
    BY <1>1, ShortLists DEF Proceed
  <2> QED BY <1>0, <1>1, <2>1, <2>2, ThenKeeps
<1>6. Definitions'
  BY <1>1 DEF ServicesInv, Definitions, files
<1>7. \A v \in Kind \ {"drain"}, t \in Service : Do(v, t) \in Left' <=> Do(v, t) \in Left
  BY <1>2, <1>5
<1>8. goal \subseteq Service /\ before \subseteq Service
  BY DEF ServicesInv, Typed
<1>9. StopInv'
  BY <1>0, <1>1, <1>4, <1>7, <1>8 DEF ServicesInv, StopInv, request
<1>10. RestartInv'
  <2>1. \A x \in Left' : x \in Left
    BY <1>2, <1>5
  <2> QED BY <1>0, <1>1, <1>4, <1>7, <1>8, <2>1 DEF ServicesInv, RestartInv, request, Linux
<1>11. SetupInv'
  <2>1. Told => Told'
    BY <1>4 DEF Told
  <2>2. stray = "none" \/ Told'
    BY <1>4 DEF Told
  <2>3. Mine' = Mine /\ Mine \subseteq Service
    BY <1>0, <1>1 DEF Mine, request
  <2>4. \A t \in Service : Renewed(t) => Renewed(t)'
    BY <1>0, <1>1, <1>4, <1>7 DEF Renewed, Linux
  <2> QED BY <1>0, <1>1, <1>7, <2>1, <2>2, <2>3, <2>4 DEF ServicesInv, SetupInv, request, files
<1>12. OffInv'
  <2>1. Head(work).do = "drain"
    BY <1>1, <1>2 DEF Now
  <2> QED BY <1>1, <2>1 DEF ServicesInv, OffInv, request
<1> QED BY <1>1, <1>3, <1>5, <1>6, <1>9, <1>10, <1>11, <1>12
        DEF ServicesInv, StartInv, UninstallInv, request

LEMMA StartKeeps ==
  ASSUME ServicesInv, NEW s \in Service, StartLoaded(s) \/ StartStopped(s) PROVE ServicesInv'
<1>0. "stop" \in Kind /\ "wait" \in Kind /\ "start" \in Kind /\ "server" \in Service
  BY DEF Kind, Service
<1>1. /\ Now("start", s)
      /\ UNCHANGED <<platform, stray, request, files, answered, forsaken>>
  BY DEF StartLoaded, StartStopped, Then, Proceed, ThenForServer, Loads
<1>2. /\ Left = {Do("start", s)} \cup Rest /\ Fits(Do("start", s))
      /\ Do("start", s).do = "start" /\ Do("start", s).on = s
      /\ \A y \in Rest : Fits(y) /\ ~Misplaced(Do("start", s), y)
      /\ \A v \in Kind, t \in Service :
           Do(v, t) \in Left => (v = "start" /\ t = s) \/ Do(v, t) \in Rest
  BY <1>0, <1>1, HeadFacts
<1>3. cmd \in {"start", "restart"} /\ s \in goal
  BY <1>1, <1>2 DEF Fits, Now, ServicesInv, Typed
<1>4. /\ s \in running'
      /\ \/ running' = running /\ old' \subseteq old
         \/ /\ running' = running \cup Entering(s) /\ Entering(s) \subseteq defined
            /\ old' = old \ (Entering(s) \ running)
      /\ slips' \in {slips, slips \cup {"health"}} /\ up' \in BOOLEAN
  BY DEF StartLoaded, StartStopped, Loads, Heard, Entering, ServicesInv, Typed
<1>5. PICK p \in {<<>>, <<Do("wait", "server")>>} : Then(p)
  BY DEF StartLoaded, StartStopped, Proceed, ThenForServer
<1>6. /\ p \in Steps /\ InOrder(p)
      /\ \A x \in Listed(p) : x.do = "wait"
  <2>1. Do("wait", "server").do = "wait"
    BY <1>0, DoFields
  <2>2. /\ <<Do("wait", "server")>> \in Steps /\ InOrder(<<Do("wait", "server")>>)
        /\ Listed(<<Do("wait", "server")>>) = {Do("wait", "server")}
        /\ <<>> \in Steps /\ InOrder(<<>>) /\ Listed(<<>>) = {}
    BY <1>0, PutList
  <2>3. CASE p = <<>>
    BY <2>2, <2>3
  <2>4. CASE p = <<Do("wait", "server")>>
    BY <2>1, <2>2, <2>4
  <2> QED BY <2>3, <2>4
<1>7. \A x \in Listed(p) : Fits(x) /\ \A y \in Rest : ~Misplaced(x, y)
  <2>1. \A y \in Rest : y.do \notin {"check", "drain"}
    BY <1>2, <1>3 DEF Fits, Misplaced
  <2> QED BY <1>2, <1>3, <1>6, <2>1 DEF Fits, Misplaced
<1>8. Typed' /\ Shape' /\ Left' = Listed(p) \cup Rest
  <2>1. /\ defined' \subseteq Service /\ enabled' \subseteq Service /\ running' \subseteq Service
        /\ old' \subseteq Service /\ forsaken' \subseteq Service
        /\ export' = export /\ answered' \in {"nobody", "job", "stray"}
        /\ slips' \subseteq {"health", "stop", "print", "stray"}
    BY <1>1, <1>4 DEF ServicesInv, Typed, files
  <2> QED BY <1>0, <1>1, <1>4, <1>5, <1>6, <1>7, <2>1, ThenKeeps
<1>9. Definitions'
  BY <1>1, <1>4 DEF ServicesInv, Definitions, files
<1>10. /\ \A t \in Service : Do("start", t) \in Left => t = s \/ Do("start", t) \in Left'
       /\ \A t \in Service : Do("stop", t) \in Left => Do("stop", t) \in Left'
       /\ \A x \in Left' : x.do # "stop"
  <2>1. \A x \in Rest : x.do # "stop"
    BY <1>2 DEF Misplaced
  <2> QED BY <1>0, <1>2, <1>6, <1>8, <2>1
<1>11. goal \subseteq Service /\ before \subseteq Service
  BY DEF ServicesInv, Typed
<1>12. StartInv'
  BY <1>1, <1>4, <1>10, <1>11 DEF ServicesInv, StartInv, request
<1>13. RestartInv'
  <2> SUFFICES ASSUME cmd = "restart" PROVE RestartInv'
    BY <1>1 DEF RestartInv, request
  <2>1. running \subseteq running'
    BY <1>4
  <2>2. \A t \in Service : t \in running' \cap old' => t \in running \cap old
    BY <1>4
  <2>3. \A g \in goal : Do("start", g) \in Left' \/ g \in running'
    BY <1>4, <1>10, <1>11, <2>1 DEF ServicesInv, RestartInv
  <2>4. \A g \in goal : Do("stop", g) \in Left' \/ g \notin running' \cap old' \/ "print" \in slips'
    BY <1>4, <1>10, <1>11, <2>2 DEF ServicesInv, RestartInv
  <2>5. \A g \in before \ goal : g \in running' \/ (Linux /\ "server" \in goal /\ g = "agent")
    BY <2>1 DEF ServicesInv, RestartInv
  <2>6. Linux /\ "server" \in goal /\ "agent" \notin goal
          => Do("stop", "server") \in Left' \/ "agent" \notin running'
    BY <1>0, <1>3, <1>4, <1>10 DEF ServicesInv, RestartInv, Entering
  <2> QED BY <1>1, <1>10, <2>3, <2>4, <2>5, <2>6 DEF RestartInv, request, Linux
<1> QED BY <1>1, <1>3, <1>8, <1>9, <1>12, <1>13
        DEF ServicesInv, StopInv, UninstallInv, SetupInv, OffInv, request

LEMMA WaitKeeps ==
  ASSUME ServicesInv, NEW s \in Service, Wait(s) PROVE ServicesInv'
<1>0. /\ "wait" \in Kind
      /\ {"stop", "start", "unlink", "write", "launch", "check", "halt", "drain"} \subseteq Kind
      /\ "server" \in Service /\ "agent" \in Service /\ "exporter" \in Service
  BY DEF Kind, Service
<1>1. /\ Now("wait", s) /\ Proceed
      /\ UNCHANGED <<platform, stray, request, files, old, slips, running, up, forsaken>>
  BY DEF Wait, Then, Proceed, Keeps
<1>2. /\ Left = {Do("wait", s)} \cup Rest /\ Fits(Do("wait", s))
      /\ Do("wait", s).do = "wait" /\ Do("wait", s).on = s
      /\ \A y \in Rest : ~Misplaced(Do("wait", s), y)
      /\ \A v \in Kind, t \in Service :
           Do(v, t) \in Left => (v = "wait" /\ t = s) \/ Do(v, t) \in Rest
  BY <1>0, <1>1, HeadFacts
<1>3. cmd \in {"start", "restart", "setup"} /\ (cmd = "setup" => s = "server")
  BY <1>1, <1>2 DEF Fits, Now, ServicesInv, Typed
<1>4. answered' \in {"job", "stray"} /\ (answered' = "job" \/ stray # "none")
  BY DEF Wait, Listening
<1>5. Typed' /\ Shape' /\ Left' = Rest
  <2>1. /\ defined' \subseteq Service /\ enabled' \subseteq Service /\ running' \subseteq Service
        /\ old' \subseteq Service /\ forsaken' \subseteq Service /\ up' \in BOOLEAN
        /\ export' = export /\ answered' \in {"nobody", "job", "stray"}
        /\ slips' \subseteq {"health", "stop", "print", "stray"}
    BY <1>1, <1>4 DEF ServicesInv, Typed, files
  <2>2. <<>> \in Steps /\ InOrder(<<>>) /\ Listed(<<>>) = {} /\ Then(<<>>)
    BY <1>1, ShortLists DEF Proceed
  <2> QED BY <1>0, <1>1, <2>1, <2>2, ThenKeeps
<1>6. Definitions'
  BY <1>1 DEF ServicesInv, Definitions, files
<1>7. \A v \in Kind \ {"wait"}, t \in Service : Do(v, t) \in Left' <=> Do(v, t) \in Left
  BY <1>2, <1>5
<1>8. goal \subseteq Service /\ before \subseteq Service
  BY DEF ServicesInv, Typed
<1>9. StartInv'
  BY <1>0, <1>1, <1>7, <1>8 DEF ServicesInv, StartInv, request
<1>10. RestartInv'
  <2>1. \A x \in Left' : x \in Left
    BY <1>2, <1>5
  <2> QED BY <1>0, <1>1, <1>7, <1>8, <2>1 DEF ServicesInv, RestartInv, request, Linux
<1>11. SetupInv'
  <2> SUFFICES ASSUME cmd = "setup" PROVE SetupInv'
    BY <1>1 DEF SetupInv, request
  <2>1. Told => Told'
    BY <1>1 DEF Told
  <2>2. Do("check", "server") \notin Left /\ Do("drain", "server") \notin Left
    <3>1. /\ Do("check", "server").do = "check" /\ Do("drain", "server").do = "drain"
      BY <1>0, DoFields
    <3>2. Do("check", "server") \notin Rest /\ Do("drain", "server") \notin Rest
      BY <1>2, <3>1 DEF Misplaced
    <3> QED BY <1>2, <3>1, <3>2
  <2>3. answered' = "job" \/ Told
    BY <1>4, <2>2 DEF ServicesInv, SetupInv
  <2>4. Mine' = Mine /\ Mine \subseteq Service
    BY <1>0, <1>1 DEF Mine, request
  <2>5. \A t \in Service : Renewed(t) => Renewed(t)'
    BY <1>0, <1>1, <1>7 DEF Renewed, Linux
  <2> QED BY <1>0, <1>1, <1>7, <2>1, <2>2, <2>3, <2>4, <2>5 DEF ServicesInv, SetupInv, request, files
<1>12. OffInv'
  <2>1. Head(work).do = "wait"
    BY <1>1, <1>2 DEF Now
  <2> QED BY <1>1, <2>1 DEF ServicesInv, OffInv, request
<1> QED BY <1>1, <1>3, <1>5, <1>6, <1>9, <1>10, <1>11, <1>12
        DEF ServicesInv, StopInv, UninstallInv, request

\* A step of setup that takes the head off and leaves p: what is left to show.
LEMMA SetupHead ==
  ASSUME ServicesInv, NEW what \in {"off", "drop", "write", "check", "halt", "launch", "enroll"},
         NEW s \in Service, Now(what, s)
  PROVE  /\ Left = {Do(what, s)} \cup Rest /\ Fits(Do(what, s))
         /\ Do(what, s).do = what /\ Do(what, s).on = s /\ Head(work).do = what
         /\ cmd = "setup" /\ SetupInv
         /\ \A y \in Rest : Fits(y) /\ ~Misplaced(Do(what, s), y)
         /\ \A v \in Kind, t \in Service :
              Do(v, t) \in Left => (v = what /\ t = s) \/ Do(v, t) \in Rest
         /\ \A v \in Kind, t \in Service : Do(v, t).do = v /\ Do(v, t).on = t
<1>1. what \in Kind
  BY DEF Kind
<1>2. /\ Left = {Do(what, s)} \cup Rest /\ Fits(Do(what, s))
      /\ Do(what, s).do = what /\ Do(what, s).on = s
      /\ \A y \in Rest : Fits(y) /\ ~Misplaced(Do(what, s), y)
      /\ \A v \in Kind, t \in Service :
           Do(v, t) \in Left => (v = what /\ t = s) \/ Do(v, t) \in Rest
  BY <1>1, HeadFacts
<1>3. cmd = "setup"
  BY <1>2 DEF Fits, Now, ServicesInv, Typed
<1>4. Head(work).do = what
  BY <1>2 DEF Now
<1> QED BY <1>2, <1>3, <1>4, DoFields DEF ServicesInv

\* A step of setup that proceeds.
LEMMA SetupProceeds ==
  ASSUME ServicesInv, NEW what \in {"off", "drop", "write", "check", "halt", "launch", "enroll"},
         NEW s \in Service, Now(what, s), Proceed,
         defined' \subseteq Service, enabled' \subseteq Service, running' \subseteq Service,
         old' \subseteq Service, forsaken' \subseteq Service, up' \in BOOLEAN,
         export' = export, answered' \in {"nobody", "job", "stray"},
         slips' \subseteq {"health", "stop", "print", "stray"},
         Definitions', SetupInv', OffInv'
  PROVE  ServicesInv'
<1>1. what \in Kind
  BY DEF Kind
<1>2. <<>> \in Steps /\ InOrder(<<>>) /\ Listed(<<>>) = {} /\ Then(<<>>)
  BY ShortLists DEF Proceed
<1>3. Typed' /\ Shape'
  BY <1>1, <1>2, ThenKeeps
<1>4. cmd' = "setup"
  BY SetupHead DEF Proceed, Then, request
<1> QED BY <1>3, <1>4 DEF ServicesInv, StopInv, StartInv, RestartInv, UninstallInv

LEMMA RestAfterProceed ==
  ASSUME ServicesInv, NEW what \in Kind, NEW s \in Service, Now(what, s), Proceed
  PROVE  Left' = Rest /\ UNCHANGED <<platform, stray, request>>
BY Proceeded DEF ServicesInv, Typed, Proceed, Then

LEMMA MineType == Mine \subseteq Service
BY DEF Mine, Service

LEMMA DropKeeps ==
  ASSUME ServicesInv, NEW s \in Service, Drop(s) PROVE ServicesInv'
<1>0. {"drop", "write", "launch", "check", "halt", "drain", "wait"} \subseteq Kind
      /\ Service = {"server", "agent", "exporter"}
  BY DEF Kind, Service
<1>1. /\ Now("drop", s) /\ Proceed /\ defined' = defined \ {s}
      /\ UNCHANGED <<enabled, export, answered, old, slips, running, up, forsaken>>
  BY DEF Drop, Keeps
<1>2. /\ Fits(Do("drop", s)) /\ Do("drop", s).do = "drop" /\ Do("drop", s).on = s
      /\ Head(work).do = "drop" /\ cmd = "setup" /\ SetupInv
      /\ \A v \in Kind, t \in Service :
           Do(v, t) \in Left => (v = "drop" /\ t = s) \/ Do(v, t) \in Rest
      /\ Rest \subseteq Left
  BY <1>0, <1>1, SetupHead
<1>3. s = "exporter" /\ ~wanted
  BY <1>2 DEF Fits
<1>4. Left' = Rest /\ UNCHANGED <<platform, stray, request>>
  BY <1>0, <1>1, RestAfterProceed
<1>5. "exporter" \notin running \ forsaken
  BY <1>2, <1>3 DEF ServicesInv, OffInv
<1>6. Definitions'
  BY <1>1, <1>3, <1>5 DEF ServicesInv, Definitions
<1>7. OffInv'
  BY <1>1, <1>5 DEF OffInv
<1>8. \A v \in Kind \ {"drop"}, t \in Service : Do(v, t) \in Left' <=> Do(v, t) \in Left
  BY <1>2, <1>4
<1>9. SetupInv'
  <2>1. Mine' = Mine /\ Mine = {"server", "agent"}
    BY <1>3, <1>4 DEF Mine, request
  <2>2. Told' = Told
    BY <1>1 DEF Told
  <2>3. \A t \in Service : Renewed(t) => Renewed(t)'
    BY <1>0, <1>1, <1>4, <1>8 DEF Renewed, Linux
  <2> QED BY <1>0, <1>1, <1>2, <1>3, <1>4, <1>8, <2>1, <2>2, <2>3 DEF SetupInv
<1> QED BY <1>1, <1>6, <1>7, <1>9, SetupProceeds DEF ServicesInv, Typed

LEMMA WriteKeeps ==
  ASSUME ServicesInv, NEW s \in Service, Write(s) PROVE ServicesInv'
<1>0. {"drop", "write", "launch", "check", "halt", "drain", "wait"} \subseteq Kind
      /\ Service = {"server", "agent", "exporter"}
  BY DEF Kind, Service
<1>1. /\ Now("write", s) /\ Proceed /\ defined' = defined \cup {s}
      /\ UNCHANGED <<enabled, export, answered, old, slips, running, up, forsaken>>
  BY DEF Write, Keeps
<1>2. /\ Do("write", s).do = "write" /\ Do("write", s).on = s
      /\ Head(work).do = "write" /\ cmd = "setup" /\ SetupInv
      /\ \A y \in Rest : ~Misplaced(Do("write", s), y)
      /\ \A v \in Kind, t \in Service :
           Do(v, t) \in Left => (v = "write" /\ t = s) \/ Do(v, t) \in Rest
      /\ \A v \in Kind, t \in Service : Do(v, t).do = v /\ Do(v, t).on = t
      /\ Rest \subseteq Left
  BY <1>0, <1>1, SetupHead
<1>4. Left' = Rest /\ UNCHANGED <<platform, stray, request>>
  BY <1>0, <1>1, RestAfterProceed
<1>6. Definitions'
  <2>1. s = "agent" => "server" \in defined
    <3>1. s = "agent" => Do("write", "server") \notin Left
      BY <1>0, <1>2 DEF Misplaced
    <3> QED BY <1>2, <3>1 DEF SetupInv, Mine
  <2> QED BY <1>1, <2>1 DEF ServicesInv, Definitions
<1>7. OffInv'
  BY <1>1, <1>2, <1>4 DEF ServicesInv, OffInv, request
<1>8. \A v \in Kind \ {"write"}, t \in Service : Do(v, t) \in Left' <=> Do(v, t) \in Left
  BY <1>2, <1>4
<1>9. SetupInv'
  <2>1. Mine' = Mine /\ Mine \subseteq Service
    BY <1>0, <1>4 DEF Mine, request
  <2>2. Told' = Told
    BY <1>1 DEF Told
  <2>3. \A t \in Service : Renewed(t) => Renewed(t)'
    BY <1>0, <1>1, <1>4, <1>8 DEF Renewed, Linux
  <2>4. \A t \in Mine : t \in defined' \/ Do("write", t) \in Left'
    BY <1>0, <1>1, <1>2, <1>4, <2>1 DEF SetupInv
  <2> QED BY <1>0, <1>1, <1>2, <1>4, <1>8, <2>1, <2>2, <2>3, <2>4 DEF SetupInv
<1> QED BY <1>1, <1>6, <1>7, <1>9, SetupProceeds DEF ServicesInv, Typed

LEMMA EnrollKeeps ==
  ASSUME ServicesInv, NEW s \in Service, Enroll(s) PROVE ServicesInv'
<1>0. {"enroll", "write", "launch", "check", "halt", "drain", "wait"} \subseteq Kind
      /\ Service = {"server", "agent", "exporter"}
  BY DEF Kind, Service
<1>1. /\ Now("enroll", s) /\ Proceed
      /\ UNCHANGED <<files, answered, old, slips, running, up, forsaken>>
  BY DEF Enroll, Keeps
<1>2. /\ Head(work).do = "enroll" /\ cmd = "setup" /\ SetupInv
      /\ \A v \in Kind, t \in Service :
           Do(v, t) \in Left => (v = "enroll" /\ t = s) \/ Do(v, t) \in Rest
      /\ Rest \subseteq Left
  BY <1>0, <1>1, SetupHead
<1>4. Left' = Rest /\ UNCHANGED <<platform, stray, request>>
  BY <1>0, <1>1, RestAfterProceed
<1>6. Definitions'
  BY <1>1 DEF ServicesInv, Definitions, files
<1>7. OffInv'
  BY <1>1, <1>2, <1>4 DEF ServicesInv, OffInv, request
<1>8. \A v \in Kind \ {"enroll"}, t \in Service : Do(v, t) \in Left' <=> Do(v, t) \in Left
  BY <1>2, <1>4
<1>9. SetupInv'
  <2>1. Mine' = Mine /\ Mine \subseteq Service
    BY <1>0, <1>4 DEF Mine, request
  <2>2. Told' = Told
    BY <1>1 DEF Told
  <2>3. \A t \in Service : Renewed(t) => Renewed(t)'
    BY <1>0, <1>1, <1>4, <1>8 DEF Renewed, Linux
  <2> QED BY <1>0, <1>1, <1>2, <1>4, <1>8, <2>1, <2>2, <2>3 DEF SetupInv, files
<1> QED BY <1>1, <1>6, <1>7, <1>9, SetupProceeds DEF ServicesInv, Typed, files

LEMMA HaltKeeps ==
  ASSUME ServicesInv, NEW s \in Service, Halt(s) PROVE ServicesInv'
<1>0. {"off", "write", "launch", "check", "halt", "drain", "wait"} \subseteq Kind
      /\ Service = {"server", "agent", "exporter"}
  BY DEF Kind, Service
<1>1. Now("halt", s) /\ Proceed /\ UNCHANGED <<files, answered, old>>
  BY DEF Halt
<1>2. /\ Left = {Do("halt", s)} \cup Rest
      /\ Head(work).do = "halt" /\ cmd = "setup" /\ SetupInv
      /\ \A v \in Kind, t \in Service :
           Do(v, t) \in Left => (v = "halt" /\ t = s) \/ Do(v, t) \in Rest
      /\ Rest \subseteq Left
  BY <1>0, <1>1, SetupHead
<1>3. /\ running' \subseteq running /\ running \ running' \subseteq Leaving(s)
      /\ running' \ forsaken' \subseteq running \ forsaken /\ forsaken' \subseteq forsaken
      /\ slips \subseteq slips' /\ slips' \subseteq slips \cup {"stop"} /\ up' \in BOOLEAN
      /\ s \notin running' \/ "stop" \in slips'
  BY DEF Halt, Unloads, Keeps, ServicesInv, Typed, Leaving
<1>4. Left' = Rest /\ UNCHANGED <<platform, stray, request>>
  BY <1>0, <1>1, RestAfterProceed
<1>6. Definitions'
  BY <1>1, <1>3 DEF ServicesInv, Definitions, files
<1>7. OffInv'
  BY <1>1, <1>2, <1>3, <1>4 DEF ServicesInv, OffInv, request
<1>8. \A v \in Kind \ {"halt"}, t \in Service : Do(v, t) \in Left' <=> Do(v, t) \in Left
  BY <1>2, <1>4
<1>9. Do("launch", s) \in Left /\ (s = "server" => Do("launch", "agent") \in Left)
  <2>1. Do("halt", s) \in Left
    BY <1>2
  <2> QED BY <1>2, <2>1 DEF SetupInv
<1>10. SetupInv'
  <2>1. Mine' = Mine /\ Mine \subseteq Service
    BY <1>0, <1>4 DEF Mine, request
  <2>2. Told => Told'
    BY <1>3 DEF Told
  <2>3. \A t \in Service : Renewed(t) => Renewed(t)'
    BY <1>0, <1>1, <1>3, <1>4, <1>8 DEF Renewed, Linux
  <2>4. Renewed(s)'
    BY <1>0, <1>3, <1>8, <1>9 DEF Renewed
  <2>5. \A t \in Mine : \/ t \in running' \/ Do("launch", t) \in Left'
                        \/ t = "server" /\ Do("check", t) \in Left'
    <3>1. \A t \in running \ running' : t = s \/ (t = "agent" /\ s = "server")
      BY <1>3 DEF Leaving
    <3>2. \A t \in running \ running' : Do("launch", t) \in Left'
      BY <1>0, <1>8, <1>9, <3>1
    <3> QED BY <1>0, <1>2, <1>8, <2>1, <3>2 DEF SetupInv
  <2>6. \A t \in Mine : \/ Do("halt", t) \in Left' \/ Renewed(t)'
                        \/ t = "server" /\ Do("check", t) \in Left'
    BY <1>0, <1>2, <1>4, <1>8, <2>1, <2>3, <2>4 DEF SetupInv
  <2>7. /\ \A t \in Service : Do("halt", t) \in Left' => Do("launch", t) \in Left'
        /\ Do("halt", "server") \in Left' \/ Do("check", "server") \in Left'
             => Do("launch", "agent") \in Left'
    BY <1>0, <1>2, <1>4, <1>8 DEF SetupInv
  <2> QED BY <1>0, <1>1, <1>2, <1>4, <1>8, <2>1, <2>2, <2>5, <2>6, <2>7 DEF SetupInv, files
<1> QED BY <1>1, <1>3, <1>6, <1>7, <1>10, SetupProceeds DEF ServicesInv, Typed, files

LEMMA LaunchKeeps ==
  ASSUME ServicesInv, NEW s \in Service, Launch(s) PROVE ServicesInv'
<1>0. {"off", "write", "launch", "check", "halt", "drain", "wait"} \subseteq Kind
      /\ Service = {"server", "agent", "exporter"}
  BY DEF Kind, Service
<1>1. /\ Now("launch", s) /\ Proceed
      /\ UNCHANGED <<defined, export, answered, slips, up, forsaken>>
      /\ Entering(s) \subseteq defined /\ running' = running \cup Entering(s)
      /\ old' = old \ (Entering(s) \ running)
      /\ enabled' \subseteq enabled \cup {s} /\ (Linux \/ s \notin running) /\ s \in Entering(s)
  BY DEF Launch, Loads, Entering
<1>2. /\ Fits(Do("launch", s)) /\ Do("launch", s).do = "launch" /\ Do("launch", s).on = s
      /\ Head(work).do = "launch" /\ cmd = "setup" /\ SetupInv
      /\ \A y \in Rest : ~Misplaced(Do("launch", s), y)
      /\ \A v \in Kind, t \in Service :
           Do(v, t) \in Left => (v = "launch" /\ t = s) \/ Do(v, t) \in Rest
      /\ \A v \in Kind, t \in Service : Do(v, t).do = v /\ Do(v, t).on = t
      /\ Rest \subseteq Left
  BY <1>0, <1>1, SetupHead
<1>3. s = "exporter" => wanted
  BY <1>2 DEF Fits
<1>4. Left' = Rest /\ UNCHANGED <<platform, stray, request>>
  BY <1>0, <1>1, RestAfterProceed
<1>6. Definitions'
  BY <1>1 DEF ServicesInv, Definitions
<1>7. OffInv'
  BY <1>0, <1>1, <1>2, <1>3, <1>4 DEF ServicesInv, OffInv, request, Entering
<1>8. \A v \in Kind \ {"launch"}, t \in Service : Do(v, t) \in Left' <=> Do(v, t) \in Left
  BY <1>2, <1>4
<1>9. \A t \in Service : Do("launch", t) \in Left => t = s \/ Do("launch", t) \in Left'
  BY <1>0, <1>2, <1>4
<1>10. SetupInv'
  <2>1. Mine' = Mine /\ Mine \subseteq Service
    BY <1>0, <1>4 DEF Mine, request
  <2>2. Told = Told'
    BY <1>1 DEF Told
  <2>3. \A t \in Service : Renewed(t) => Renewed(t)'
    <3> SUFFICES ASSUME NEW t \in Service, Renewed(t), t \in running' \cap old'
                 PROVE  "stop" \in slips' /\ (Linux' \/ Do("launch", t) \in Left')
      BY DEF Renewed
    <3>1. t \in running \cap old
      BY <1>1
    <3>2. "stop" \in slips /\ (Linux \/ Do("launch", t) \in Left)
      BY <3>1 DEF Renewed
    <3>3. t = s => Linux
      BY <1>1, <3>1
    <3> QED BY <1>1, <1>4, <1>9, <3>2, <3>3 DEF Linux
  <2>4. \A t \in Mine : \/ t \in running' \/ Do("launch", t) \in Left'
                        \/ t = "server" /\ Do("check", t) \in Left'
    BY <1>0, <1>1, <1>2, <1>8, <1>9, <2>1 DEF SetupInv
  <2>5. \A t \in Service : Do("halt", t) \in Left' => Do("launch", t) \in Left'
    <3> SUFFICES ASSUME NEW t \in Service, Do("halt", t) \in Left'
                 PROVE  Do("launch", t) \in Left'
      OBVIOUS
    <3>1. Do("halt", t) \in Left
      BY <1>0, <1>8
    <3>2. Do("launch", t) \in Left
      BY <1>2, <3>1 DEF SetupInv
    <3>3. ~Misplaced(Do("launch", s), Do("halt", t))
      BY <1>2, <1>4
    <3>4. t # s
      BY <1>0, <1>2, <3>3 DEF Misplaced
    <3> QED BY <1>9, <3>2, <3>4
  <2>6. Do("halt", "server") \in Left' \/ Do("check", "server") \in Left'
             => Do("launch", "agent") \in Left'
    <3> SUFFICES ASSUME NEW v \in {"halt", "check"}, Do(v, "server") \in Left'
                 PROVE  Do("launch", "agent") \in Left'
      OBVIOUS
    <3>1. Do(v, "server") \in Left
      BY <1>0, <1>8
    <3>2. Do("launch", "agent") \in Left
      BY <1>2, <3>1 DEF SetupInv
    <3>3. ~Misplaced(Do("launch", s), Do(v, "server"))
      BY <1>2, <1>4
    <3>4. s # "agent"
      BY <1>0, <1>2, <3>3 DEF Misplaced
    <3> QED BY <1>0, <1>9, <3>2, <3>4
  <2> QED BY <1>0, <1>1, <1>2, <1>4, <1>8, <2>1, <2>2, <2>3, <2>4, <2>5, <2>6 DEF SetupInv
<1>11. /\ running' \subseteq Service /\ enabled' \subseteq Service /\ old' \subseteq Service
  BY <1>0, <1>1 DEF Entering, ServicesInv, Typed
<1> QED BY <1>1, <1>6, <1>7, <1>10, <1>11, SetupProceeds DEF ServicesInv, Typed

LEMMA OffKeeps ==
  ASSUME ServicesInv, NEW s \in Service, Off(s) PROVE ServicesInv'
<1>0. {"off", "drop", "write", "launch", "check", "halt", "drain", "wait"} \subseteq Kind
      /\ Service = {"server", "agent", "exporter"}
  BY DEF Kind, Service
<1>1. Now("off", s) /\ UNCHANGED <<defined, export, answered, old, slips>>
  BY DEF Off
<1>2. /\ Left = {Do("off", s)} \cup Rest /\ Fits(Do("off", s)) /\ Do("off", s).on = s
      /\ Do("off", s).do = "off" /\ cmd = "setup" /\ SetupInv
      /\ \A v \in Kind, t \in Service :
           Do(v, t) \in Left => (v = "off" /\ t = s) \/ Do(v, t) \in Rest
      /\ \A v \in Kind, t \in Service : Do(v, t).do = v /\ Do(v, t).on = t
  BY <1>0, <1>1, SetupHead
<1>3. s = "exporter" /\ ~wanted
  BY <1>2 DEF Fits
<1>4. /\ running' \subseteq running /\ running \ running' \subseteq {"exporter"}
      /\ running' \ forsaken' \subseteq running \ forsaken /\ forsaken' \subseteq forsaken
      /\ enabled' \subseteq enabled /\ up' \in BOOLEAN
      /\ "exporter" \notin running' \ forsaken'
  BY <1>3 DEF Off, Unloads, Keeps, Leaving, ServicesInv, Typed, Definitions
<1>5. PICK p \in {<<>>, <<Do("drop", s)>>} : Then(p)
  BY DEF Off, Proceed
<1>6. p \in Steps /\ InOrder(p) /\ Listed(p) \subseteq {Do("drop", s)}
  <2>1. /\ <<Do("drop", s)>> \in Steps /\ InOrder(<<Do("drop", s)>>)
        /\ Listed(<<Do("drop", s)>>) = {Do("drop", s)}
        /\ <<>> \in Steps /\ InOrder(<<>>) /\ Listed(<<>>) = {}
    BY <1>0, PutList
  <2>2. CASE p = <<>>
    BY <2>1, <2>2
  <2>3. CASE p = <<Do("drop", s)>>
    BY <2>1, <2>3
  <2> QED BY <2>2, <2>3
<1>7. \A x \in Listed(p) : Fits(x) /\ \A y \in Rest : ~Misplaced(x, y)
  <2>1. \A x \in Listed(p) : x.do = "drop" /\ x.on = s
    BY <1>0, <1>2, <1>6
  <2> QED BY <1>2, <1>3, <2>1 DEF Fits, Misplaced
<1>8. Typed' /\ Shape' /\ Left' = Listed(p) \cup Rest
  <2>1. /\ defined' \subseteq Service /\ enabled' \subseteq Service /\ running' \subseteq Service
        /\ old' \subseteq Service /\ forsaken' \subseteq Service
        /\ export' = export /\ answered' \in {"nobody", "job", "stray"}
        /\ slips' \subseteq {"health", "stop", "print", "stray"}
    BY <1>1, <1>4 DEF ServicesInv, Typed
  <2> QED BY <1>0, <1>1, <1>4, <1>5, <1>6, <1>7, <2>1, ThenKeeps
<1>9. UNCHANGED <<platform, stray, request>>
  BY <1>5 DEF Then
<1>10. Definitions'
  BY <1>1, <1>4 DEF ServicesInv, Definitions
<1>11. OffInv'
  BY <1>4 DEF OffInv
<1>12. \A v \in Kind \ {"off", "drop"}, t \in Service : Do(v, t) \in Left' <=> Do(v, t) \in Left
  <2>1. \A v \in Kind \ {"off", "drop"}, t \in Service :
          Do(v, t) # Do("drop", s) /\ Do(v, t) # Do("off", s)
    BY <1>0, <1>2
  <2> QED BY <1>2, <1>6, <1>8, <2>1
<1>13. SetupInv'
  <2>1. Mine' = Mine /\ Mine = {"server", "agent"}
    BY <1>3, <1>9 DEF Mine, request
  <2>2. Told' = Told
    BY <1>1 DEF Told
  <2>3. \A t \in Service : Renewed(t) => Renewed(t)'
    BY <1>0, <1>1, <1>4, <1>9, <1>12 DEF Renewed, Linux
  <2> QED BY <1>0, <1>1, <1>2, <1>3, <1>4, <1>9, <1>12, <2>1, <2>2, <2>3 DEF SetupInv
<1> QED BY <1>2, <1>8, <1>9, <1>10, <1>11, <1>13
        DEF ServicesInv, StopInv, StartInv, RestartInv, UninstallInv, request

LEMMA OffUnsureKeeps ==
  ASSUME ServicesInv, NEW s \in Service, OffUnsure(s) PROVE ServicesInv'
<1>1. /\ Finish /\ platform' = platform /\ enabled' \subseteq enabled
      /\ UNCHANGED <<defined, export>> /\ stray' = stray
      /\ running' \subseteq running /\ forsaken' \subseteq forsaken
      /\ running' \ forsaken' \subseteq running \ forsaken
      /\ up' \in BOOLEAN
  BY DEF OffUnsure, Unloads, Keeps, ServicesInv, Typed
<1>2. running' \ defined \subseteq forsaken'
  BY <1>1 DEF ServicesInv, Definitions
<1> QED BY <1>1, <1>2, FinishKeeps DEF ServicesInv, Typed

LEMMA CheckPortKeeps ==
  ASSUME ServicesInv, NEW s \in Service, CheckPort(s) PROVE ServicesInv'
<1>0. {"off", "write", "launch", "check", "halt", "drain", "wait"} \subseteq Kind
      /\ Service = {"server", "agent", "exporter"}
  BY DEF Kind, Service
<1>1. /\ Now("check", s) /\ UNCHANGED <<files, answered, old, running, up, forsaken>>
      /\ slips' \in {slips, slips \cup {"health"}}
  BY DEF CheckPort, Keeps, Heard
<1>2. /\ Left = {Do("check", s)} \cup Rest /\ Fits(Do("check", s)) /\ Do("check", s).on = s
      /\ Do("check", s).do = "check" /\ cmd = "setup" /\ SetupInv /\ Head(work).do = "check"
      /\ \A y \in Rest : Fits(y) /\ ~Misplaced(Do("check", s), y)
      /\ \A v \in Kind, t \in Service :
           Do(v, t) \in Left => (v = "check" /\ t = s) \/ Do(v, t) \in Rest
      /\ \A v \in Kind, t \in Service : Do(v, t).do = v /\ Do(v, t).on = t
  BY <1>0, <1>1, SetupHead
<1>3. s = "server"
  BY <1>2 DEF Fits
<1> DEFINE H == Do("halt", s)
           D == Do("drain", s)
           L == Do("launch", s)
<1>4. /\ H \in Step /\ H.do = "halt" /\ H.on = s /\ D \in Step /\ D.do = "drain"
      /\ D.on = s /\ L \in Step /\ L.do = "launch" /\ L.on = s
  BY <1>0, DoFields
<1>5. \E p \in Steps : /\ Then(p) /\ InOrder(p) /\ Listed(p) \subseteq {H, D, L}
                       /\ H \in Listed(p) /\ L \in Listed(p)
                       /\ \/ D \in Listed(p)
                          \/ stray = "none" \/ "health" \in slips'
  <2>1. CASE Heard("none") /\ Then(Relaunch(s))
    <3>1. Relaunch(s) = <<H, L>>
      BY DEF Relaunch
    <3>2. ~Misplaced(H, L)
      BY <1>4 DEF Misplaced
    <3> HIDE DEF H, L
    <3>3. Relaunch(s) \in Steps /\ InOrder(Relaunch(s)) /\ Listed(Relaunch(s)) = {H, L}
      BY <1>4, <3>1, <3>2, Pairs
    <3>4. stray = "none" \/ "health" \in slips'
      BY <2>1 DEF Heard, Listening
    <3> QED BY <2>1, <3>3, <3>4
  <2>2. CASE Then(<<H, D, L>>)
    <3> HIDE DEF H, D, L
    <3>1. <<H>> \in Steps /\ InOrder(<<H>>) /\ Listed(<<H>>) = {H}
      BY <1>4, ShortLists
    <3>2. <<D, L>> \in Steps /\ InOrder(<<D, L>>) /\ Listed(<<D, L>>) = {D, L}
      <4>1. ~Misplaced(D, L)
        BY <1>4 DEF Misplaced
      <4> QED BY <1>4, <4>1, Pairs
    <3>3. \A x \in Listed(<<H>>), y \in Listed(<<D, L>>) : ~Misplaced(x, y)
      BY <1>4, <3>1, <3>2 DEF Misplaced
    <3>4. <<H, D, L>> = <<H>> \o <<D, L>>
      BY <1>4
    <3>5. /\ <<H, D, L>> \in Steps /\ InOrder(<<H, D, L>>)
          /\ Listed(<<H, D, L>>) = {H, D, L}
      BY <3>1, <3>2, <3>3, <3>4, ConcatLists
    <3> QED BY <2>2, <3>5
  <2> QED BY <2>1, <2>2 DEF CheckPort
<1>6. PICK p \in Steps : /\ Then(p) /\ InOrder(p) /\ Listed(p) \subseteq {H, D, L}
                         /\ H \in Listed(p) /\ L \in Listed(p)
                         /\ \/ D \in Listed(p)
                            \/ stray = "none" \/ "health" \in slips'
  BY <1>5
<1>7. \A x \in Listed(p) : Fits(x) /\ \A y \in Rest : ~Misplaced(x, y)
  <2>1. \A x \in Listed(p) : x.do \in {"halt", "drain", "launch"} /\ x.on = "server"
    BY <1>3, <1>4, <1>6
  <2>2. \A y \in Rest : ~(y.do = "halt" /\ y.on = "server")
    BY <1>2 DEF Misplaced
  <2>3. \A x \in Listed(p) : Fits(x)
    BY <1>2, <2>1 DEF Fits
  <2> QED BY <2>1, <2>2, <2>3 DEF Misplaced
<1>8. Typed' /\ Shape' /\ Left' = Listed(p) \cup Rest
  <2>1. /\ defined' \subseteq Service /\ enabled' \subseteq Service /\ running' \subseteq Service
        /\ old' \subseteq Service /\ forsaken' \subseteq Service /\ up' \in BOOLEAN
        /\ export' = export /\ answered' \in {"nobody", "job", "stray"}
        /\ slips' \subseteq {"health", "stop", "print", "stray"}
    BY <1>1 DEF ServicesInv, Typed, files
  <2> QED BY <1>0, <1>1, <1>6, <1>7, <2>1, ThenKeeps
<1>9. UNCHANGED <<platform, stray, request>>
  BY <1>6 DEF Then
<1>10. Definitions'
  BY <1>1 DEF ServicesInv, Definitions, files
<1>11. OffInv'
  BY <1>1, <1>2, <1>9 DEF ServicesInv, OffInv, request
<1>12. \A v \in Kind \ {"check"}, t \in Service : Do(v, t) \in Left => Do(v, t) \in Left'
  BY <1>2, <1>8
<1>13. \A v \in Kind \ {"halt", "drain", "launch"}, t \in Service :
         Do(v, t) \in Left' => Do(v, t) \in Left
  <2>1. \A v \in Kind \ {"halt", "drain", "launch"}, t \in Service :
          Do(v, t) \notin {H, D, L}
    BY <1>0, <1>2, <1>4
  <2> QED BY <1>2, <1>6, <1>8, <2>1
<1>14. \A t \in Service : Do("halt", t) \in Left' => t = s \/ Do("halt", t) \in Left
  <2>1. \A t \in Service : Do("halt", t) \in {H, D, L} => t = s
    BY <1>0, <1>2, <1>4
  <2> QED BY <1>2, <1>6, <1>8, <2>1
<1>15. SetupInv'
  <2>1. Mine' = Mine /\ Mine \subseteq Service
    BY <1>0, <1>9 DEF Mine, request
  <2>2. Told => Told'
    BY <1>1 DEF Told
  <2>3. \A t \in Service : Renewed(t) => Renewed(t)'
    BY <1>0, <1>1, <1>9, <1>12 DEF Renewed, Linux
  <2>4. H \in Left' /\ L \in Left'
    BY <1>6, <1>8
  <2>5. Do("launch", "agent") \in Left'
    BY <1>0, <1>2, <1>3, <1>12 DEF SetupInv
  <2>6. \A t \in Service : Do("halt", t) \in Left' => Do("launch", t) \in Left'
    BY <1>0, <1>2, <1>12, <1>14, <2>4 DEF SetupInv
  <2>7. Do("drain", "server") \in Left' \/ stray = "none" \/ Told'
    BY <1>3, <1>6, <1>8 DEF Told
  <2>8. \A t \in Mine : t \in defined' \/ Do("write", t) \in Left'
    BY <1>0, <1>1, <1>2, <1>12, <2>1 DEF SetupInv, files
  <2>9. \A t \in Mine : t \in running' \/ Do("launch", t) \in Left'
    BY <1>0, <1>1, <1>2, <1>3, <1>12, <2>1, <2>4 DEF SetupInv
  <2>10. \A t \in Mine : Do("halt", t) \in Left' \/ Renewed(t)'
    BY <1>0, <1>2, <1>3, <1>12, <2>1, <2>3, <2>4 DEF SetupInv
  <2>11. Do("wait", "server") \in Left' \/ answered' = "job" \/ Told'
    BY <1>0, <1>1, <1>2, <1>12, <2>2 DEF SetupInv
  <2> QED BY <1>9, <2>1, <2>5, <2>6, <2>7, <2>8, <2>9, <2>10, <2>11 DEF SetupInv
<1> QED BY <1>2, <1>8, <1>9, <1>10, <1>11, <1>15
        DEF ServicesInv, StopInv, StartInv, RestartInv, UninstallInv, request

\* A step of uninstall.
LEMMA RemovalKeeps ==
  ASSUME ServicesInv, NEW s \in Service, Quit(s) \/ Unlink(s) PROVE ServicesInv'
<1>0. "quit" \in Kind /\ "unlink" \in Kind /\ Service = {"server", "agent", "exporter"}
  BY DEF Kind, Service
<1>1. PICK what \in {"quit", "unlink"} :
        /\ Now(what, s) /\ Proceed
        /\ (what = "quit" /\ Quit(s)) \/ (what = "unlink" /\ Unlink(s))
  BY DEF Quit, Unlink
<1>2. /\ UNCHANGED <<export, answered, old>> /\ enabled' \subseteq enabled
      /\ defined' = IF what = "unlink" THEN defined \ {s} ELSE defined
      /\ running' \subseteq running /\ up' \in BOOLEAN /\ forsaken' \subseteq Service
      /\ slips' \in {slips, slips \cup {"stop"}}
      /\ running' \ forsaken' \subseteq
           (running \ forsaken) \ (IF what = "unlink" THEN {s} ELSE {})
  BY <1>1 DEF Quit, Unlink, Unloads, Keeps, ServicesInv, Typed
<1>3. /\ Left = {Do(what, s)} \cup Rest /\ Fits(Do(what, s))
      /\ Do(what, s).do = what /\ Do(what, s).on = s
      /\ \A y \in Rest : ~Misplaced(Do(what, s), y)
      /\ \A v \in Kind, t \in Service :
           Do(v, t) \in Left => (v = what /\ t = s) \/ Do(v, t) \in Rest
      /\ \A v \in Kind, t \in Service : Do(v, t).do = v /\ Do(v, t).on = t
  BY <1>0, <1>1, HeadFacts, DoFields
<1>4. cmd = "uninstall"
  BY <1>1, <1>3 DEF Fits, Now, ServicesInv, Typed
<1>5. Left' = Rest /\ UNCHANGED <<platform, stray, request>>
  BY <1>0, <1>1, RestAfterProceed
<1>6. Typed' /\ Shape'
  <2>1. /\ defined' \subseteq Service /\ enabled' \subseteq Service /\ running' \subseteq Service
        /\ old' \subseteq Service /\ forsaken' \subseteq Service /\ up' \in BOOLEAN
        /\ export' = export /\ answered' \in {"nobody", "job", "stray"}
        /\ slips' \subseteq {"health", "stop", "print", "stray"}
    BY <1>2 DEF ServicesInv, Typed
  <2>2. <<>> \in Steps /\ InOrder(<<>>) /\ Listed(<<>>) = {} /\ Then(<<>>)
    BY <1>1, ShortLists DEF Proceed
  <2> QED BY <1>0, <1>1, <2>1, <2>2, ThenKeeps
<1>7. Definitions'
  <2>1. running' \ defined' \subseteq forsaken'
    BY <1>2 DEF ServicesInv, Definitions
  <2>2. what = "unlink" /\ s = "server" => "agent" \notin defined
    <3>1. what = "unlink" /\ s = "server" => Do("unlink", "agent") \notin Left
      BY <1>0, <1>3 DEF Misplaced
    <3> QED BY <1>4, <3>1 DEF ServicesInv, UninstallInv
  <2> QED BY <1>2, <2>1, <2>2 DEF ServicesInv, Definitions
<1>8. UninstallInv'
  <2>1. \A t \in defined' : Do("unlink", t) \in Left'
    <3> SUFFICES ASSUME NEW t \in defined' PROVE Do("unlink", t) \in Left'
      OBVIOUS
    <3>1. t \in defined /\ t \in Service /\ (what = "unlink" => t # s)
      BY <1>2 DEF ServicesInv, Typed
    <3>2. Do("unlink", t) \in Left
      BY <1>4, <3>1 DEF ServicesInv, UninstallInv
    <3> QED BY <1>0, <1>3, <1>5, <3>1, <3>2
  <2> QED BY <2>1 DEF UninstallInv
<1> QED BY <1>4, <1>5, <1>6, <1>7, <1>8
        DEF ServicesInv, StopInv, StartInv, RestartInv, SetupInv, OffInv, request

LEMMA ServicesInvNext == ServicesInv /\ [ServicesNext]_services => ServicesInv'
<1> SUFFICES ASSUME ServicesInv, [ServicesNext]_services PROVE ServicesInv'
  OBVIOUS
<1>1. ASSUME NEW s \in Service, Perform(s) PROVE ServicesInv'
  BY <1>1, StopKeeps, DrainKeeps, StartKeeps, WaitKeeps, OffKeeps, OffUnsureKeeps, DropKeeps,
     WriteKeeps, CheckPortKeeps, HaltKeeps, LaunchKeeps, EnrollKeeps, RemovalKeeps DEF Perform
<1>2. CASE BeginSetup \/ BeginUninstall
  BY <1>2, BeginSetupKeeps, BeginUninstallKeeps
<1>3. ASSUME NEW S \in SUBSET Service, BeginStart(S) \/ BeginStop(S) \/ BeginRestart(S)
      PROVE  ServicesInv'
  BY <1>3, BeginStartKeeps, BeginStopKeeps, BeginRestartKeeps
<1>4. CASE End \/ Reboot
  BY <1>4, EndKeeps, RebootKeeps
<1>5. CASE \/ Bind \/ Crash \/ StrayStarts \/ StrayQuits \/ EditEnv
           \/ UNCHANGED services
  BY <1>5, EnvironmentKeeps
<1> QED BY <1>1, <1>2, <1>3, <1>4, <1>5 DEF ServicesNext

-----------------------------------------------------------------------------
(* What follows. *)

LEMMA ServicesInvHolds == ServicesSpec => []ServicesInv
BY ServicesInvInit, ServicesInvNext, PTL DEF ServicesSpec

LEMMA NoneLeft == ASSUME work = <<>> PROVE Left = {}
BY DEF Left, Listed

\* Every variable keeps its type, and every step left is a step of a service.
THEOREM ServicesTypeCorrect == ServicesSpec => []ServicesTypeOK
<1>1. ServicesInv => ServicesTypeOK
  <2> SUFFICES ASSUME ServicesInv PROVE ServicesTypeOK
    OBVIOUS
  <2>1. \A i \in DOMAIN work : work[i].on \in Service
    <3>1. work \in Seq(Step)
      BY DEF ServicesInv, Typed, Steps
    <3>2. \A i \in DOMAIN work : work[i] \in Step
      BY <3>1
    <3> QED BY <3>2 DEF Step
  <2>2. \A S \in {defined, enabled, running, goal, before, old, forsaken} : S \subseteq Service
    BY DEF ServicesInv, Typed
  <2> QED BY <2>1, <2>2 DEF ServicesInv, Typed, ServicesTypeOK
<1> QED BY <1>1, ServicesInvHolds, PTL

\* Whatever is killed, crashes or is rebooted: under a setup that finds the export
\* disabled no exporter runs once the first step is done, and never does one run that
\* has no definition to stop it by (configure_exporter_service).
THEOREM DeliveryIsStopped == ServicesSpec => []DeliveryStops
<1>1. ServicesInv => DeliveryStops
  BY DEF ServicesInv, Definitions, OffInv, DeliveryStops
<1> QED BY <1>1, ServicesInvHolds, PTL

\* A setup that ends has replaced the jobs it found and was answered by the new server
\* (_restart_service, _restart_systemd_service, _wait_for_server).
THEOREM SetupRenews == ServicesSpec => []SetupRunsNew
<1>1. ASSUME ServicesInv PROVE SetupRunsNew
  <2> SUFFICES ASSUME Done("setup") PROVE SetupRunsNew
    BY DEF SetupRunsNew
  <2>1. cmd = "setup" /\ Left = {} /\ SetupInv
    BY <1>1, NoneLeft DEF Done, ServicesInv
  <2>2. /\ "server" \in Mine /\ "agent" \in Mine /\ (wanted => "exporter" \in Mine)
    BY DEF Mine
  <2>3. /\ \A s \in Mine : s \in defined /\ s \in running /\ Renewed(s)
        /\ answered = "job" \/ Told
    BY <2>1 DEF SetupInv
  <2>4. \A s \in Mine : s \notin old \/ (Linux /\ "stop" \in slips)
    BY <2>1, <2>3 DEF Renewed
  <2>5. answered = "job" \/ slips \cap {"health", "stray"} # {}
    BY <2>3 DEF Told
  <2> QED BY <2>2, <2>3, <2>4, <2>5 DEF SetupRunsNew
<1> QED BY <1>1, ServicesInvHolds, PTL

\* A command that returns has done what it says to every service it was given
\* (start_service, stop_service, restart_service, uninstall_self_service).
THEOREM CommandsAreDone == ServicesSpec => []CommandsDo
<1>1. ASSUME ServicesInv PROVE CommandsDo
  <2>1. ASSUME Done("stop") PROVE goal \cap running = {} \/ "print" \in slips
    <3>1. Left = {} /\ cmd = "stop"
      BY <2>1, NoneLeft DEF Done
    <3> QED BY <1>1, <3>1 DEF ServicesInv, StopInv
  <2>2. ASSUME Done("start") PROVE goal \subseteq running
    <3>1. Left = {} /\ cmd = "start"
      BY <2>2, NoneLeft DEF Done
    <3> QED BY <1>1, <3>1 DEF ServicesInv, StartInv
  <2>3. ASSUME Done("restart")
        PROVE  goal \subseteq running /\ (goal \cap old = {} \/ "print" \in slips)
    <3>1. Left = {} /\ cmd = "restart"
      BY <2>3, NoneLeft DEF Done
    <3> QED BY <1>1, <3>1 DEF ServicesInv, RestartInv
  <2>4. ASSUME Done("uninstall") PROVE defined = {} /\ running \subseteq forsaken
    <3>1. Left = {} /\ cmd = "uninstall"
      BY <2>4, NoneLeft DEF Done
    <3> QED BY <1>1, <3>1 DEF ServicesInv, UninstallInv, Definitions
  <2>5. ASSUME Done("restart") PROVE RestartCost
    <3>1. Left = {} /\ cmd = "restart"
      BY <2>5, NoneLeft DEF Done
    <3>2. /\ \A s \in before \ goal :
               s \in running \/ (Linux /\ "server" \in goal /\ s = "agent")
          /\ Linux /\ "server" \in goal /\ "agent" \notin goal => "agent" \notin running
      BY <1>1, <3>1 DEF ServicesInv, RestartInv
    <3>3. CASE Linux /\ "server" \in goal
      BY <3>2, <3>3 DEF RestartCost
    <3>4. CASE ~(Linux /\ "server" \in goal)
      BY <3>2, <3>4 DEF RestartCost
    <3> QED BY <3>3, <3>4
  <2>6. RestartCost
    BY <2>5 DEF RestartCost
  <2> QED BY <2>1, <2>2, <2>3, <2>4, <2>6 DEF CommandsDo
<1> QED BY <1>1, ServicesInvHolds, PTL

=============================================================================
