\* New and upgraded databases, then reports of one device in any order of observation, two of
\* whose four prints share an asset key and one of which is not exported; one projection that
\* fails, one restart; and a consumer with pages of one record that may crash once.
SPECIFICATION PollingSpec
CONSTANTS
  d1 = d1  p1 = p1  p2 = p2  p3 = p3  p4 = p4  v1 = v1  v2 = v2
  Device = {d1}
  Fingerprint = {p1, p2, p3, p4}
  Rank <- Order
  KeyOf <- SharedKey
  Version = {v1, v2}
  Report <- Pairs
  Legacy <- Upgraded
  MaxTime = 2
  MaxScans = 3
  MaxRestarts = 1
  MaxUnlogged = 1
  Limit = 1
  MaxCrashes = 1
INVARIANTS NewestWins FeedIsCurrent EveryChangeChanges
INVARIANTS ConsumerTypeOK SnapshotConsistent MirrorFaithful
PROPERTIES MirrorConverges
\* Scans, restarts and crashes are bounded; a consumer without news waits.
CHECK_DEADLOCK FALSE
