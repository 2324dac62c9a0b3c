\* A collector that may never answer, a queue of one row, states that weigh more than a batch
\* may, and rows of the first scan that grow too old while those of the second do not.
SPECIFICATION FairSpec
CONSTANTS
  d1 = d1  a1 = a1  x1 = x1  x2 = x2  h1 = h1  h2 = h2  h3 = h3
  Device = {d1}
  Asset = {a1}
  Owner <- OneDevice
  Exporter = {x1}
  Hash = {h1}
  BadHash = {}
  Beat = Beat
  None = None
  Bytes <- StatesOverBatch
  MaxPending = 1
  MaxBytes = 4
  BatchRecords = 2
  BatchBytes = 2
  Reply = {"ok", "partial", "transport"}
  MaxScans = 2
  MaxCutoff = 2
PROPERTIES OldEventsClose LatestStateArrives
\* Ingest transactions are bounded by MaxScans: an idle system stops.
CHECK_DEADLOCK FALSE
