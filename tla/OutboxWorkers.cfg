\* Two interchangeable workers compete for the rows of one device and one asset: leases
\* expire under them, newer observations replace rows in flight.  One state of the asset the
\* encoder refuses, one is larger than the byte limit, and the rows of two scans exceed both
\* limits of the queue.
SPECIFICATION Spec
CONSTANTS
  d1 = d1  a1 = a1  x1 = x1  x2 = x2  h1 = h1  h2 = h2  h3 = h3
  Device = {d1}
  Asset = {a1}
  Owner <- OneDevice
  Exporter = {x1, x2}
  Hash = {h1, h2, h3}
  BadHash = {h2}
  Beat = Beat
  None = None
  Bytes <- HeavyBytes
  MaxPending = 2
  MaxBytes = 3
  BatchRecords = 2
  BatchBytes = 2
  Reply = {"ok", "unavailable"}
  MaxScans = 2
  MaxCutoff = 1
SYMMETRY Workers
INVARIANTS TypeOK CapacityBound Accounted DedupSound
PROPERTIES LeaseExclusive NoStaleClaim AtLeastOnce
\* Ingest transactions are bounded by MaxScans: an idle system stops.
CHECK_DEADLOCK FALSE
