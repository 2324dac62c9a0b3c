\* docs/inventory-sync-mcp.md: an unchanged asset does not create another change event.
SPECIFICATION Spec
CONSTANTS
  d1 = d1  p1 = p1  p2 = p2  p3 = p3  p4 = p4  v1 = v1  v2 = v2
  Device = {d1}
  Fingerprint = {p1, p2}
  Rank <- Order
  KeyOf <- SharedKey
  Version = {v1, v2}
  Report <- TwoPrints
  Legacy <- NewDatabase
  MaxTime = 1
  MaxScans = 2
  MaxRestarts = 1
  MaxUnlogged = 0
PROPERTIES RestartIsSilent
\* Scans and restarts are bounded.
CHECK_DEADLOCK FALSE
