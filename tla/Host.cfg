\* Two of everything; the minute is two ticks, the eight hours three.
SPECIFICATION HostSpec
CONSTANTS
  r1 = r1  r2 = r2  c1 = c1  c2 = c2  t1 = t1  t2 = t2
  w1 = w1  w2 = w2  e1 = e1  e2 = e2  p1 = p1  p2 = p2
  Root = {r1, r2}
  MaxMoves = 1
  MaxPatches = 1
  MaxScanFaults = 1
  Code = {c1, c2}
  Thread = {t1, t2}
  Life = 2
  Session = 3
  MaxTime = 6
  MaxServes = 2
  Workload = {w1, w2}
  Event = {e1, e2}
  Wanted = {e1}
  Config = {p1, p2}
  MaxSaves = 2
INVARIANTS DeliveryStops SetupRunsNew CommandsDo CacheSound SeesEarlierChanges SingleUse CodesKept NothingLeft UserHooksKept
PROPERTIES ScannerConverges
CHECK_DEADLOCK FALSE
