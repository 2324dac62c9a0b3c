\* Two uploaders, three events of one session, two failures and one short write.
SPECIFICATION FlushingSpec
CONSTANTS
  None = None
  s1 = s1  m1 = m1  m2 = m2  w1 = w1  w2 = w2  u1 = u1  u2 = u2
  Event <- OneSession
  Agent = {s1}
  Uploader = {u1, u2}
  SpoolLimit = 2
  BatchLimit = 2
  MaxFailures = 2
  MaxShort = 1
INVARIANTS NothingElseLost SessionsCountEvents LatestDecides
PROPERTIES AtLeastOnce EveryEventArrives
\* Failures are bounded, and without events there is nothing to do.
CHECK_DEADLOCK FALSE
