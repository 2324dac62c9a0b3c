------------------------- MODULE AgentUpload_proofs -------------------------
(***************************************************************************)
(* Proofs about AgentUpload for every set of inventory states and any      *)
(* number of changes, failures and reports.                                *)
(***************************************************************************)
EXTENDS AgentUpload, TLAPS

(***************************************************************************)
(* Type correctness.  A device is enrolled once for each failure and once  *)
(* for the identity that is saved.                                         *)
(***************************************************************************)

LEMMA UploadConstants ==
  /\ MaxChanges \in Nat /\ MaxFailures \in Nat /\ MaxReports \in Nat
  /\ None \notin State /\ None \notin Nat
  /\ None \notin Snapshot
<1>1. Snapshot \subseteq [at : Nat, state : State]
  BY DEF Snapshot
<1> QED BY <1>1, UploadAssumption

\* NoSnapshot has no state.
LEMMA NoSnapshotType ==
  /\ NoSnapshot \notin Snapshot /\ NoSnapshot \notin Queued
BY DEF NoSnapshot, Snapshot, Queued

TokensKept ==
    /\ token = None => saved = None
    /\ pc = "enroll" => token = None
    /\ pc \in {"send", "wait"} => token # None
    /\ devices <= failures + (IF saved = None THEN 0 ELSE 1)
    /\ answered => pc = "wait"

UploadTyped == TypeOK /\ TokensKept

LEMMA UploadInit == Init => UploadTyped
<1> SUFFICES ASSUME Init PROVE UploadTyped
  OBVIOUS
<1>1. 0 \in 0..MaxChanges /\ 0 \in 0..MaxFailures /\ 0 \in 0..MaxReports
  BY UploadConstants
<1>2. TypeOK
  <2>1. reported \in [Device -> Snapshot \cup {NoSnapshot}]
    BY DEF Init
  <2> QED BY <1>1, <2>1 DEF Init, TypeOK
<1>3. TokensKept
  BY DEF Init, TokensKept
<1> QED BY <1>2, <1>3 DEF UploadTyped

LEMMA UploadStep == UploadTyped /\ [Next]_vars => UploadTyped'
<1> SUFFICES ASSUME UploadTyped, [Next]_vars PROVE UploadTyped'
  OBVIOUS
<1>t. TypeOK /\ TokensKept /\ failures \in Nat /\ devices \in Nat /\ MaxFailures \in Nat
  BY UploadConstants DEF UploadTyped, TypeOK, Device
<1> DEFINE Goal == UploadTyped'
<1>1. ASSUME NEW s \in State, Change(s) PROVE Goal
  <2>1. changes' \in 0..MaxChanges
    BY <1>1, <1>t, UploadConstants DEF Change, TypeOK
  <2> QED BY <1>1, <1>t, <2>1
          DEF Change, UploadTyped, TypeOK, TokensKept, agent, server, bounds
<1>2. CASE Collect \/ CollectFails \/ Age \/ Elapse \/ Discard
  <2>1. slot' \in Queued \cup {NoSnapshot} /\ recent' \in BOOLEAN
    <3>1. CASE Collect
      BY <1>t, <3>1 DEF Collect, TypeOK, Queued
    <3>2. CASE Age
      BY <1>t, <3>2, NoSnapshotType DEF Age, TypeOK, Queued
    <3>3. CASE CollectFails \/ Elapse \/ Discard
      BY <1>t, <3>3 DEF CollectFails, Elapse, Discard, TypeOK
    <3> QED BY <1>2, <3>1, <3>2, <3>3
  <2>2. UNCHANGED <<endpoint, pc, current, last, token, saved, server, inflight, answered, bounds>>
    BY <1>2 DEF Collect, CollectFails, Age, Elapse, Discard
  <2> QED BY <1>t, <2>1, <2>2
          DEF UploadTyped, TypeOK, TokensKept, endpoint, server, bounds
<1>3. CASE Take
  <2>1. current' \in Snapshot /\ current' # NoSnapshot
    BY <1>3, <1>t, NoSnapshotType DEF Take, TypeOK, Queued, Snapshot
  <2> QED BY <1>3, <1>t, <2>1
          DEF Take, UploadTyped, TypeOK, TokensKept, endpoint, server, bounds
<1>4. CASE Enroll
  <2>1. saved = None /\ devices' \in Device /\ devices' # None
    BY <1>4, <1>t, UploadConstants DEF Enroll, TypeOK, TokensKept, Device
  <2>2. devices' <= failures + 1
    BY <1>4, <1>t, <2>1 DEF Enroll, TokensKept
  <2> QED BY <1>4, <1>t, <2>1, <2>2
          DEF Enroll, UploadTyped, TypeOK, TokensKept, endpoint, bounds
<1>5. CASE EnrollFails
  <2>1. /\ failures < MaxFailures /\ failures' = failures + 1 /\ failures' \in 0..MaxFailures
        /\ pc' = "idle" /\ current' = NoSnapshot /\ answered' = FALSE
        /\ UNCHANGED <<endpoint, slot, last, recent, saved, reported, inflight>>
    BY <1>5, <1>t DEF EnrollFails, Backoff, TypeOK
  <2>2. saved = None /\ devices' \in {devices, devices + 1} /\ token' \in {token, devices'}
    BY <1>5, <1>t DEF EnrollFails, TokensKept
  <2>3. devices + 1 \in Device /\ devices + 1 <= failures'
    BY <1>t, <2>1, <2>2 DEF TokensKept, Device
  <2>4. devices' \in Device \cup {0} /\ devices' <= failures'
    <3>1. CASE devices' = devices
      BY <1>t, <2>1, <2>3, <3>1 DEF TypeOK
    <3>2. CASE devices' = devices + 1
      BY <2>3, <3>2
    <3> QED BY <2>2, <3>1, <3>2
  <2>5. token' \in Device \cup {None}
    BY <1>5, <1>t, <2>3 DEF EnrollFails, TypeOK
  <2>6. reports' = reports
    BY <1>5 DEF EnrollFails, Backoff
  <2>7. TypeOK'
    BY <1>t, <2>1, <2>4, <2>5, <2>6 DEF TypeOK, endpoint
  <2>8. TokensKept'
    BY <1>t, <2>1, <2>2, <2>4 DEF TokensKept
  <2> QED BY <2>7, <2>8 DEF UploadTyped
<1>6. CASE Send
  <2>1. inflight' \subseteq Report
    <3>1. /\ current \in Snapshot /\ token \in Device
          /\ <<failures, 0>> \in (0..MaxFailures) \X (0..MaxReports)
      BY <1>6, <1>t, UploadConstants DEF Send, TypeOK, TokensKept
    <3> QED BY <1>6, <1>t, <3>1 DEF Send, TypeOK, Report, Snapshot
  <2> QED BY <1>6, <1>t, <2>1
          DEF Send, UploadTyped, TypeOK, TokensKept, endpoint, server, bounds
<1>7. CASE Accepted
  <2>1. current \in Snapshot
    BY <1>7, <1>t DEF Accepted, TypeOK
  <2> QED BY <1>7, <1>t, <2>1
          DEF Accepted, UploadTyped, TypeOK, TokensKept, endpoint, server, bounds
<1>8. CASE UploadFails \/ Restart
  <2>1. /\ failures' = failures + 1 /\ failures' \in 0..MaxFailures
        /\ pc' = "idle" /\ current' = NoSnapshot /\ answered' = FALSE
        /\ UNCHANGED <<endpoint, saved, server, inflight>>
        /\ slot' \in {slot, NoSnapshot} /\ last' \in {last, None}
        /\ recent' \in {recent, FALSE} /\ token' \in {token, saved}
    <3>1. /\ failures' = failures + 1 /\ failures < MaxFailures
          /\ pc' = "idle" /\ current' = NoSnapshot /\ answered' = FALSE
      BY <1>8 DEF UploadFails, Restart, Backoff
    <3>2. failures' \in 0..MaxFailures
      BY <1>t, <3>1
    <3>3. /\ UNCHANGED <<endpoint, saved, server, inflight>>
          /\ slot' \in {slot, NoSnapshot} /\ last' \in {last, None}
          /\ recent' \in {recent, FALSE} /\ token' \in {token, saved}
      BY <1>8 DEF UploadFails, Restart
    <3> QED BY <3>1, <3>2, <3>3
  <2>2. reports' = reports
    BY <1>8 DEF UploadFails, Restart, Backoff
  <2>3. devices <= failures' + (IF saved = None THEN 0 ELSE 1)
    BY <1>t, <2>1 DEF TokensKept
  <2>4. token' = None => saved' = None
    BY <1>t, <2>1 DEF TokensKept
  <2>5. token' \in Device \cup {None} /\ slot' \in Queued \cup {NoSnapshot}
        /\ last' \in Snapshot \cup {None} /\ recent' \in BOOLEAN
    BY <1>t, <2>1 DEF TypeOK
  <2> QED BY <1>t, <2>1, <2>2, <2>3, <2>4, <2>5
          DEF UploadTyped, TypeOK, TokensKept, endpoint, server
<1>9. CASE ReportOnce
  <2>1. reports' \in 0..MaxReports
    BY <1>9, <1>t, UploadConstants DEF ReportOnce, TypeOK
  <2>2. inflight' \subseteq Report
    <3>1. saved \in Device /\ <<failures, reports'>> \in (0..MaxFailures) \X (0..MaxReports)
      BY <1>9, <1>t, <2>1 DEF ReportOnce, TypeOK
    <3> QED BY <1>9, <1>t, <3>1 DEF ReportOnce, TypeOK, Report
  <2> QED BY <1>9, <1>t, <2>1, <2>2
          DEF ReportOnce, UploadTyped, TypeOK, TokensKept, endpoint, agent, server
<1>10. ASSUME NEW r \in inflight, Ingest(r) PROVE Goal
  <2>1. r \in Report
    BY <1>t DEF TypeOK
  <2>2. reported' \in [Device -> Snapshot \cup {NoSnapshot}]
    BY <1>10, <1>t, <2>1 DEF Ingest, Newest, TypeOK, Report, Snapshot
  <2>3. answered' \in BOOLEAN /\ (answered' => pc = "wait")
    BY <1>10, <1>t DEF Ingest, Awaited, TypeOK, TokensKept
  <2> QED BY <1>10, <1>t, <2>2, <2>3
          DEF Ingest, UploadTyped, TypeOK, TokensKept, endpoint, agent, bounds
<1>11. ASSUME NEW r \in inflight, Lose(r) PROVE Goal
  BY <1>11, <1>t DEF Lose, UploadTyped, TypeOK, TokensKept, endpoint, agent, server, bounds
<1>12. CASE UNCHANGED vars
  BY <1>12, <1>t
  DEF vars, UploadTyped, TypeOK, TokensKept, endpoint, agent, server, bounds
<1> QED BY <1>1, <1>2, <1>3, <1>4, <1>5, <1>6, <1>7, <1>8, <1>9, <1>10, <1>11, <1>12
        DEF Next, Upload, Network

\* The variables keep their types, and an endpoint does not enroll more often than
\* it fails but once.
THEOREM TypeCorrect == Spec => []TypeOK
<1>1. UploadTyped => TypeOK
  BY DEF UploadTyped
<1> QED BY <1>1, UploadInit, UploadStep, PTL DEF Spec

\* No step takes the server's inventory of a device back to an earlier observation
\* (ingest).
THEOREM InventoryNeverBackwards == Spec => NeverBackwards
<1> DEFINE Forward == \A d \in Device : reported[d] # NoSnapshot =>
                        reported'[d] # NoSnapshot /\ reported'[d].at >= reported[d].at
<1>1. UploadTyped /\ [Next]_vars => Forward \/ UNCHANGED vars
  <2> SUFFICES ASSUME UploadTyped, [Next]_vars, NEW d \in Device, reported[d] # NoSnapshot
               PROVE  reported'[d] # NoSnapshot /\ reported'[d].at >= reported[d].at
    OBVIOUS
  <2>1. reported[d] \in Snapshot /\ reported[d].at \in Nat /\ reported \in [Device -> Snapshot \cup {NoSnapshot}]
    BY DEF UploadTyped, TypeOK, Snapshot
  <2>2. ASSUME NEW r \in inflight, Ingest(r)
        PROVE  reported'[d] # NoSnapshot /\ reported'[d].at >= reported[d].at
    <3>1. /\ [at |-> r.at, state |-> r.state] \in Snapshot /\ r.at \in Nat
      BY DEF UploadTyped, TypeOK, Report, Snapshot
    <3>2. reported'[d] = IF d = r.device THEN Newest(reported[d], r) ELSE reported[d]
      BY <2>1, <2>2 DEF Ingest
    <3> QED BY <2>1, <3>1, <3>2, NoSnapshotType DEF Newest
  <2>3. CASE UNCHANGED reported
    BY <2>1, <2>3
  <2> QED BY <2>2, <2>3
          DEF Next, Upload, Network, Change, Collect, CollectFails, Age, Elapse, Discard, Take,
              Enroll, EnrollFails, Send, Accepted, UploadFails, Restart, Backoff, ReportOnce,
              Lose, server, vars
<1>2. Spec => [][Forward]_vars
  BY <1>1, UploadInit, UploadStep, PTL DEF Spec
<1> QED BY <1>2 DEF NeverBackwards

(***************************************************************************)
(* What the agent takes for known.  Everything anybody holds was once the  *)
(* inventory of the endpoint, so equal times mean equal states.            *)
(***************************************************************************)

\* Snapshots that are somewhere: here, queued, in hand, on their way, stored.
Seen ==
    {Now}
    \cup {[at |-> q.at, state |-> q.state] : q \in {slot} \ {NoSnapshot}}
    \cup (({current} \cup {last}) \cap Snapshot)
    \cup {[at |-> r.at, state |-> r.state] : r \in inflight}
    \cup ({reported[d] : d \in Device} \ {NoSnapshot})

Agreement ==
    /\ \A x \in Seen : x.at \in Nat /\ x.at <= changes
    /\ \A x, y \in Seen : x.at = y.at => x.state = y.state

\* Most steps only pass on what is there.
LEMMA SeenStep ==
  ASSUME UploadTyped, [Next]_vars, \A s \in State : ~Change(s)
  PROVE  Seen' \subseteq Seen /\ UNCHANGED endpoint
<1> DEFINE Goal == Seen' \subseteq Seen /\ UNCHANGED endpoint
<1>t. /\ current \in Snapshot \cup {NoSnapshot} /\ last \in Snapshot \cup {None}
      /\ slot \in Queued \cup {NoSnapshot} /\ inflight \subseteq Report
      /\ reported \in [Device -> Snapshot \cup {NoSnapshot}]
  BY DEF UploadTyped, TypeOK
<1> SUFFICES UNCHANGED endpoint /\ \A x \in Seen' : x \in Seen
  OBVIOUS
<1>n. UNCHANGED endpoint => Now' = Now
  BY DEF Now, endpoint
<1>1. CASE Collect
  BY <1>1, <1>n, <1>t DEF Collect, Seen, Now, endpoint, server
<1>2. CASE Age
  BY <1>2, <1>n, <1>t, NoSnapshotType DEF Age, Seen, Queued, server
<1>3. CASE CollectFails \/ Elapse \/ Discard \/ Restart \/ UploadFails
  <2>1. /\ UNCHANGED <<endpoint, server, inflight>>
        /\ slot' \in {slot, NoSnapshot} /\ current' \in {current, NoSnapshot}
        /\ last' \in {last, None}
    <3>1. CASE CollectFails \/ Elapse \/ Discard
      BY <3>1 DEF CollectFails, Elapse, Discard
    <3>2. CASE Restart \/ UploadFails
      BY <3>2 DEF Restart, UploadFails, Backoff
    <3> QED BY <1>3, <3>1, <3>2
  <2> QED BY <1>n, <2>1, NoSnapshotType, UploadConstants DEF Seen, server
<1>4. CASE Take
  <2>1. /\ current' = [at |-> slot.at, state |-> slot.state] /\ slot # NoSnapshot
        /\ UNCHANGED <<endpoint, last, server, inflight>> /\ slot' = NoSnapshot
    BY <1>4 DEF Take
  <2> QED BY <1>n, <2>1 DEF Seen, server
<1>5. CASE Enroll \/ EnrollFails
  <2>1. /\ UNCHANGED <<endpoint, slot, last, reported, inflight>>
        /\ current' \in {current, NoSnapshot}
    BY <1>5 DEF Enroll, EnrollFails, Backoff
  <2> QED BY <1>n, <2>1, NoSnapshotType DEF Seen
<1>6. CASE Send
  <2>1. current \in Snapshot /\ UNCHANGED <<endpoint, slot, current, last, reported>>
    BY <1>6, <1>t DEF Send, server, UploadTyped, TypeOK
  <2>2. [at |-> current.at, state |-> current.state] = current
    BY <2>1 DEF Snapshot
  <2>3. \A r \in inflight' : \/ r \in inflight
                             \/ [at |-> r.at, state |-> r.state] = current
    BY <1>6, <2>2 DEF Send
  <2> QED BY <1>n, <2>1, <2>3 DEF Seen
<1>7. CASE Accepted
  BY <1>7, <1>n, <1>t, NoSnapshotType DEF Accepted, Seen, server
<1>8. CASE ReportOnce
  <2>1. UNCHANGED <<endpoint, slot, current, last, reported>>
    BY <1>8 DEF ReportOnce, agent, server
  <2>2. \A r \in inflight' : \/ r \in inflight
                             \/ [at |-> r.at, state |-> r.state] = Now
    BY <1>8 DEF ReportOnce, Now
  <2> QED BY <1>n, <2>1, <2>2 DEF Seen
<1>9. ASSUME NEW r \in inflight, Ingest(r) PROVE Goal
  <2>1. /\ UNCHANGED <<endpoint, slot, current, last>> /\ inflight' \subseteq inflight
    BY <1>9 DEF Ingest, agent
  <2>2. \A d \in Device : reported'[d] \in {reported[d], [at |-> r.at, state |-> r.state]}
    BY <1>9, <1>t DEF Ingest, Newest
  <2> QED BY <1>n, <2>1, <2>2 DEF Seen
<1>10. ASSUME NEW r \in inflight, Lose(r) PROVE Goal
  BY <1>10, <1>n DEF Lose, Seen, agent, server
<1>11. CASE UNCHANGED vars
  BY <1>11, <1>n DEF vars, Seen, agent, server
<1> QED BY <1>1, <1>2, <1>3, <1>4, <1>5, <1>6, <1>7, <1>8, <1>9, <1>10, <1>11
        DEF Next, Upload, Network

LEMMA AgreementStep == UploadTyped /\ Agreement /\ [Next]_vars => Agreement'
<1> SUFFICES ASSUME UploadTyped, Agreement, [Next]_vars PROVE Agreement'
  OBVIOUS
<1>1. ASSUME NEW s \in State, Change(s) PROVE Agreement'
  <2>1. /\ changes \in Nat /\ changes' = changes + 1
        /\ Now'.at = changes + 1
    BY <1>1 DEF Change, Now, UploadTyped, TypeOK
  <2>2. \A x \in Seen' : x \in Seen \/ x = Now'
    BY <1>1 DEF Change, Seen, agent, server
  <2> QED BY <2>1, <2>2 DEF Agreement
<1>2. CASE \A s \in State : ~Change(s)
  BY <1>2, SeenStep DEF Agreement, endpoint
<1> QED BY <1>1, <1>2

\* The server has what an acknowledged report said, or something newer.
Stored(x) ==
    /\ token # None
    /\ reported[token] # NoSnapshot
    /\ reported[token].at >= x.at

StoredInv ==
    /\ last # None => Stored(last)
    /\ answered => Stored(current)

LEMMA StoredStep == UploadTyped /\ StoredInv /\ [Next]_vars => StoredInv'
<1> SUFFICES ASSUME UploadTyped, StoredInv, [Next]_vars PROVE StoredInv'
  OBVIOUS
<1>t. /\ TypeOK /\ TokensKept
      /\ reported \in [Device -> Snapshot \cup {NoSnapshot}] /\ token \in Device \cup {None}
  BY DEF UploadTyped, TypeOK
<1>1. CASE UNCHANGED <<last, answered, current, token, reported>>
  BY <1>1 DEF StoredInv, Stored
<1>2. CASE Take
  BY <1>2, <1>t DEF Take, StoredInv, Stored, TokensKept, server
<1>3. CASE Enroll \/ EnrollFails
  <2>1. /\ token = None /\ last' = last /\ answered' = FALSE
    BY <1>3, <1>t DEF Enroll, EnrollFails, Backoff, TokensKept
  <2> QED BY <2>1 DEF StoredInv, Stored
<1>4. CASE Accepted
  BY <1>4 DEF Accepted, StoredInv, Stored, server
<1>5. CASE UploadFails \/ Restart
  BY <1>5 DEF UploadFails, Restart, Backoff, StoredInv, Stored, server
<1>6. ASSUME NEW r \in inflight, Ingest(r) PROVE StoredInv'
  <2>1. /\ r \in Report /\ r.device \in Device
        /\ [at |-> r.at, state |-> r.state] \in Snapshot /\ r.at \in Nat
    BY <1>t DEF TypeOK, Report, Snapshot
  <2>2. \A d \in Device :
          reported'[d] = IF d = r.device THEN Newest(reported[d], r) ELSE reported[d]
    BY <1>6, <1>t DEF Ingest
  <2>3. \A d \in Device : reported[d] # NoSnapshot =>
          reported[d].at \in Nat /\ reported'[d] # NoSnapshot /\ reported'[d].at >= reported[d].at
                                 /\ reported'[d].at \in Nat
    BY <1>t, <2>1, <2>2, NoSnapshotType DEF Newest, Snapshot
  <2>4. /\ reported'[r.device] # NoSnapshot /\ reported'[r.device].at >= r.at
    BY <1>t, <2>1, <2>2, NoSnapshotType DEF Newest, Snapshot
  <2>5. UNCHANGED <<last, current, token>> /\ (answered' <=> answered \/ Awaited(r))
    BY <1>6, <1>t DEF Ingest, agent, TypeOK, Awaited
  <2>6. Awaited(r) => r.device = token /\ r.at = current.at /\ token # None
    BY <1>t DEF Awaited, TokensKept
  <2>7. last # None => last.at \in Nat
    BY <1>t DEF TypeOK, Snapshot
  <2>8. current.at \in Nat
    BY <1>t DEF TypeOK, Snapshot, NoSnapshot
  <2> QED BY <1>t, <2>3, <2>4, <2>5, <2>6, <2>7, <2>8 DEF StoredInv, Stored
<1> QED
  BY <1>1, <1>2, <1>3, <1>4, <1>5, <1>6
  DEF Next, Upload, Network, vars, Change, Collect, CollectFails, Age, Elapse, Discard, Send,
      ReportOnce, Lose, agent, server

LEMMA AgreementInit == Init => Agreement /\ StoredInv
<1> SUFFICES ASSUME Init PROVE Agreement /\ StoredInv
  OBVIOUS
<1>1. ASSUME NEW x \in Seen PROVE x = Now
  <2>1. current \notin Snapshot /\ last \notin Snapshot
    BY NoSnapshotType, UploadConstants DEF Init
  <2>2. {reported[d] : d \in Device} \ {NoSnapshot} = {}
    BY DEF Init
  <2> QED BY <2>1, <2>2 DEF Init, Seen
<1>2. Now.at = changes /\ changes \in Nat
  BY DEF Init, Now
<1>3. Agreement
  BY <1>1, <1>2 DEF Agreement
<1> QED BY <1>3 DEF Init, StoredInv

\* The state the upload thread skips snapshots for is stored at the server, unless
\* something newer is, whatever was lost, late, repeated or restarted.
THEOREM AcknowledgedStored == Spec => []AcknowledgedIsStored
<1>1. Spec => [](UploadTyped /\ Agreement /\ StoredInv)
  BY AgreementInit, UploadInit, UploadStep, AgreementStep, StoredStep, PTL DEF Spec
<1>2. UploadTyped /\ Agreement /\ StoredInv => AcknowledgedIsStored
  <2> SUFFICES ASSUME UploadTyped, Agreement, StoredInv, last # None
               PROVE  reported[token].at = last.at => reported[token].state = last.state
    BY DEF AcknowledgedIsStored, StoredInv, Stored
  <2>1. last \in Seen /\ reported[token] \in Seen
    BY DEF UploadTyped, TypeOK, StoredInv, Stored, Seen
  <2> QED BY <2>1 DEF Agreement
<1> QED BY <1>1, <1>2, PTL

(***************************************************************************)
(* Which skips are right.  The run upload_skipped shows that the upload    *)
(* thread can take a snapshot for known while the server shows another     *)
(* one; this is never so before a failure or a report of somebody else.    *)
(***************************************************************************)

\* No request failed, the agent was not restarted, and no other process of the
\* endpoint has reported.
Undisturbed == failures = 0 /\ reports = 0

\* Then one report is under way at most, the server's inventory is that of the last
\* one answered, and snapshots are handed on in the order they were taken.
InStep ==
    /\ \A r \in inflight : Awaited(r) /\ ~answered
    /\ ~answered => IF last = None THEN \A d \in Device : reported[d] = NoSnapshot
                    ELSE reported[token] = last
    /\ answered => reported[token] = current
    /\ last # None /\ pc # "idle" => last.at <= current.at
    /\ last # None /\ slot # NoSnapshot => last.at <= slot.at
    /\ pc # "idle" /\ slot # NoSnapshot => current.at <= slot.at

SkipInv == UploadTyped /\ Agreement /\ StoredInv /\ (Undisturbed => InStep)

LEMMA InStepInit == Init => InStep
BY DEF Init, InStep

LEMMA InStepStep == SkipInv /\ [Next]_vars => (Undisturbed => InStep)'
<1> SUFFICES ASSUME SkipInv, [Next]_vars, Undisturbed' PROVE InStep'
  OBVIOUS
<1>t. /\ TypeOK /\ TokensKept /\ Agreement
      /\ reported \in [Device -> Snapshot \cup {NoSnapshot}] /\ token \in Device \cup {None}
      /\ current \in Snapshot \cup {NoSnapshot} /\ last \in Snapshot \cup {None}
      /\ slot \in Queued \cup {NoSnapshot} /\ inflight \subseteq Report
      /\ (pc = "idle") <=> (current = NoSnapshot)
  BY DEF SkipInv, UploadTyped, TypeOK
<1>q. ~EnrollFails /\ ~UploadFails /\ ~Restart /\ ~ReportOnce
  BY <1>t DEF EnrollFails, UploadFails, Restart, Backoff, ReportOnce, Undisturbed, TypeOK
<1>u. Undisturbed
  BY <1>q DEF Undisturbed, Next, Upload, Network, vars, bounds, Change, Collect, CollectFails, Age,
              Elapse, Discard, Take, Enroll, Send, Accepted, Ingest, Lose
<1>i. InStep
  BY <1>u DEF SkipInv
<1>n. /\ changes \in Nat
      /\ last # None => last.at \in Nat /\ last.at <= changes
      /\ pc # "idle" => current.at \in Nat /\ current.at <= changes
      /\ slot # NoSnapshot => slot.at \in Nat /\ slot.at <= changes
  <2>1. last # None => last \in Seen
    BY <1>t DEF Seen
  <2>2. pc # "idle" => current \in Seen
    BY <1>t DEF Seen
  <2>3. slot # NoSnapshot => [at |-> slot.at, state |-> slot.state] \in Seen
    BY DEF Seen
  <2> QED BY <1>t, <2>1, <2>2, <2>3 DEF Agreement, TypeOK
<1>1. ASSUME NEW s \in State, Change(s) PROVE InStep'
  BY <1>1, <1>i DEF Change, InStep, Awaited, agent, server, bounds
<1>2. CASE Collect
  <2>1. slot' = [at |-> changes, state |-> world, aged |-> FALSE] /\ slot'.at = changes
    BY <1>2 DEF Collect
  <2> QED BY <1>2, <1>i, <1>n, <2>1 DEF Collect, InStep, Awaited, server, bounds
<1>3. CASE Age
  <2>1. slot' # NoSnapshot /\ slot'.at = slot.at /\ slot # NoSnapshot
    BY <1>3, <1>t, NoSnapshotType DEF Age, Queued
  <2> QED BY <1>3, <1>i, <2>1 DEF Age, InStep, Awaited, server, bounds
<1>4. CASE CollectFails \/ Elapse \/ Discard
  <2>1. /\ slot' \in {slot, NoSnapshot}
        /\ UNCHANGED <<pc, current, last, token, server, inflight, answered, bounds>>
    BY <1>4 DEF CollectFails, Elapse, Discard
  <2> QED BY <1>i, <2>1 DEF InStep, Awaited, server, bounds
<1>5. CASE Take
  <2>1. /\ pc = "idle" /\ slot # NoSnapshot /\ slot' = NoSnapshot /\ current'.at = slot.at
        /\ pc' # "wait" /\ UNCHANGED <<last, token, server, inflight, answered>>
    BY <1>5 DEF Take
  <2>2. inflight = {} /\ ~answered
    BY <1>i, <1>t, <2>1 DEF InStep, Awaited, TokensKept
  <2> QED BY <1>i, <2>1, <2>2 DEF InStep, server
<1>6. CASE Enroll
  <2>1. /\ pc = "enroll" /\ pc' = "send" /\ token = None
        /\ UNCHANGED <<slot, current, last, reported, inflight, answered>>
    BY <1>6, <1>t DEF Enroll, TokensKept
  <2>2. inflight = {} /\ ~answered /\ last = None
    BY <1>i, <1>t, <2>1 DEF InStep, Awaited, TokensKept, SkipInv, StoredInv, Stored
  <2> QED BY <1>i, <2>1, <2>2 DEF InStep
<1>7. CASE Send
  <2>1. /\ pc = "send" /\ pc' = "wait" /\ UNCHANGED <<slot, current, last, token, server, answered, bounds>>
    BY <1>7 DEF Send
  <2>2. inflight = {} /\ ~answered
    BY <1>i, <1>t, <2>1 DEF InStep, Awaited, TokensKept
  <2>3. \A r \in inflight' : Awaited(r)'
    BY <1>7, <2>1, <2>2 DEF Send, Awaited, bounds
  <2> QED BY <1>i, <2>1, <2>2, <2>3 DEF InStep, server
<1>8. CASE Accepted
  <2>1. /\ pc = "wait" /\ answered /\ pc' = "idle" /\ answered' = FALSE /\ last' = current
        /\ UNCHANGED <<slot, token, reported, inflight>>
    BY <1>8 DEF Accepted, server
  <2>2. inflight = {} /\ reported[token] = current
    BY <1>i, <2>1 DEF InStep
  <2>3. current # None
    BY <1>t, <2>1, UploadConstants DEF NoSnapshot
  <2> QED BY <1>i, <2>1, <2>2, <2>3 DEF InStep
<1>9. ASSUME NEW r \in inflight, Ingest(r) PROVE InStep'
  <2>1. Awaited(r) /\ ~answered /\ inflight' = inflight \ {r} /\ answered'
        /\ UNCHANGED <<slot, pc, current, last, token>>
    BY <1>9, <1>i DEF Ingest, InStep, agent
  <2>2. /\ pc = "wait" /\ current \in Snapshot /\ token \in Device
        /\ r.device = token /\ r.at = current.at /\ r.state = current.state
    BY <1>t, <2>1 DEF Awaited, TokensKept
  <2>3. inflight' = {}
    BY <1>i, <2>1 DEF InStep, Awaited
  <2>4. [at |-> r.at, state |-> r.state] = current
    BY <2>2 DEF Snapshot
  <2>5. Newest(reported[token], r) = current
    <3>1. CASE last = None
      BY <1>i, <2>1, <2>2, <2>4, <3>1 DEF InStep, Newest
    <3>2. CASE last # None
      <4>1. reported[token] = last /\ last.at <= r.at /\ last.at \in Nat /\ r.at \in Nat
        BY <1>i, <1>n, <2>1, <2>2, <3>2 DEF InStep
      <4>2. ~(last.at > r.at)
        BY <4>1
      <4> QED BY <2>4, <4>1, <4>2 DEF Newest
    <3> QED BY <3>1, <3>2
  <2>6. reported'[token] = current
    BY <1>9, <1>t, <2>2, <2>5 DEF Ingest
  <2> QED BY <1>i, <2>1, <2>3, <2>6 DEF InStep
<1>10. ASSUME NEW r \in inflight, Lose(r) PROVE InStep'
  BY <1>10, <1>i DEF Lose, InStep
<1>11. CASE UNCHANGED vars
  BY <1>11, <1>i DEF vars, InStep, Awaited, agent, server, bounds
<1> QED BY <1>q, <1>1, <1>2, <1>3, <1>4, <1>5, <1>6, <1>7, <1>8, <1>9, <1>10, <1>11
        DEF Next, Upload, Network

\* A snapshot is skipped wrongly (the property ChangeIsUploaded, which a run finds violated)
\* only after a request has failed, the agent was restarted, or another process of
\* the endpoint has reported: for any number of changes and states.
THEOREM SkipsHaveCauses == Spec => [](ChangeIsUploaded \/ ~Undisturbed)
<1>1. Init => SkipInv
  BY UploadInit, AgreementInit, InStepInit DEF SkipInv
<1>2. SkipInv /\ [Next]_vars => SkipInv'
  BY UploadStep, AgreementStep, StoredStep, InStepStep DEF SkipInv
<1>3. SkipInv => ChangeIsUploaded \/ ~Undisturbed
  BY DEF SkipInv, UploadTyped, TokensKept, InStep, ChangeIsUploaded, Known
<1> QED BY <1>1, <1>2, <1>3, PTL DEF Spec

=============================================================================
