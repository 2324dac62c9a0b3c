----------------------------- MODULE AgentUpload -----------------------------
(***************************************************************************)
(* The inventory half of an endpoint agent (agent.py): the collector loop  *)
(* keeps the newest snapshot in a one-slot queue, the upload thread        *)
(* enrolls if it must, skips snapshots it takes for known and sends the    *)
(* others to the server, which orders them by observation time.  Requests  *)
(* and answers can be lost, a request can arrive after its sender gave up, *)
(* and the agent can restart at any step.                                  *)
(*                                                                         *)
(* Snapshots taken between two changes of the endpoint are equal, so the   *)
(* number of changes stands for observed_at.                               *)
(***************************************************************************)
EXTENDS Naturals, FiniteSets

CONSTANTS
    State,        \* normalized inventory states of the endpoint
    None,         \* no state, no device token
    MaxChanges,   \* bound on changes of the endpoint
    MaxFailures,  \* bound on failed enrollments and uploads and on restarts
    MaxReports    \* bound on reports of other processes of the endpoint

ASSUME UploadAssumption ==
    /\ {MaxChanges, MaxFailures, MaxReports} \subseteq Nat
    /\ None \notin State \cup Nat
    /\ None \notin [at : Nat, state : State]

VARIABLES
    changes,   \* changes of the endpoint so far
    world,     \* its inventory now
    slot,      \* the one-slot queue, or NoSnapshot
    pc,        \* the upload thread: "idle", "enroll", "send" or "wait"
    current,   \* the snapshot it is uploading
    last,      \* last_state: the state the server acknowledged
    recent,    \* last_report is less than report_interval ago
    token,     \* the device of the token in memory
    saved,     \* the device of the token in the configuration file
    devices,   \* devices the server has enrolled: 1..devices
    reported,  \* by device: the newest snapshot the server accepted
    inflight,  \* reports on their way
    answered,  \* the awaited report has been accepted
    failures, reports

agent == <<slot, pc, current, last, recent, token>>
server == <<devices, reported>>
endpoint == <<changes, world>>
bounds == <<failures, reports>>
vars == <<endpoint, agent, saved, server, inflight, answered, bounds>>

Snapshot == [at : 0..MaxChanges, state : State]
Queued == [at : 0..MaxChanges, state : State, aged : BOOLEAN]
NoSnapshot == [at |-> 0]
Device == 1..(MaxFailures + 1)
\* A report is known by its scan id: by the sender and what it sent before.
Report == [device : Device, at : 0..MaxChanges, state : State,
           try : (0..MaxFailures) \X (0..MaxReports)]

TypeOK ==
    /\ changes \in 0..MaxChanges /\ world \in State
    /\ slot \in Queued \cup {NoSnapshot}
    /\ pc \in {"idle", "enroll", "send", "wait"}
    /\ current \in Snapshot \cup {NoSnapshot}
    /\ (pc = "idle") <=> (current = NoSnapshot)
    /\ last \in Snapshot \cup {None}
    /\ recent \in BOOLEAN
    /\ {token, saved} \subseteq Device \cup {None}
    /\ devices \in Device \cup {0}
    /\ reported \in [Device -> Snapshot \cup {NoSnapshot}]
    /\ inflight \subseteq Report
    /\ answered \in BOOLEAN
    /\ failures \in 0..MaxFailures /\ reports \in 0..MaxReports

Init ==
    /\ changes = 0 /\ world \in State
    /\ slot = NoSnapshot /\ pc = "idle" /\ current = NoSnapshot
    /\ last = None /\ recent = FALSE
    /\ token = None /\ saved = None
    /\ devices = 0
    /\ reported = [d \in Device |-> NoSnapshot]
    /\ inflight = {} /\ answered = FALSE
    /\ failures = 0 /\ reports = 0

Now == [at |-> changes, state |-> world]

-----------------------------------------------------------------------------
(* The endpoint and the collector loop. *)

Change(s) ==
    /\ changes < MaxChanges
    /\ s # world
    /\ changes' = changes + 1
    /\ world' = s
    /\ UNCHANGED <<agent, saved, server, inflight, answered, bounds>>

\* A new snapshot replaces the one that waits.
Collect ==
    /\ slot' = [at |-> changes, state |-> world, aged |-> FALSE]
    /\ UNCHANGED <<endpoint, pc, current, last, recent, token, saved, server,
                   inflight, answered, bounds>>

\* A scan that fails takes the snapshot that waits with it.
CollectFails ==
    /\ slot # NoSnapshot
    /\ slot' = NoSnapshot
    /\ UNCHANGED <<endpoint, pc, current, last, recent, token, saved, server,
                   inflight, answered, bounds>>

\* The snapshot that waits is now older than min(report_interval, 900).
Age ==
    /\ slot # NoSnapshot /\ ~slot.aged
    /\ slot' = [slot EXCEPT !.aged = TRUE]
    /\ UNCHANGED <<endpoint, pc, current, last, recent, token, saved, server,
                   inflight, answered, bounds>>

\* report_interval has passed since the last acknowledged report.
Elapse ==
    /\ recent
    /\ recent' = FALSE
    /\ UNCHANGED <<endpoint, slot, pc, current, last, token, saved, server,
                   inflight, answered, bounds>>

-----------------------------------------------------------------------------
(* The upload thread. *)

\* Mutant: no heartbeat.
KnownForever(s) == last # None /\ last.state = s.state /\ recent \in BOOLEAN
Known(s) == last # None /\ last.state = s.state /\ recent

Discard ==
    /\ pc = "idle" /\ slot # NoSnapshot
    /\ Known(slot) \/ slot.aged
    /\ slot' = NoSnapshot
    /\ UNCHANGED <<endpoint, pc, current, last, recent, token, saved, server,
                   inflight, answered, bounds>>

Take ==
    /\ pc = "idle" /\ slot # NoSnapshot
    /\ ~Known(slot) /\ ~slot.aged
    /\ slot' = NoSnapshot
    /\ current' = [at |-> slot.at, state |-> slot.state]
    /\ pc' = IF token = None THEN "enroll" ELSE "send"
    /\ UNCHANGED <<endpoint, last, recent, token, saved, server, inflight,
                   answered, bounds>>

Enroll ==
    /\ pc = "enroll"
    /\ devices' = devices + 1
    /\ token' = devices'
    /\ saved' = devices'
    /\ pc' = "send"
    /\ UNCHANGED <<endpoint, slot, current, last, recent, reported, inflight,
                   answered, bounds>>

Backoff ==
    /\ pc' = "idle"
    /\ current' = NoSnapshot
    /\ answered' = FALSE
    /\ failures < MaxFailures
    /\ failures' = failures + 1
    /\ UNCHANGED reports

\* The request or its answer is lost, or the configuration cannot be written:
\* then the token is in memory only.
EnrollFails ==
    /\ pc = "enroll"
    /\ Backoff
    /\ \/ UNCHANGED <<devices, token>>
       \/ devices' = devices + 1 /\ UNCHANGED token
       \/ devices' = devices + 1 /\ token' = devices'
    /\ UNCHANGED <<endpoint, slot, last, recent, saved, reported, inflight>>

Send ==
    /\ pc = "send"
    /\ pc' = "wait"
    /\ inflight' = inflight \cup
         {[device |-> token, at |-> current.at, state |-> current.state,
           try |-> <<failures, 0>>]}
    /\ UNCHANGED <<endpoint, slot, current, last, recent, token, saved, server,
                   answered, bounds>>

\* Mutant: the state is remembered whatever the answer.
AcceptedUnanswered ==
    /\ pc = "wait"
    /\ pc' = "idle" /\ current' = NoSnapshot /\ answered' = FALSE
    /\ last' = current /\ recent' = TRUE
    /\ UNCHANGED <<endpoint, slot, token, saved, server, inflight, bounds>>
Accepted ==
    /\ pc = "wait" /\ answered
    /\ pc' = "idle" /\ current' = NoSnapshot /\ answered' = FALSE
    /\ last' = current /\ recent' = TRUE
    /\ UNCHANGED <<endpoint, slot, token, saved, server, inflight, bounds>>

UploadFails ==
    /\ pc = "wait"
    /\ Backoff
    /\ UNCHANGED <<endpoint, slot, last, recent, token, saved, server, inflight>>

\* The agent is started again, with what the configuration file has.
Restart ==
    /\ Backoff
    /\ slot' = NoSnapshot
    /\ last' = None /\ recent' = FALSE
    /\ token' = saved
    /\ UNCHANGED <<endpoint, saved, server, inflight>>

-----------------------------------------------------------------------------
(* Other processes, the network and the server. *)

\* send_once of setup or of the command line, with the saved identity.
ReportOnce ==
    /\ saved # None
    /\ reports < MaxReports
    /\ reports' = reports + 1
    /\ inflight' = inflight \cup
         {[device |-> saved, at |-> changes, state |-> world,
           try |-> <<failures, reports'>>]}
    /\ UNCHANGED <<endpoint, agent, saved, server, answered, failures>>

\* Mutant: the report that arrives last is current.
NewestArrived(known, r) == [at |-> r.at, state |-> r.state]
\* ingest: an older observation does not replace a newer one.
Newest(known, r) ==
    IF known # NoSnapshot /\ known.at > r.at THEN known
    ELSE [at |-> r.at, state |-> r.state]

\* The answer to r goes to the upload thread.
Awaited(r) ==
    pc = "wait" /\ r = [device |-> token, at |-> current.at,
                        state |-> current.state, try |-> <<failures, 0>>]

Ingest(r) ==
    /\ reported' = [reported EXCEPT ![r.device] = Newest(@, r)]
    /\ inflight' = inflight \ {r}
    /\ answered' = (answered \/ Awaited(r))
    /\ UNCHANGED <<endpoint, agent, saved, devices, bounds>>

Lose(r) ==
    /\ ~Awaited(r)
    /\ inflight' = inflight \ {r}
    /\ UNCHANGED <<endpoint, agent, saved, server, answered, bounds>>

Upload == Discard \/ Take \/ Enroll \/ Send \/ Accepted
Network == \E r \in inflight : Ingest(r) \/ Lose(r)

Next ==
    \/ \E s \in State : Change(s)
    \/ Collect \/ CollectFails \/ Age \/ Elapse
    \/ Upload \/ EnrollFails \/ UploadFails \/ Restart
    \/ ReportOnce \/ Network

Spec == Init /\ [][Next]_vars

\* The collector keeps polling, the idle upload thread takes a snapshot long
\* before it ages or the next scan replaces it, time passes, and what is sent
\* arrives once failures end.
PollingSpec ==
    /\ Spec
    /\ WF_vars(Collect) /\ WF_vars(Elapse)
    /\ SF_vars(Take)
    /\ WF_vars(Enroll) /\ WF_vars(Send) /\ WF_vars(Accepted)
    /\ WF_vars(Network)

-----------------------------------------------------------------------------
(* Properties. *)

\* What the upload thread takes for known the server does know: its device's
\* inventory is the acknowledged snapshot or a later one.
AcknowledgedIsStored ==
    last # None =>
      /\ token # None
      /\ reported[token] # NoSnapshot
      /\ reported[token].at >= last.at
      /\ reported[token].at = last.at => reported[token].state = last.state

\* A delayed report never takes the inventory back to an earlier observation.
NeverBackwards ==
    [][\A d \in Device : reported[d] # NoSnapshot =>
         reported'[d] # NoSnapshot /\ reported'[d].at >= reported[d].at]_vars

\* When the endpoint no longer changes, the server ends with its inventory under
\* the identity the agent reports as, whatever was lost, late or repeated.
InventoryConverges == <>[](token # None /\ reported[token] = Now)

\* What the performance guide says and a lost answer breaks: "The agent uploads
\* a complete snapshot immediately when this state changes"
\* (docs/scanning-performance.md).  The upload thread skips only snapshots that
\* would not change what the server shows.
ChangeIsUploaded ==
    (pc = "idle" /\ slot # NoSnapshot /\ Known(slot) /\ slot.at >= reported[token].at)
        => reported[token].state = slot.state

=============================================================================
