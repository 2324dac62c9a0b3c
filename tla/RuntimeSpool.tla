---------------------------- MODULE RuntimeSpool ----------------------------
(***************************************************************************)
(* From a hook to the server: hooks append runtime events to a spool file  *)
(* under a lock (runtime.py), uploaders of the same endpoint rename it and *)
(* send it in batches (agent.py), and the server ingests them.  Requests   *)
(* and answers can be lost and a request can arrive after its sender gave  *)
(* up, processes die at any step, and a disk that fills up cuts a write    *)
(* short.                                                                  *)
(***************************************************************************)
EXTENDS AgentSessions

CONSTANTS
    Uploader,    \* processes that flush: the agent, and every setup or report
    SpoolLimit,  \* MAX_SPOOL_BYTES, in lines
    BatchLimit,  \* MAX_BATCH_EVENTS
    MaxFailures, \* bound on lost requests and answers, and on deaths
    MaxShort     \* bound on writes cut short

ASSUME SpoolAssumption ==
    /\ {SpoolLimit, BatchLimit} \subseteq Nat \ {0}
    /\ {MaxFailures, MaxShort} \subseteq Nat
    /\ None \notin Uploader

VARIABLES
    spool,     \* runtime-events.jsonl
    pending,   \* runtime-events.jsonl.pending, or NoFile
    accepted,  \* history: the events append_event wrote without an error
    refused,   \* history: events refused because the spool was full
    uploads,   \* holder of the upload lock
    todo,      \* what each uploader read and has not sent
    inflight,  \* requests on their way to the server
    waiting,   \* the request whose answer each uploader awaits, or NoRequest
    answered,  \* the requests among them the server has accepted
    failures,
    cut        \* history: the accepted events whose write was cut short

files == <<spool, pending>>
fates == <<accepted, refused>>
agents == <<uploads, todo, waiting>>
network == <<inflight, answered>>
vars == <<tables, files, fates, agents, network, failures, cut>>

\* A line is an event or does not parse.  A line cut short lacks its newline.
Torn == [newline |-> TRUE]
CutShort == [newline |-> FALSE]
\* A pending file is never empty.
NoFile == <<>>
Line == Event \cup {Torn, CutShort}
Events(lines) == ToSet(lines) \cap Event
\* One try of one batch.
Request == [attempt : 0..MaxFailures, events : Seq(Event)]
NoRequest == [events |-> <<>>]

TypeOK ==
    /\ SessionsTypeOK
    /\ spool \in Seq(Line)
    /\ pending \in Seq(Line)
    /\ {accepted, refused} \subseteq SUBSET Event
    /\ uploads \in Uploader \cup {None}
    /\ todo \in [Uploader -> Seq(Event)]
    /\ waiting \in [Uploader -> Request \cup {NoRequest}]
    /\ inflight \subseteq Request
    /\ answered \subseteq {waiting[u] : u \in Uploader} \ {NoRequest}
    /\ failures \in 0..MaxFailures
    /\ cut \subseteq accepted
    \* Only the holder of the upload lock is in the middle of an upload.
    /\ \A u \in Uploader : u # uploads => todo[u] = <<>> /\ waiting[u] = NoRequest

Init ==
    /\ SessionsInit
    /\ spool = <<>> /\ pending = NoFile
    /\ accepted = {} /\ refused = {}
    /\ uploads = None
    /\ todo = [u \in Uploader |-> <<>>]
    /\ waiting = [u \in Uploader |-> NoRequest]
    /\ inflight = {} /\ answered = {}
    /\ failures = 0 /\ cut = {}

-----------------------------------------------------------------------------
(* Hooks.  An event carries its time from before the lock was taken, so    *)
(* appends need not be in the order of observation.                        *)

\* Event identifiers are random: none is used twice.
Unused(e) == e.id \notin {f.id : f \in accepted \cup refused}

\* The line follows whatever the file ends in.
Appended(lines, line) ==
    IF lines # <<>> /\ Last(lines) = CutShort
    THEN Append(Front(lines), IF line = CutShort THEN CutShort ELSE Torn)
    ELSE Append(lines, line)

AppendEvent(e) ==
    /\ Unused(e)
    /\ Len(spool) < SpoolLimit
    /\ spool' = Appended(spool, e)
    /\ accepted' = accepted \cup {e}
    /\ UNCHANGED <<tables, pending, refused, agents, network, failures, cut>>

\* os.write reports a short count and append_event does not look at it.
AppendShort(e) ==
    /\ Unused(e)
    /\ Len(spool) < SpoolLimit
    /\ Cardinality(cut) < MaxShort
    /\ cut' = cut \cup {e}
    /\ spool' = Appended(spool, CutShort)
    /\ accepted' = accepted \cup {e}
    /\ UNCHANGED <<tables, pending, refused, agents, network, failures>>

Refuse(e) ==
    /\ Unused(e)
    /\ Len(spool) >= SpoolLimit
    /\ refused' = refused \cup {e}
    /\ UNCHANGED <<tables, files, accepted, agents, network, failures, cut>>

-----------------------------------------------------------------------------
(* flush_runtime_events, under the upload lock. *)

\* Mutant: the upload lock is not waited for.
FreeAlways == uploads \in Uploader \cup {None}
Free == uploads = None

\* Mutant: the rename replaces a pending file.
ClaimedAnew == spool
Claimed == IF pending # NoFile THEN pending ELSE spool

\* read_events: the events of a file, in order.
ReadEvents(lines) ==
    LET read[n \in 0..Len(lines)] ==
          IF n = 0 THEN <<>>
          ELSE IF lines[n] \in Event THEN Append(read[n - 1], lines[n]) ELSE read[n - 1] IN
    read[Len(lines)]

\* claim_spool under the spool lock, then read_events: a pending file left by a
\* failed upload comes first; a file without a single event is deleted.
Claim(u) ==
    /\ Free
    /\ pending # NoFile \/ spool # <<>>
    /\ LET valid == ReadEvents(Claimed) IN
         /\ spool' = IF pending # NoFile THEN spool ELSE <<>>
         /\ IF valid = <<>>
            THEN /\ pending' = NoFile
                 /\ UNCHANGED <<uploads, todo>>
            ELSE /\ pending' = Claimed
                 /\ uploads' = u
                 /\ todo' = [todo EXCEPT ![u] = valid]
    /\ UNCHANGED <<tables, fates, waiting, network, failures, cut>>

\* Batches are limited by size too: a shorter prefix can be one.
SendBatch(u, n) ==
    /\ todo[u] # <<>> /\ waiting[u] = NoRequest
    /\ n <= Len(todo[u])
    /\ LET request == [attempt |-> failures, events |-> SubSeq(todo[u], 1, n)] IN
         /\ waiting' = [waiting EXCEPT ![u] = request]
         /\ inflight' = inflight \cup {request}
    /\ todo' = [todo EXCEPT ![u] = SubSeq(@, n + 1, Len(@))]
    /\ UNCHANGED <<tables, files, fates, uploads, answered, failures, cut>>

\* Mutant: the file goes with the first batch accepted.
AcknowledgeEach(u) ==
    /\ waiting[u] \in answered
    /\ answered' = answered \ {waiting[u]}
    /\ waiting' = [waiting EXCEPT ![u] = NoRequest]
    /\ pending' = NoFile
    /\ uploads' = IF todo[u] = <<>> THEN None ELSE uploads
    /\ UNCHANGED <<tables, spool, fates, todo, inflight, failures, cut>>
\* The file goes only once the last batch is accepted.
Acknowledge(u) ==
    /\ waiting[u] \in answered
    /\ answered' = answered \ {waiting[u]}
    /\ waiting' = [waiting EXCEPT ![u] = NoRequest]
    /\ IF todo[u] = <<>>
       THEN pending' = NoFile /\ uploads' = None
       ELSE UNCHANGED <<pending, uploads>>
    /\ UNCHANGED <<tables, spool, fates, todo, inflight, failures, cut>>

\* The answer is an error, does not come in time or is lost, or the process
\* dies: the file stays.  The request may still reach the server.
GiveUp(u) ==
    /\ uploads = u
    /\ failures < MaxFailures
    /\ failures' = failures + 1
    /\ uploads' = None
    /\ todo' = [todo EXCEPT ![u] = <<>>]
    /\ waiting' = [waiting EXCEPT ![u] = NoRequest]
    /\ answered' = answered \ {waiting[u]}
    /\ UNCHANGED <<tables, files, fates, inflight, cut>>

-----------------------------------------------------------------------------
(* The server and the network. *)

Serve(request) ==
    /\ IngestEvents(request.events)
    /\ inflight' = inflight \ {request}
    /\ answered' = IF \E u \in Uploader : waiting[u] = request
                   THEN answered \cup {request} ELSE answered
    /\ UNCHANGED <<files, fates, agents, failures, cut>>

\* A request nobody waits for can also be lost.
Lose(request) ==
    /\ \A u \in Uploader : waiting[u] # request
    /\ inflight' = inflight \ {request}
    /\ UNCHANGED <<tables, files, fates, agents, answered, failures, cut>>

Hook == \E e \in Event : AppendEvent(e) \/ AppendShort(e) \/ Refuse(e)
Upload(u) == Claim(u) \/ (\E n \in 1..BatchLimit : SendBatch(u, n)) \/ Acknowledge(u)
Network == \E request \in inflight : Serve(request) \/ Lose(request)

Next == Hook \/ (\E u \in Uploader : Upload(u) \/ GiveUp(u)) \/ Network

Spec == Init /\ [][Next]_vars

\* The agent keeps flushing, requests arrive, and failures end.
FlushingSpec ==
    /\ Spec
    /\ WF_vars(\E u \in Uploader : Upload(u))
    /\ WF_vars(Network)

-----------------------------------------------------------------------------
(* Properties. *)

Filed == Events(spool) \cup Events(pending)
Kept == Filed \cup stored

\* An event whose append raised no error is in a file or at the server, however
\* uploaders compete, fail and repeat; a write cut short costs that event and
\* at most the one appended after it.
NothingElseLost == Cardinality(accepted \ (Kept \cup cut)) <= Cardinality(cut)

\* Endpoint and server together implement EventDelivery, as the outbox does: an
\* event stays in the files until it is stored, however requests are lost, late or
\* repeated, and none is abandoned.
Delivery == INSTANCE EventDelivery WITH
    open <- Filed,
    delivered <- stored \ Filed,
    abandoned <- {},
    received <- stored

AtLeastOnce == Delivery!Spec

\* Every event that is in a file of the endpoint reaches the server once failures
\* end, whichever uploader takes it and whatever was renamed, repeated or torn.
EveryEventArrives ==
    \A e \in Event : e \in Filed ~> e \in stored

=============================================================================
