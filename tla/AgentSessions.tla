--------------------------- MODULE AgentSessions ---------------------------
(***************************************************************************)
(* ingest_runtime_events (database.py): batches of runtime events, in any  *)
(* order and any number of times, become rows of runtime_events and one    *)
(* row of agent_sessions per agent of a session.  A batch is one           *)
(* transaction.                                                            *)
(***************************************************************************)
EXTENDS Integers, FiniteSets, FiniteSetsExt, Sequences, SequencesExt

CONSTANTS
    Event,      \* runtime events: records with the fields read below
    Agent,      \* an agent of a session of a device: the key of agent_sessions
    None        \* SQL NULL

\* obs is observed_at; tool and mcp say whether the event names one.  The app,
\* the status and last_event of a session all come from one event: its id
\* stands for them.
ASSUME EventAssumption ==
    \A e \in Event :
      /\ DOMAIN e = {"id", "agent", "obs", "model", "workspace", "tool", "mcp"}
      /\ e.agent \in Agent /\ e.obs \in Nat
      /\ e.tool \in 0..1 /\ e.mcp \in 0..1

VARIABLES
    stored,     \* runtime_events
    sessions    \* agent_sessions

tables == <<stored, sessions>>

NoSession == [count |-> 0]
Models == {e.model : e \in Event} \cup {None}
Workspaces == {e.workspace : e \in Event} \cup {None}
Session == [by : {e.id : e \in Event}, model : Models, workspace : Workspaces,
            first : Nat, last : Nat, count : Nat, tools : Nat, mcps : Nat]

Fresh(e) == [by |-> e.id, model |-> e.model, workspace |-> e.workspace,
             first |-> e.obs, last |-> e.obs, count |-> 1, tools |-> e.tool, mcps |-> e.mcp]

Coalesce(a, b) == IF a # None THEN a ELSE b

\* Mutant: the event that arrives last decides.
MergedByArrival(row, e) ==
    [by |-> e.id, model |-> Coalesce(e.model, row.model),
     workspace |-> Coalesce(e.workspace, row.workspace),
     first |-> IF e.obs < row.first THEN e.obs ELSE row.first, last |-> e.obs, count |-> row.count + 1,
     tools |-> row.tools + e.tool, mcps |-> row.mcps + e.mcp]

\* ON CONFLICT DO UPDATE of the session row.
Merged(row, e) ==
    LET newer == e.obs >= row.last IN
    [by |-> IF newer THEN e.id ELSE row.by,
     model |-> IF newer THEN Coalesce(e.model, row.model) ELSE row.model,
     workspace |-> IF newer THEN Coalesce(e.workspace, row.workspace)
                   ELSE Coalesce(row.workspace, e.workspace),
     first |-> IF e.obs < row.first THEN e.obs ELSE row.first,
     last |-> IF newer THEN e.obs ELSE row.last,
     count |-> row.count + 1,
     tools |-> row.tools + e.tool,
     mcps |-> row.mcps + e.mcp]

\* Mutant: the session is updated whether or not the event is new.
UpsertedAlways(s, e) ==
    [stored |-> s.stored \cup {e},
     sessions |-> [s.sessions EXCEPT
                     ![e.agent] = IF @ = NoSession THEN Fresh(e) ELSE Merged(@, e)]]
\* INSERT OR IGNORE, then the session.
Upserted(s, e) ==
    IF e.id \in {f.id : f \in s.stored} THEN s
    ELSE [stored |-> s.stored \cup {e},
          sessions |-> [s.sessions EXCEPT
                          ![e.agent] = IF @ = NoSession THEN Fresh(e) ELSE Merged(@, e)]]

SessionsInit ==
    /\ stored = {}
    /\ sessions = [a \in Agent |-> NoSession]

IngestEvents(batch) ==
    LET after[n \in 0..Len(batch)] ==
          IF n = 0 THEN [stored |-> stored, sessions |-> sessions]
          ELSE Upserted(after[n - 1], batch[n]) IN
    /\ stored' = after[Len(batch)].stored
    /\ sessions' = after[Len(batch)].sessions

-----------------------------------------------------------------------------
(* Properties. *)

SessionsTypeOK ==
    /\ stored \subseteq Event
    /\ sessions \in [Agent -> Session \cup {NoSession}]

Of(a) == {e \in stored : e.agent = a}

\* Every session row is the sum of the stored events, however often they were
\* sent and in whatever batches: nothing counts twice, nothing is left out.
SessionsCountEvents ==
    \A a \in Agent :
      /\ sessions[a].count = Cardinality(Of(a))
      /\ Of(a) # {} =>
           /\ sessions[a].tools = SumFunction([e \in Of(a) |-> e.tool])
           /\ sessions[a].mcps = SumFunction([e \in Of(a) |-> e.mcp])
           /\ sessions[a].first = Min({e.obs : e \in Of(a)})

\* What a session shows is what its latest observed event says, even when that
\* event arrived before older ones: a late event never revives a session that
\* ended, nor ends one that went on.
LatestDecides ==
    \A a \in Agent : Of(a) # {} =>
      \E e \in Of(a) :
        /\ \A f \in Of(a) : f.obs <= e.obs
        /\ sessions[a].by = e.id /\ sessions[a].last = e.obs
        /\ e.model # None => sessions[a].model = e.model
        /\ e.workspace # None => sessions[a].workspace = e.workspace

=============================================================================
