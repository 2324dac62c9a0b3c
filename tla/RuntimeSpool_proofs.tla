------------------------- MODULE RuntimeSpool_proofs -------------------------
(***************************************************************************)
(* Proofs about RuntimeSpool and AgentSessions for every set of events,    *)
(* agents and uploaders, every limit and any number of failures.  The      *)
(* server's part is an invariant of one upsert, carried over a batch by    *)
(* recursion; the endpoint's part says where the events of a claimed file  *)
(* are while it is sent.                                                   *)
(***************************************************************************)
EXTENDS RuntimeSpool, DataInduction

(***************************************************************************)
(* The sessions.                                                           *)
(***************************************************************************)

\* The tables as one value, as Upserted takes and returns them.
Tables == [stored : SUBSET Event, sessions : [Agent -> Session \cup {NoSession}]]

Part(s, a) == {e \in s.stored : e.agent = a}

\* The row of agent a sums up its events.
Counted(s, a) ==
  /\ s.sessions[a].count = Cardinality(Part(s, a))
  /\ s.sessions[a].tools = SumFunction([e \in Part(s, a) |-> e.tool])
  /\ s.sessions[a].mcps = SumFunction([e \in Part(s, a) |-> e.mcp])
  /\ \E e \in Part(s, a) : s.sessions[a].first = e.obs
  /\ \A e \in Part(s, a) : s.sessions[a].first <= e.obs

\* The latest observed event decides what the row of a shows.
Decided(s, a) ==
  \E e \in Part(s, a) :
    /\ \A f \in Part(s, a) : f.obs <= e.obs
    /\ s.sessions[a].by = e.id /\ s.sessions[a].last = e.obs
    /\ e.model # None => s.sessions[a].model = e.model
    /\ e.workspace # None => s.sessions[a].workspace = e.workspace

Right(s) ==
  /\ IsFiniteSet(s.stored)
  /\ \A a \in Agent :
       \/ Part(s, a) = {} /\ s.sessions[a] = NoSession
       \/ s.sessions[a] \in Session /\ Counted(s, a) /\ Decided(s, a)

RightTables == {s \in Tables : Right(s)}

LEMMA EventFields ==
  ASSUME NEW e \in Event
  PROVE  /\ e.agent \in Agent /\ e.obs \in Nat /\ e.tool \in Nat /\ e.mcp \in Nat
         /\ e.id \in {f.id : f \in Event} /\ e.model \in Models /\ e.workspace \in Workspaces
BY EventAssumption DEF Models, Workspaces

LEMMA NoSessionApart == NoSession \notin Session
<1> SUFFICES ASSUME NoSession \in Session PROVE FALSE
  OBVIOUS
<1>1. "by" \in DOMAIN NoSession
  BY DEF Session
<1> QED BY <1>1 DEF NoSession

\* A sum over one more element.
LEMMA SumOneMore ==
  ASSUME NEW S, IsFiniteSet(S), NEW x, x \notin S, NEW f, NEW g,
         \A y \in S : f[y] \in Nat /\ g[y] = f[y], g[x] \in Nat,
         DOMAIN f = S, DOMAIN g = S \cup {x}
  PROVE  SumFunction(g) = SumFunction(f) + g[x] /\ SumFunction(f) \in Nat
<1>1. IsFiniteSet(S \cup {x})
  BY FS_AddElement
<1>2. SumFunctionOnSet(g, S \cup {x}) = g[x] + SumFunctionOnSet(g, S)
  <2>1. (S \cup {x}) \ {x} = S /\ x \in S \cup {x} /\ \A y \in S \cup {x} : g[y] \in Nat
    OBVIOUS
  <2>2. SumFunctionOnSet(g, S \cup {x}) = g[x] + SumFunctionOnSet(g, (S \cup {x}) \ {x})
    BY <1>1, <2>1, SumAny
  <2> QED BY <2>1, <2>2
<1>3. SumFunctionOnSet(g, S) = SumFunctionOnSet(f, S)
  <2>1. SumFunctionOnSet(g, S) \in Nat /\ SumFunctionOnSet(f, S) \in Nat
    BY SumType
  <2>2. \A y \in S : g[y] <= f[y] /\ f[y] <= g[y] /\ g[y] \in Nat
    OBVIOUS
  <2>3. SumFunctionOnSet(g, S) <= SumFunctionOnSet(f, S)
    BY <2>2, SumAtMost
  <2>4. SumFunctionOnSet(f, S) <= SumFunctionOnSet(g, S)
    BY <2>2, SumAtMost
  <2> QED BY <2>1, <2>3, <2>4
<1>4. SumFunctionOnSet(f, S) \in Nat
  BY SumType
<1> QED BY <1>2, <1>3, <1>4 DEF SumFunction

\* One event, new or not, keeps the tables right.
LEMMA UpsertRight ==
  ASSUME NEW s \in RightTables, NEW e \in Event
  PROVE  /\ Upserted(s, e) \in RightTables
         /\ s.stored \subseteq Upserted(s, e).stored
         /\ Upserted(s, e).stored \subseteq s.stored \cup {e}
         /\ e.id \in {f.id : f \in Upserted(s, e).stored}
<1>1. CASE e.id \in {f.id : f \in s.stored}
  BY <1>1 DEF Upserted
<1>2. CASE e.id \notin {f.id : f \in s.stored}
  <2> DEFINE a == e.agent
             row == s.sessions[a]
             new == IF row = NoSession THEN Fresh(e) ELSE Merged(row, e)
             t == [stored |-> s.stored \cup {e}, sessions |-> [s.sessions EXCEPT ![a] = new]]
  <2>1. Upserted(s, e) = t
    BY <1>2 DEF Upserted
  <2>2. /\ e \notin s.stored /\ s \in Tables /\ Right(s) /\ a \in Agent
        /\ row \in Session \cup {NoSession}
    BY <1>2, EventFields DEF RightTables, Tables
  <2>3. new \in Session
    <3>1. Fresh(e) \in Session
      BY EventFields DEF Fresh, Session
    <3>2. row \in Session => Merged(row, e) \in Session
      BY EventFields DEF Merged, Coalesce, Session
    <3> QED BY <2>2, <3>1, <3>2
  <2>4. t \in Tables
    BY <2>2, <2>3 DEF Tables
  <2>5. /\ Part(t, a) = Part(s, a) \cup {e} /\ e \notin Part(s, a)
        /\ \A b \in Agent \ {a} : Part(t, b) = Part(s, b) /\ t.sessions[b] = s.sessions[b]
        /\ t.sessions[a] = new
    BY <2>2 DEF Part, Tables
  <2> HIDE DEF t, new
  <2>6. IsFiniteSet(t.stored) /\ IsFiniteSet(Part(s, a)) /\ Part(s, a) \subseteq Event
    <3>1. IsFiniteSet(s.stored) /\ Part(s, a) \subseteq s.stored /\ s.stored \subseteq Event
      BY <2>2 DEF Right, Part, Tables
    <3> QED BY <3>1, FS_Subset, FS_AddElement DEF t
  <2>7. SUFFICES Counted(t, a) /\ Decided(t, a)
    <3>1. ASSUME Counted(t, a), Decided(t, a), NEW b \in Agent
          PROVE  \/ Part(t, b) = {} /\ t.sessions[b] = NoSession
                 \/ t.sessions[b] \in Session /\ Counted(t, b) /\ Decided(t, b)
      <4>1. CASE b = a
        BY <2>3, <2>5, <3>1, <4>1
      <4>2. CASE b # a
        <5>1. Part(t, b) = Part(s, b) /\ t.sessions[b] = s.sessions[b]
          BY <2>5, <4>2
        <5> QED BY <2>2, <5>1 DEF Right, Counted, Decided
      <4> QED BY <4>1, <4>2
    <3>2. /\ s.stored \subseteq t.stored /\ t.stored \subseteq s.stored \cup {e}
          /\ e.id \in {f.id : f \in t.stored}
      BY DEF t
    <3> QED BY <2>1, <2>4, <2>6, <3>1, <3>2 DEF Right, RightTables
  <2> DEFINE old == Part(s, a)
             now == Part(t, a)
             tools(S) == SumFunction([f \in S |-> f.tool])
             mcps(S) == SumFunction([f \in S |-> f.mcp])
  <2>8. /\ now = old \cup {e} /\ e \notin old /\ IsFiniteSet(old) /\ old \subseteq Event
        /\ t.sessions[a] = new
    BY <2>5, <2>6
  <2> HIDE DEF old, now
  <2>9. Cardinality(now) = Cardinality(old) + 1 /\ Cardinality(old) \in Nat
    BY <2>8, FS_AddElement, FS_CardinalityType
  <2>10. /\ tools(now) = tools(old) + e.tool /\ tools(old) \in Nat
         /\ mcps(now) = mcps(old) + e.mcp /\ mcps(old) \in Nat
    <3>1. \A f \in now : f.tool \in Nat /\ f.mcp \in Nat
      BY <2>8, EventFields
    <3>2. ASSUME NEW f, NEW g, \A x \in old : f[x] \in Nat /\ g[x] = f[x], g[e] \in Nat,
                 DOMAIN f = old, DOMAIN g = now
          PROVE  SumFunction(g) = SumFunction(f) + g[e] /\ SumFunction(f) \in Nat
      BY <2>8, <3>2, SumOneMore
    <3> DEFINE tf == [x \in old |-> x.tool]
               tg == [x \in now |-> x.tool]
               mf == [x \in old |-> x.mcp]
               mg == [x \in now |-> x.mcp]
    <3>3. /\ DOMAIN tf = old /\ DOMAIN tg = now /\ \A x \in old : tf[x] \in Nat /\ tg[x] = tf[x]
          /\ tg[e] = e.tool /\ tg[e] \in Nat
      BY <2>8, <3>1
    <3>4. /\ DOMAIN mf = old /\ DOMAIN mg = now /\ \A x \in old : mf[x] \in Nat /\ mg[x] = mf[x]
          /\ mg[e] = e.mcp /\ mg[e] \in Nat
      BY <2>8, <3>1
    <3>5. SumFunction(tg) = SumFunction(tf) + e.tool /\ SumFunction(tf) \in Nat
      <4> HIDE DEF tf, tg
      <4>1. SumFunction(tg) = SumFunction(tf) + tg[e] /\ SumFunction(tf) \in Nat
        BY <3>2, <3>3
      <4> QED BY <3>3, <4>1
    <3>6. SumFunction(mg) = SumFunction(mf) + e.mcp /\ SumFunction(mf) \in Nat
      <4> HIDE DEF mf, mg
      <4>1. SumFunction(mg) = SumFunction(mf) + mg[e] /\ SumFunction(mf) \in Nat
        BY <3>2, <3>4
      <4> QED BY <3>4, <4>1
    <3> QED BY <3>5, <3>6
  <2> HIDE DEF tools, mcps
  <2>11. SUFFICES
           /\ new.count = Cardinality(now) /\ new.tools = tools(now) /\ new.mcps = mcps(now)
           /\ \E f \in now : new.first = f.obs
           /\ \A f \in now : new.first <= f.obs
           /\ \E d \in now :
                /\ \A f \in now : f.obs <= d.obs
                /\ new.by = d.id /\ new.last = d.obs
                /\ d.model # None => new.model = d.model
                /\ d.workspace # None => new.workspace = d.workspace
    BY <2>8 DEF Counted, Decided, now, tools, mcps
  <2>12. CASE row = NoSession
    <3>1. old = {} /\ new = Fresh(e)
      BY <2>2, <2>12, NoSessionApart DEF Right, new, old
    <3>2. tools(old) = 0 /\ mcps(old) = 0 /\ Cardinality(old) = 0
      BY <3>1, SumEmpty, FS_EmptySet DEF SumFunction, tools, mcps
    <3>3. /\ new.count = 1 /\ new.tools = e.tool /\ new.mcps = e.mcp /\ new.first = e.obs
          /\ new.by = e.id /\ new.last = e.obs /\ new.model = e.model
          /\ new.workspace = e.workspace /\ now = {e}
      BY <2>8, <3>1 DEF Fresh
    <3>4. e.obs \in Nat /\ e.tool \in Nat /\ e.mcp \in Nat
      BY EventFields
    <3>5. new.count = Cardinality(now) /\ new.tools = tools(now) /\ new.mcps = mcps(now)
      BY <2>9, <2>10, <3>2, <3>3, <3>4
    <3>6. e.obs <= e.obs
      BY <3>4
    <3> QED BY <3>3, <3>5, <3>6
  <2>13. CASE row # NoSession
    <3>1. row \in Session /\ new = Merged(row, e) /\ Counted(s, a) /\ Decided(s, a)
      BY <2>2, <2>13 DEF Right, new
    <3>2. /\ row.count = Cardinality(old) /\ row.tools = tools(old) /\ row.mcps = mcps(old)
          /\ \E f \in old : row.first = f.obs
          /\ \A f \in old : row.first <= f.obs
      BY <3>1 DEF Counted, old, tools, mcps
    <3>3. PICK d \in old :
            /\ \A f \in old : f.obs <= d.obs
            /\ row.by = d.id /\ row.last = d.obs
            /\ d.model # None => row.model = d.model
            /\ d.workspace # None => row.workspace = d.workspace
      BY <3>1 DEF Decided, old
    <3>4. row.first \in Nat /\ row.last \in Nat /\ e.obs \in Nat /\ \A f \in old : f.obs \in Nat
      BY <2>8, <3>1, EventFields DEF Session
    <3>5. /\ new.count = row.count + 1 /\ new.tools = row.tools + e.tool
          /\ new.mcps = row.mcps + e.mcp
          /\ new.first = IF e.obs < row.first THEN e.obs ELSE row.first
      BY <3>1 DEF Merged
    <3>6. (\E f \in now : new.first = f.obs) /\ \A f \in now : new.first <= f.obs
      BY <2>8, <3>2, <3>4, <3>5
    <3>7. CASE e.obs >= row.last
      <4>1. /\ new.by = e.id /\ new.last = e.obs
            /\ e.model # None => new.model = e.model
            /\ e.workspace # None => new.workspace = e.workspace
        BY <3>1, <3>7 DEF Merged, Coalesce
      <4>2. e \in now /\ \A f \in now : f.obs <= e.obs
        BY <2>8, <3>3, <3>4, <3>7
      <4> QED BY <2>9, <2>10, <3>2, <3>5, <3>6, <4>1, <4>2
    <3>8. CASE ~(e.obs >= row.last)
      <4>1. /\ new.by = row.by /\ new.last = row.last /\ new.model = row.model
            /\ row.workspace # None => new.workspace = row.workspace
        BY <3>1, <3>8 DEF Merged, Coalesce
      <4>2. d \in now /\ \A f \in now : f.obs <= d.obs
        BY <2>8, <3>3, <3>4, <3>8
      <4>3. /\ new.by = d.id /\ new.last = d.obs
            /\ d.model # None => new.model = d.model
            /\ d.workspace # None => new.workspace = d.workspace
        BY <3>3, <4>1
      <4> QED BY <2>9, <2>10, <3>2, <3>5, <3>6, <4>2, <4>3
    <3> QED BY <3>7, <3>8
  <2> QED BY <2>12, <2>13
<1> QED BY <1>1, <1>2

(* A batch keeps the tables right, stores nothing else, and afterwards every one
   of its events is stored, or another one with its id. *)
LEMMA BatchRight ==
  ASSUME NEW batch \in Seq(Event), IngestEvents(batch),
         [stored |-> stored, sessions |-> sessions] \in RightTables
  PROVE  /\ [stored |-> stored', sessions |-> sessions'] \in RightTables
         /\ stored \subseteq stored' /\ stored' \subseteq stored \cup ToSet(batch)
         /\ \A e \in ToSet(batch) : e.id \in {f.id : f \in stored'}
<1> DEFINE N == Len(batch)
           b == [stored |-> stored, sessions |-> sessions]
           X == {s \in RightTables : stored \subseteq s.stored /\ s.stored \subseteq stored \cup ToSet(batch)}
           Follows(f) == f = [n \in 0..N |-> IF n = 0 THEN b ELSE Upserted(f[n - 1], batch[n])]
           after == CHOOSE f : Follows(f)
<1>1. N \in Nat /\ b \in X /\ \A n \in 1..N : batch[n] \in Event /\ batch[n] \in ToSet(batch)
  BY DEF ToSet
<1>2. ASSUME NEW s \in X, NEW n \in 1..N
      PROVE  Upserted(s, batch[n]) \in X
  BY <1>1, UpsertRight
<1>3. Follows(after)
  <2> DEFINE g == [p \in X \X (1..N) |-> Upserted(p[1], batch[p[2]])]
  <2>1. g \in [X \X (1..N) -> X] /\ \A s \in X, n \in 1..N : g[<<s, n>>] = Upserted(s, batch[n])
    BY <1>2
  <2> HIDE DEF g, X, N, b
  <2>2. PICK f \in [0..N -> X] : Recurs(f, N, b, g)
    BY <1>1, <2>1, Recursion
  <2>3. \A n \in 1..N : f[n] = Upserted(f[n - 1], batch[n])
    <3>1. ASSUME NEW n \in 1..N PROVE f[n - 1] \in X
      <4>1. n - 1 \in 0..N
        BY <1>1
      <4> QED BY <2>2, <4>1
    <3> QED BY <2>1, <2>2, <3>1 DEF Recurs
  <2>4. \A n \in 0..N : f[n] = IF n = 0 THEN b ELSE Upserted(f[n - 1], batch[n])
    BY <1>1, <2>2, <2>3 DEF Recurs
  <2>5. f = [n \in 0..N |-> f[n]]
    BY <2>2
  <2>6. Follows(f)
    BY <2>4, <2>5
  <2> QED BY <2>6
<1>4. stored' = after[N].stored /\ sessions' = after[N].sessions
  BY DEF IngestEvents
<1> HIDE DEF after, X, b
<1> DEFINE Had(n) == \A i \in 1..n : batch[i].id \in {f.id : f \in after[n].stored}
           T == {n \in 0..N : after[n] \in X /\ Had(n)}
<1>5. 0 \in T
  BY <1>1, <1>3
<1>6. ASSUME NEW n \in 0..N, n \in T, n < N PROVE n + 1 \in T
  <2>1. n + 1 \in 0..N /\ n + 1 \in 1..N /\ n + 1 # 0 /\ n + 1 - 1 = n
    BY <1>1, <1>6
  <2>2. after[n + 1] = Upserted(after[n], batch[n + 1])
    BY <1>3, <2>1
  <2>3. after[n] \in X /\ Had(n)
    BY <1>6
  <2>4. after[n] \in RightTables /\ batch[n + 1] \in Event
    BY <1>1, <2>1, <2>3 DEF X
  <2>5. /\ after[n + 1] \in X
        /\ after[n].stored \subseteq after[n + 1].stored
        /\ batch[n + 1].id \in {f.id : f \in after[n + 1].stored}
    <3>1. Upserted(after[n], batch[n + 1]) \in X
      BY <1>2, <2>1, <2>3
    <3>2. /\ after[n].stored \subseteq Upserted(after[n], batch[n + 1]).stored
          /\ batch[n + 1].id \in {f.id : f \in Upserted(after[n], batch[n + 1]).stored}
      BY <2>4, UpsertRight
    <3> QED BY <2>2, <3>1, <3>2
  <2>6. ASSUME NEW i \in 1..(n + 1) PROVE batch[i].id \in {f.id : f \in after[n + 1].stored}
    <3>1. CASE i = n + 1
      BY <2>5, <3>1
    <3>2. CASE i # n + 1
      <4>1. i \in 1..n
        BY <3>2
      <4> QED BY <2>3, <2>5, <4>1
    <3> QED BY <3>1, <3>2
  <2> QED BY <2>1, <2>5, <2>6
<1>7. N \in T
  <2> HIDE DEF T
  <2>1. 0..N \subseteq T
    BY <1>1, <1>5, <1>6, SetInduction
  <2> QED BY <1>1, <2>1
<1>8. after[N] \in X /\ Had(N)
  BY <1>7
<1>9. [stored |-> stored', sessions |-> sessions'] = after[N]
  BY <1>4, <1>8 DEF X, RightTables, Tables
<1>10. \A e \in ToSet(batch) : \E i \in 1..N : e = batch[i]
  BY DEF ToSet
<1> QED BY <1>4, <1>8, <1>9, <1>10 DEF X

SessionsRight == [stored |-> stored, sessions |-> sessions] \in RightTables

LEMMA SessionsRightInit == SessionsInit => SessionsRight
<1> SUFFICES ASSUME SessionsInit PROVE SessionsRight
  OBVIOUS
<1> DEFINE s == [stored |-> stored, sessions |-> sessions]
<1>1. s.stored = {} /\ s.sessions = [a \in Agent |-> NoSession]
  BY DEF SessionsInit
<1>2. s \in Tables
  BY <1>1 DEF Tables
<1>3. IsFiniteSet(s.stored) /\ \A a \in Agent : Part(s, a) = {} /\ s.sessions[a] = NoSession
  BY <1>1, FS_EmptySet DEF Part
<1> HIDE DEF s
<1>4. Right(s)
  BY <1>3 DEF Right
<1> QED BY <1>2, <1>4 DEF RightTables, SessionsRight, s

(* What the properties of AgentSessions ask for. *)
LEMMA SessionsSound ==
  SessionsRight => SessionsTypeOK /\ SessionsCountEvents /\ LatestDecides
<1> SUFFICES ASSUME SessionsRight PROVE SessionsTypeOK /\ SessionsCountEvents /\ LatestDecides
  OBVIOUS
<1> DEFINE s == [stored |-> stored, sessions |-> sessions]
<1>1. SessionsTypeOK
  BY DEF SessionsRight, RightTables, Tables, SessionsTypeOK
<1>2. Right(s) /\ s.sessions = sessions /\ \A a : Part(s, a) = Of(a)
  BY DEF SessionsRight, RightTables, Part, Of
<1> HIDE DEF s
<1>3. ASSUME NEW a \in Agent PROVE sessions[a].count = Cardinality(Of(a))
  <2>1. CASE Part(s, a) = {} /\ s.sessions[a] = NoSession
    BY <1>2, <2>1, FS_EmptySet DEF NoSession
  <2> QED BY <1>2, <2>1 DEF Right, Counted
<1>4. ASSUME NEW a \in Agent, Of(a) # {}
      PROVE  Counted(s, a) /\ Decided(s, a)
  BY <1>2, <1>4 DEF Right
<1>5. ASSUME NEW a \in Agent, Of(a) # {}
      PROVE  sessions[a].first = Min({e.obs : e \in Of(a)})
  <2> DEFINE O == {e.obs : e \in Of(a)}
  <2>1. sessions[a].first \in O /\ \A y \in O : sessions[a].first <= y
    BY <1>2, <1>4, <1>5 DEF Counted
  <2>2. O \subseteq Nat
    BY <1>1, EventFields DEF Of, SessionsTypeOK
  <2> HIDE DEF O
  <2>3. Min(O) \in O /\ \A y \in O : Min(O) <= y
    BY <2>1 DEF Min
  <2>4. Min(O) <= sessions[a].first /\ sessions[a].first <= Min(O)
    BY <2>1, <2>3
  <2>5. Min(O) \in Nat /\ sessions[a].first \in Nat
    BY <2>1, <2>2, <2>3
  <2>6. sessions[a].first = Min(O)
    BY <2>4, <2>5
  <2> QED BY <2>6 DEF O
<1>6. SessionsCountEvents
  BY <1>2, <1>3, <1>4, <1>5 DEF SessionsCountEvents, Counted
<1>7. LatestDecides
  BY <1>2, <1>4 DEF LatestDecides, Decided
<1> QED BY <1>1, <1>6, <1>7

(***************************************************************************)
(* Files and batches.                                                      *)
(***************************************************************************)

LEMMA Marks ==
  /\ Torn \in Line /\ CutShort \in Line /\ Torn \notin Event /\ CutShort \notin Event
  /\ Torn # CutShort /\ Event \subseteq Line
<1>1. DOMAIN Torn = {"newline"} /\ DOMAIN CutShort = {"newline"}
  BY DEF Torn, CutShort
<1>2. \A e \in Event : "id" \in DOMAIN e
  BY EventAssumption
<1>3. Torn.newline = TRUE /\ CutShort.newline = FALSE
  BY DEF Torn, CutShort
<1> QED BY <1>1, <1>2, <1>3 DEF Line

LEMMA AppendSet ==
  ASSUME NEW S, NEW s \in Seq(S), NEW x \in S
  PROVE  Append(s, x) \in Seq(S) /\ ToSet(Append(s, x)) = ToSet(s) \cup {x}
<1>1. /\ Append(s, x) \in Seq(S) /\ Len(Append(s, x)) = Len(s) + 1 /\ Len(s) \in Nat
      /\ \A i \in 1..Len(s) : Append(s, x)[i] = s[i]
      /\ Append(s, x)[Len(s) + 1] = x
      /\ DOMAIN s = 1..Len(s) /\ DOMAIN Append(s, x) = 1..(Len(s) + 1)
  OBVIOUS
<1>2. 1..(Len(s) + 1) = 1..Len(s) \cup {Len(s) + 1}
  BY <1>1
<1> QED BY <1>1, <1>2 DEF ToSet

LEMMA SplitSet ==
  ASSUME NEW S, NEW s \in Seq(S), NEW n \in 0..Len(s)
  PROVE  /\ SubSeq(s, 1, n) \in Seq(S) /\ SubSeq(s, n + 1, Len(s)) \in Seq(S)
         /\ ToSet(s) = ToSet(SubSeq(s, 1, n)) \cup ToSet(SubSeq(s, n + 1, Len(s)))
<1> DEFINE a == SubSeq(s, 1, n)
           b == SubSeq(s, n + 1, Len(s))
<1>1. /\ a \in Seq(S) /\ b \in Seq(S) /\ Len(s) \in Nat
      /\ DOMAIN s = 1..Len(s) /\ DOMAIN a = 1..n /\ DOMAIN b = 1..(Len(s) - n)
      /\ \A i \in 1..n : a[i] = s[i]
      /\ \A i \in 1..(Len(s) - n) : b[i] = s[n + i]
  OBVIOUS
<1> HIDE DEF a, b
<1>2. ToSet(a) \cup ToSet(b) \subseteq ToSet(s)
  <2>1. \A i \in 1..n : i \in 1..Len(s)
    BY <1>1
  <2>2. \A i \in 1..(Len(s) - n) : n + i \in 1..Len(s)
    BY <1>1
  <2> QED BY <1>1, <2>1, <2>2 DEF ToSet
<1>3. ASSUME NEW i \in 1..Len(s) PROVE s[i] \in ToSet(a) \cup ToSet(b)
  <2>1. CASE i <= n
    BY <1>1, <2>1 DEF ToSet
  <2>2. CASE ~(i <= n)
    <3>1. i - n \in 1..(Len(s) - n) /\ n + (i - n) = i
      BY <1>1, <2>2
    <3>2. b[i - n] = s[i]
      BY <1>1, <3>1
    <3> QED BY <1>1, <3>1, <3>2 DEF ToSet
  <2> QED BY <2>1, <2>2
<1>4. ToSet(s) \subseteq ToSet(a) \cup ToSet(b)
  BY <1>1, <1>3 DEF ToSet
<1> QED BY <1>1, <1>2, <1>4 DEF a, b

(* read_events returns the events of the file, one per line at most. *)
LEMMA ReadsEvents ==
  ASSUME NEW lines \in Seq(Line)
  PROVE  /\ ReadEvents(lines) \in Seq(Event) /\ ToSet(ReadEvents(lines)) = Events(lines)
         /\ Len(ReadEvents(lines)) <= Len(lines)
<1> DEFINE N == Len(lines)
           X == Seq(Event)
           Take(r, n) == IF lines[n] \in Event THEN Append(r, lines[n]) ELSE r
           Follows(f) == f = [n \in 0..N |-> IF n = 0 THEN <<>> ELSE Take(f[n - 1], n)]
           read == CHOOSE f : Follows(f)
<1>1. N \in Nat /\ <<>> \in X /\ \A r \in X, n \in 1..N : Take(r, n) \in X
  OBVIOUS
<1>2. Follows(read)
  <2> DEFINE g == [p \in X \X (1..N) |-> Take(p[1], p[2])]
  <2>1. g \in [X \X (1..N) -> X] /\ \A r \in X, n \in 1..N : g[<<r, n>>] = Take(r, n)
    BY <1>1
  <2> HIDE DEF g, X, N, Take
  <2>2. PICK f \in [0..N -> X] : Recurs(f, N, <<>>, g)
    BY <1>1, <2>1, Recursion
  <2>3. \A n \in 1..N : f[n] = Take(f[n - 1], n)
    <3>1. ASSUME NEW n \in 1..N PROVE f[n - 1] \in X
      <4>1. n - 1 \in 0..N
        BY <1>1
      <4> QED BY <2>2, <4>1
    <3> QED BY <2>1, <2>2, <3>1 DEF Recurs
  <2>4. \A n \in 0..N : f[n] = IF n = 0 THEN <<>> ELSE Take(f[n - 1], n)
    BY <1>1, <2>2, <2>3 DEF Recurs
  <2>5. f = [n \in 0..N |-> f[n]]
    BY <2>2
  <2>6. Follows(f)
    BY <2>4, <2>5
  <2> QED BY <2>6
<1>3. ReadEvents(lines) = read[N]
  BY DEF ReadEvents
<1> HIDE DEF read
<1> DEFINE Upto(n) == {lines[i] : i \in 1..n} \cap Event
           T == {n \in 0..N : /\ read[n] \in Seq(Event) /\ ToSet(read[n]) = Upto(n)
                              /\ Len(read[n]) <= n}
<1>4. 0 \in T
  <2>1. read[0] = <<>> /\ 0 \in 0..N
    BY <1>1, <1>2
  <2>2. ToSet(<<>>) = {} /\ Upto(0) = {} /\ <<>> \in Seq(Event) /\ Len(<<>>) = 0
    BY DEF ToSet
  <2> HIDE DEF Upto
  <2>3. read[0] \in Seq(Event) /\ ToSet(read[0]) = Upto(0)
    BY <2>1, <2>2
  <2>4. Len(read[0]) <= 0
    BY <2>1, <2>2
  <2> QED BY <2>1, <2>3, <2>4
<1>5. ASSUME NEW n \in 0..N, n \in T, n < N PROVE n + 1 \in T
  <2>1. n + 1 \in 0..N /\ n + 1 \in 1..N /\ n + 1 # 0 /\ n + 1 - 1 = n
    BY <1>1, <1>5
  <2>2. read[n + 1] = Take(read[n], n + 1)
    <3> HIDE DEF N, Take
    <3> QED BY <1>2, <2>1
  <2>3. read[n] \in Seq(Event) /\ ToSet(read[n]) = Upto(n) /\ Len(read[n]) <= n
    BY <1>5
  <2>4. Upto(n + 1) = Upto(n) \cup ({lines[n + 1]} \cap Event)
    <3>1. 1..(n + 1) = 1..n \cup {n + 1}
      OBVIOUS
    <3> QED BY <3>1
  <2> HIDE DEF Upto
  <2>5. /\ read[n + 1] \in Seq(Event) /\ ToSet(read[n + 1]) = Upto(n + 1)
        /\ Len(read[n + 1]) <= n + 1
    <3>1. CASE lines[n + 1] \in Event
      <4>1. read[n + 1] = Append(read[n], lines[n + 1]) /\ Upto(n + 1) = Upto(n) \cup {lines[n + 1]}
        BY <2>2, <2>4, <3>1
      <4>2. PICK r \in Seq(Event), x \in Event : r = read[n] /\ x = lines[n + 1]
        BY <2>3, <3>1
      <4>3. Append(r, x) \in Seq(Event) /\ ToSet(Append(r, x)) = ToSet(r) \cup {x}
        BY AppendSet
      <4>4. Len(Append(r, x)) = Len(r) + 1 /\ Len(r) \in Nat
        OBVIOUS
      <4> QED BY <2>3, <4>1, <4>2, <4>3, <4>4
    <3>2. CASE lines[n + 1] \notin Event
      <4>1. read[n + 1] = read[n] /\ Upto(n + 1) = Upto(n)
        BY <2>2, <2>4, <3>2
      <4>2. Len(read[n]) \in Nat /\ Len(read[n]) <= n + 1
        BY <2>3
      <4> QED BY <2>3, <4>1, <4>2
    <3> QED BY <3>1, <3>2
  <2> QED BY <2>1, <2>5
<1>6. N \in T
  <2> HIDE DEF T
  <2>1. 0..N \subseteq T
    BY <1>1, <1>4, <1>5, SetInduction
  <2> QED BY <1>1, <2>1
<1>7. Upto(N) = Events(lines)
  BY DEF Events, ToSet
<1> QED BY <1>3, <1>6, <1>7

Dangling(lines) == lines # <<>> /\ Last(lines) = CutShort

(* What an append makes of the file's events and of its end. *)
LEMMA AppendedFile ==
  ASSUME NEW lines \in Seq(Line), NEW line \in Event \cup {CutShort}
  PROVE  /\ Appended(lines, line) \in Seq(Line)
         /\ Dangling(Appended(lines, line)) <=> line = CutShort
         /\ Events(Appended(lines, line)) =
              Events(lines) \cup (IF Dangling(lines) THEN {} ELSE {line} \cap Event)
<1>1. line \in Line
  BY Marks
<1>2. CASE ~Dangling(lines)
  <2>1. Appended(lines, line) = Append(lines, line)
    BY <1>2 DEF Appended, Dangling
  <2>2. Append(lines, line) \in Seq(Line) /\ ToSet(Append(lines, line)) = ToSet(lines) \cup {line}
    BY <1>1, AppendSet
  <2>3. Append(lines, line) # <<>> /\ Last(Append(lines, line)) = line
    BY <1>1 DEF Last
  <2> QED BY <1>2, <2>1, <2>2, <2>3 DEF Events, Dangling
<1>3. CASE Dangling(lines)
  <2> DEFINE end == IF line = CutShort THEN CutShort ELSE Torn
             front == SubSeq(lines, 1, Len(lines) - 1)
  <2>1. Appended(lines, line) = Append(front, end)
    BY <1>3 DEF Appended, Dangling, Front
  <2>2. Len(lines) \in Nat /\ Len(lines) # 0 /\ Len(lines) - 1 \in 0..Len(lines)
    BY <1>3 DEF Dangling
  <2>3. /\ front \in Seq(Line) /\ SubSeq(lines, Len(lines), Len(lines)) \in Seq(Line)
        /\ ToSet(lines) = ToSet(front) \cup ToSet(SubSeq(lines, Len(lines), Len(lines)))
    <3>1. Len(lines) - 1 + 1 = Len(lines)
      BY <2>2
    <3> QED BY <2>2, <3>1, SplitSet
  <2>4. ToSet(SubSeq(lines, Len(lines), Len(lines))) = {CutShort}
    <3>1. /\ DOMAIN SubSeq(lines, Len(lines), Len(lines)) = {1}
          /\ SubSeq(lines, Len(lines), Len(lines))[1] = lines[Len(lines)]
      BY <2>2
    <3> QED BY <1>3, <3>1 DEF ToSet, Dangling, Last
  <2>5. end \in Line /\ end \notin Event
    BY Marks
  <2> HIDE DEF front, end
  <2>6. Append(front, end) \in Seq(Line) /\ ToSet(Append(front, end)) = ToSet(front) \cup {end}
    BY <2>3, <2>5, AppendSet
  <2>7. Append(front, end) # <<>> /\ Last(Append(front, end)) = end
    BY <2>3, <2>5 DEF Last
  <2>8. end = CutShort <=> line = CutShort
    BY Marks DEF end
  <2>9. Events(Append(front, end)) = Events(lines)
    BY <2>3, <2>4, <2>5, <2>6, Marks DEF Events
  <2> QED BY <1>3, <2>1, <2>6, <2>7, <2>8, <2>9 DEF Dangling
<1> QED BY <1>2, <1>3

(***************************************************************************)
(* Type correctness.                                                       *)
(***************************************************************************)

LEMMA RequestApart == NoRequest \notin Request
<1>1. DOMAIN NoRequest = {"events"}
  BY DEF NoRequest
<1>2. \A r \in Request : "attempt" \in DOMAIN r
  BY DEF Request
<1> QED BY <1>1, <1>2

TypeInv == TypeOK /\ SessionsRight

LEMMA TypeInvInit == Init => TypeInv
<1> SUFFICES ASSUME Init PROVE TypeInv
  OBVIOUS
<1>1. SessionsRight /\ SessionsTypeOK
  BY SessionsRightInit, SessionsSound DEF Init
<1>2. 0 \in 0..MaxFailures
  BY SpoolAssumption
<1> QED BY <1>1, <1>2 DEF Init, TypeInv, TypeOK, NoFile

\* The part of TypeOK about the endpoint and the network.
EndpointType ==
    /\ spool \in Seq(Line) /\ pending \in Seq(Line)
    /\ uploads \in Uploader \cup {None}
    /\ todo \in [Uploader -> Seq(Event)]
    /\ waiting \in [Uploader -> Request \cup {NoRequest}]
    /\ inflight \subseteq Request
    /\ answered \subseteq {waiting[u] : u \in Uploader} \ {NoRequest}
    /\ failures \in 0..MaxFailures
    /\ \A u \in Uploader : u # uploads => todo[u] = <<>> /\ waiting[u] = NoRequest

LEMMA SplitType ==
  TypeOK <=> /\ SessionsTypeOK /\ EndpointType
             /\ accepted \subseteq Event /\ refused \subseteq Event /\ cut \subseteq accepted
BY DEF TypeOK, EndpointType

\* An answer is for the holder of the lock.
LEMMA AnswerHeld ==
  ASSUME EndpointType
  PROVE  answered \subseteq {waiting[uploads]} /\ (answered # {} => uploads \in Uploader)
BY DEF EndpointType

LEMMA EndpointTypeNext ==
  ASSUME EndpointType, Next
  PROVE  EndpointType'
<1> USE SpoolAssumption
<1>1. ASSUME NEW e \in Event, AppendEvent(e) \/ AppendShort(e)
      PROVE  EndpointType'
  <2>1. Appended(spool, e) \in Seq(Line) /\ Appended(spool, CutShort) \in Seq(Line)
    BY AppendedFile DEF EndpointType
  <2> QED BY <1>1, <2>1 DEF AppendEvent, AppendShort, EndpointType, agents, network
<1>2. ASSUME NEW e \in Event, Refuse(e)
      PROVE  EndpointType'
  BY <1>2 DEF Refuse, EndpointType, agents, network, files
<1>3. ASSUME NEW u \in Uploader, Claim(u)
      PROVE  EndpointType'
  <2>1. Claimed \in Seq(Line) /\ ReadEvents(Claimed) \in Seq(Event)
    BY ReadsEvents DEF EndpointType, Claimed
  <2>2. pending' \in Seq(Line) /\ spool' \in Seq(Line)
    BY <1>3, <2>1 DEF Claim, EndpointType, NoFile
  <2>3. CASE ReadEvents(Claimed) = <<>>
    BY <1>3, <2>2, <2>3 DEF Claim, EndpointType, network
  <2>4. CASE ReadEvents(Claimed) # <<>>
    BY <1>3, <2>1, <2>2, <2>4 DEF Claim, Free, EndpointType, network
  <2> QED BY <2>3, <2>4
<1>4. ASSUME NEW u \in Uploader, NEW n \in 1..BatchLimit, SendBatch(u, n)
      PROVE  EndpointType'
  <2>1. u = uploads /\ todo[u] \in Seq(Event) /\ n \in 0..Len(todo[u])
    BY <1>4 DEF SendBatch, EndpointType
  <2>2. SubSeq(todo[u], 1, n) \in Seq(Event) /\ SubSeq(todo[u], n + 1, Len(todo[u])) \in Seq(Event)
    BY <2>1, SplitSet
  <2> DEFINE request == [attempt |-> failures, events |-> SubSeq(todo[u], 1, n)]
  <2>3. request \in Request
    BY <2>2 DEF EndpointType, Request
  <2>4. /\ waiting' = [waiting EXCEPT ![u] = request]
        /\ inflight' = inflight \cup {request}
        /\ todo' = [todo EXCEPT ![u] = SubSeq(@, n + 1, Len(@))]
        /\ UNCHANGED <<files, uploads, answered, failures>>
    BY <1>4 DEF SendBatch
  <2>5. answered = {}
    BY <1>4, <2>1, AnswerHeld DEF SendBatch, EndpointType
  <2> HIDE DEF request
  <2> QED BY <2>1, <2>2, <2>3, <2>4, <2>5 DEF EndpointType, files
<1>5. ASSUME NEW u \in Uploader, Acknowledge(u)
      PROVE  EndpointType'
  <2>1. u = uploads /\ answered' = {}
    BY <1>5, AnswerHeld DEF Acknowledge, EndpointType
  <2>2. pending' \in Seq(Line)
    BY <1>5 DEF Acknowledge, EndpointType, NoFile
  <2> QED BY <1>5, <2>1, <2>2 DEF Acknowledge, EndpointType
<1>6. ASSUME NEW u \in Uploader, GiveUp(u)
      PROVE  EndpointType'
  <2>1. answered' = {}
    BY <1>6, AnswerHeld DEF GiveUp
  <2>2. failures' \in 0..MaxFailures
    BY <1>6 DEF GiveUp, EndpointType
  <2>3. <<>> \in Seq(Event)
    OBVIOUS
  <2> QED BY <1>6, <2>1, <2>2, <2>3 DEF GiveUp, EndpointType, files
<1>7. ASSUME NEW request \in inflight, Serve(request) \/ Lose(request)
      PROVE  EndpointType'
  <2>1. request # NoRequest
    BY RequestApart DEF EndpointType
  <2> QED BY <1>7, <2>1 DEF Serve, Lose, EndpointType, files, agents
<1> QED BY <1>1, <1>2, <1>3, <1>4, <1>5, <1>6, <1>7 DEF Next, Hook, Upload, Network

LEMMA ServeEffect ==
  ASSUME TypeInv, NEW request \in inflight, Serve(request)
  PROVE  /\ SessionsRight'
         /\ stored \subseteq stored' /\ stored' \subseteq stored \cup ToSet(request.events)
         /\ \A e \in ToSet(request.events) : e.id \in {f.id : f \in stored'}
<1>1. request.events \in Seq(Event) /\ IngestEvents(request.events)
  BY DEF Serve, TypeInv, TypeOK, Request
<1> QED BY <1>1, BatchRight DEF TypeInv, SessionsRight

LEMMA TypeInvNext == TypeInv /\ [Next]_vars => TypeInv'
<1> SUFFICES ASSUME TypeInv, [Next]_vars PROVE TypeInv'
  OBVIOUS
<1>1. CASE UNCHANGED vars
  BY <1>1 DEF TypeInv, TypeOK, SessionsTypeOK, SessionsRight, vars, tables, files, fates, agents, network
<1>2. CASE Next
  <2>1. EndpointType'
    BY <1>2, EndpointTypeNext, SplitType DEF TypeInv
  <2>2. SessionsRight'
    <3>1. CASE \E request \in inflight : Serve(request)
      BY <3>1, ServeEffect
    <3>2. CASE ~\E request \in inflight : Serve(request)
      <4>1. UNCHANGED tables
        BY <1>2, <3>2 DEF Next, Hook, Upload, Network, AppendEvent, AppendShort, Refuse,
                          Claim, SendBatch, Acknowledge, GiveUp, Lose
      <4> QED BY <4>1 DEF TypeInv, SessionsRight, tables
    <3> QED BY <3>1, <3>2
  <2>3. SessionsTypeOK'
    BY <2>2 DEF SessionsRight, RightTables, Tables, SessionsTypeOK
  <2>4. accepted' \subseteq Event /\ refused' \subseteq Event /\ cut' \subseteq accepted'
    BY <1>2 DEF TypeInv, TypeOK, Next, Hook, Upload, Network, AppendEvent, AppendShort, Refuse,
                Claim, SendBatch, Acknowledge, GiveUp, Serve, Lose, fates
  <2>5. TypeOK'
    BY <2>1, <2>3, <2>4 DEF TypeOK, EndpointType
  <2> QED BY <2>2, <2>5 DEF TypeInv
<1> QED BY <1>1, <1>2

\* Files, requests and tables keep their types, and only the holder of the
\* upload lock is in the middle of an upload.
THEOREM SpoolTypeCorrect == Spec => []TypeOK
<1>1. TypeInv => TypeOK
  BY DEF TypeInv
<1> QED BY <1>1, TypeInvInit, TypeInvNext, PTL DEF Spec

\* However events are batched, repeated and reordered, a session row is the sum
\* of its stored events.
THEOREM SessionsAreSums == Spec => []SessionsCountEvents
<1>1. TypeInv => SessionsCountEvents
  BY SessionsSound DEF TypeInv
<1> QED BY <1>1, TypeInvInit, TypeInvNext, PTL DEF Spec

\* A session shows what its latest observed event says, in whatever order the
\* events arrived.
THEOREM LatestEventDecides == Spec => []LatestDecides
<1>1. TypeInv => LatestDecides
  BY SessionsSound DEF TypeInv
<1> QED BY <1>1, TypeInvInit, TypeInvNext, PTL DEF Spec

(***************************************************************************)
(* Nothing else is lost.  While a file is sent, its events are stored, in  *)
(* the request that is awaited, or not yet sent; a file that ends in a     *)
(* line cut short may cost one more event than were lost so far.           *)
(***************************************************************************)
UniqueIds == \A e \in accepted, f \in accepted : e.id = f.id => e = f

\* Only accepted events are anywhere.
OnlyAccepted ==
  /\ Events(spool) \cup Events(pending) \cup stored \subseteq accepted
  /\ \A u \in Uploader : ToSet(todo[u]) \subseteq accepted
  /\ \A r \in inflight : ToSet(r.events) \subseteq accepted

\* Where the events of the file under way are.
UnderWay ==
  /\ \A r \in answered : ToSet(r.events) \subseteq stored
  /\ uploads # None => Events(pending) \subseteq stored \cup ToSet(todo[uploads])
                                              \cup ToSet(waiting[uploads].events)

Gone == accepted \ (Kept \cup cut)
Owed == IF Dangling(spool) THEN 1 ELSE 0
Costs ==
  /\ IsFiniteSet(accepted)
  /\ Cardinality(Gone) + Owed <= Cardinality(cut)

SpoolInv == TypeInv /\ UniqueIds /\ OnlyAccepted /\ UnderWay /\ Costs

LEMMA SpoolInvInit == Init => SpoolInv
<1> SUFFICES ASSUME Init PROVE SpoolInv
  OBVIOUS
<1>1. TypeInv
  BY TypeInvInit
<1>2. ToSet(<<>>) = {} /\ Events(<<>>) = {}
  BY DEF ToSet, Events
<1>3. UniqueIds /\ OnlyAccepted /\ UnderWay
  BY <1>2 DEF Init, SessionsInit, NoFile, UniqueIds, OnlyAccepted, UnderWay
<1>4. Gone = {} /\ Owed = 0
  BY DEF Init, Gone, Owed, Dangling
<1>5. Costs
  BY <1>4, FS_EmptySet DEF Init, Costs
<1> QED BY <1>1, <1>3, <1>5 DEF SpoolInv

(* The sets the costs are counted on are finite. *)
LEMMA CostsCounted ==
  ASSUME TypeInv, IsFiniteSet(accepted)
  PROVE  /\ IsFiniteSet(Gone) /\ Cardinality(Gone) \in Nat
         /\ IsFiniteSet(cut) /\ Cardinality(cut) \in Nat
<1>1. Gone \subseteq accepted /\ cut \subseteq accepted
  BY DEF Gone, TypeInv, TypeOK
<1> QED BY <1>1, FS_Subset, FS_CardinalityType

(* Costs do not rise when nothing kept is lost and the file's end is dropped or
   left. *)
LEMMA CostsKept ==
  ASSUME TypeInv, Costs, UNCHANGED <<accepted, cut>>,
         Gone' \subseteq Gone, Dangling(spool)' => Dangling(spool)
  PROVE  Costs'
<1>1. /\ IsFiniteSet(Gone) /\ Cardinality(Gone) \in Nat /\ Cardinality(cut) \in Nat
  BY CostsCounted DEF Costs
<1>2. Cardinality(Gone') <= Cardinality(Gone) /\ Cardinality(Gone') \in Nat
  BY <1>1, FS_Subset, FS_CardinalityType
<1>3. Owed' <= Owed /\ Owed \in Nat /\ Owed' \in Nat
  BY DEF Owed
<1>4. PICK g \in Nat, o \in Nat : g = Cardinality(Gone') /\ o = Owed'
  BY <1>2, <1>3
<1>5. g + o <= Cardinality(cut)
  BY <1>1, <1>2, <1>3, <1>4 DEF Costs
<1>6. Cardinality(Gone') + Owed' <= Cardinality(cut')
  BY <1>4, <1>5
<1> QED BY <1>6 DEF Costs

LEMMA AppendKeeps ==
  ASSUME SpoolInv, NEW e \in Event, AppendEvent(e) \/ AppendShort(e)
  PROVE  (UniqueIds /\ OnlyAccepted /\ UnderWay /\ Costs)'
<1> DEFINE line == IF AppendEvent(e) THEN e ELSE CutShort
<1>1. /\ accepted' = accepted \cup {e} /\ spool' = Appended(spool, line)
      /\ cut' = IF AppendEvent(e) THEN cut ELSE cut \cup {e}
      /\ UNCHANGED <<tables, pending, agents, network>>
      /\ e \notin accepted /\ \A f \in accepted : f.id # e.id
  BY DEF AppendEvent, AppendShort, Unused
<1>2. TypeInv /\ spool \in Seq(Line) /\ cut \subseteq accepted /\ IsFiniteSet(accepted)
  BY DEF SpoolInv, TypeInv, TypeOK, Costs
<1>3. /\ Dangling(spool') <=> ~AppendEvent(e)
      /\ Events(spool') = Events(spool) \cup (IF Dangling(spool) \/ ~AppendEvent(e) THEN {} ELSE {e})
  <2>1. line \in Event \cup {CutShort} /\ ({line} \cap Event = IF AppendEvent(e) THEN {e} ELSE {})
        /\ (line = CutShort <=> ~AppendEvent(e))
    BY Marks
  <2> HIDE DEF line
  <2> QED BY <1>1, <1>2, <2>1, AppendedFile
<1>4. UniqueIds'
  BY <1>1 DEF SpoolInv, UniqueIds
<1>5. OnlyAccepted'
  BY <1>1, <1>3 DEF SpoolInv, OnlyAccepted, tables, agents, network
<1>6. UnderWay'
  BY <1>1 DEF SpoolInv, UnderWay, tables, agents, network
<1> HIDE DEF line
<1>7. /\ IsFiniteSet(Gone) /\ Cardinality(Gone) \in Nat
      /\ IsFiniteSet(cut) /\ Cardinality(cut) \in Nat
  BY <1>2, CostsCounted
<1>8. e \notin cut /\ e \notin Gone
  BY <1>1, <1>2 DEF Gone
<1>9. Costs'
  <2>1. IsFiniteSet(accepted')
    BY <1>1, <1>2, FS_AddElement
  <2>2. Gone' = IF AppendEvent(e) /\ Dangling(spool) THEN Gone \cup {e} ELSE Gone
    <3>1. Kept' = Kept \cup (IF Dangling(spool) \/ ~AppendEvent(e) THEN {} ELSE {e})
      BY <1>1, <1>3 DEF Kept, Filed, tables
    <3>2. e \notin Kept
      BY <1>1 DEF SpoolInv, OnlyAccepted, Kept, Filed
    <3> QED BY <1>1, <1>8, <3>1, <3>2 DEF Gone
  <2>3. Cardinality(cut') = IF AppendEvent(e) THEN Cardinality(cut) ELSE Cardinality(cut) + 1
    BY <1>1, <1>7, <1>8, FS_AddElement
  <2>4. Cardinality(Gone') = IF AppendEvent(e) /\ Dangling(spool) THEN Cardinality(Gone) + 1
                             ELSE Cardinality(Gone)
    BY <1>7, <1>8, <2>2, FS_AddElement
  <2>5. Owed' = (IF AppendEvent(e) THEN 0 ELSE 1) /\ Owed = (IF Dangling(spool) THEN 1 ELSE 0)
    BY <1>3 DEF Owed, Dangling
  <2>6. PICK g \in Nat, o \in Nat, c \in Nat :
          g = Cardinality(Gone') /\ o = Owed' /\ c = Cardinality(cut')
    BY <1>7, <2>3, <2>4, <2>5
  <2>7. g + o <= c
    BY <1>7, <2>3, <2>4, <2>5, <2>6 DEF SpoolInv, Costs
  <2>8. Cardinality(Gone') + Owed' <= Cardinality(cut')
    BY <2>6, <2>7
  <2> QED BY <2>1, <2>8 DEF Costs
<1> QED BY <1>4, <1>5, <1>6, <1>9

LEMMA ClaimKeeps ==
  ASSUME SpoolInv, NEW u \in Uploader, Claim(u)
  PROVE  (UniqueIds /\ OnlyAccepted /\ UnderWay /\ Costs)'
<1> DEFINE valid == ReadEvents(Claimed)
<1>1. /\ TypeInv /\ TypeOK /\ spool \in Seq(Line) /\ pending \in Seq(Line)
      /\ todo \in [Uploader -> Seq(Event)]
      /\ uploads = None /\ \A v \in Uploader : todo[v] = <<>> /\ waiting[v] = NoRequest
  BY SpoolAssumption DEF SpoolInv, TypeInv, TypeOK, Claim, Free
<1>2. ToSet(valid) = Events(Claimed) /\ valid \in Seq(Event)
  BY <1>1, ReadsEvents DEF Claimed
<1> HIDE DEF valid
<1>3. ToSet(<<>>) = {} /\ Events(NoFile) = {} /\ Events(<<>>) = {} /\ ~Dangling(<<>>)
  BY DEF ToSet, Events, NoFile, Dangling
<1>4. /\ Events(spool') \cup Events(pending') = Events(spool) \cup Events(pending)
      /\ uploads' # None => Events(pending') = ToSet(valid) /\ uploads' = u /\ todo'[u] = valid
      /\ \A v \in Uploader : todo'[v] = <<>> \/ todo'[v] = valid
      /\ Dangling(spool') => Dangling(spool)
  <2>1. spool' = IF pending # NoFile THEN spool ELSE <<>>
    BY DEF Claim
  <2>2. CASE valid = <<>>
    <3>1. pending' = NoFile /\ UNCHANGED <<uploads, todo>> /\ Events(Claimed) = {}
      BY <1>2, <1>3, <2>2 DEF Claim, valid
    <3>2. CASE pending # NoFile
      BY <1>1, <1>3, <2>1, <3>1, <3>2 DEF Claimed
    <3>3. CASE pending = NoFile
      BY <1>1, <1>3, <2>1, <3>1, <3>3 DEF Claimed
    <3> QED BY <3>2, <3>3
  <2>3. CASE valid # <<>>
    <3>1. pending' = Claimed /\ uploads' = u /\ todo' = [todo EXCEPT ![u] = valid]
      BY <2>3 DEF Claim, valid
    <3>2. todo'[u] = valid /\ \A v \in Uploader : v # u => todo'[v] = <<>>
      BY <1>1, <3>1
    <3>3. Events(pending') = ToSet(valid)
      BY <1>2, <3>1
    <3>4. CASE pending # NoFile
      BY <1>1, <1>3, <2>1, <3>1, <3>2, <3>3, <3>4 DEF Claimed
    <3>5. CASE pending = NoFile
      BY <1>1, <1>3, <2>1, <3>1, <3>2, <3>3, <3>5 DEF Claimed
    <3> QED BY <3>4, <3>5
  <2> QED BY <2>2, <2>3
<1>5. UNCHANGED <<tables, fates, waiting, network, failures, cut>>
  BY DEF Claim
<1>6. UniqueIds'
  BY <1>5 DEF SpoolInv, UniqueIds, fates
<1>7. ToSet(valid) \subseteq accepted
  BY <1>2 DEF SpoolInv, OnlyAccepted, Claimed
<1>8. OnlyAccepted'
  BY <1>3, <1>4, <1>5, <1>7 DEF SpoolInv, OnlyAccepted, tables, fates, network
<1>9. UnderWay'
  BY <1>4, <1>5 DEF SpoolInv, UnderWay, tables, network
<1>10. Gone' = Gone
  BY <1>4, <1>5 DEF Gone, Kept, Filed, tables, fates
<1>11. Costs'
  BY <1>1, <1>4, <1>5, <1>10, CostsKept DEF SpoolInv, fates, Dangling
<1> QED BY <1>6, <1>8, <1>9, <1>11

LEMMA SendKeeps ==
  ASSUME SpoolInv, NEW u \in Uploader, NEW n \in 1..BatchLimit, SendBatch(u, n)
  PROVE  (UniqueIds /\ OnlyAccepted /\ UnderWay /\ Costs)'
<1> DEFINE now == SubSeq(todo[u], 1, n)
           later == SubSeq(todo[u], n + 1, Len(todo[u]))
           request == [attempt |-> failures, events |-> now]
<1>1. /\ TypeInv /\ TypeOK /\ todo[u] \in Seq(Event) /\ u = uploads /\ waiting[u] = NoRequest
      /\ todo \in [Uploader -> Seq(Event)] /\ n \in 0..Len(todo[u])
      /\ waiting \in [Uploader -> Request \cup {NoRequest}]
  BY SpoolAssumption DEF SpoolInv, TypeInv, TypeOK, SendBatch
<1>2. ToSet(todo[u]) = ToSet(now) \cup ToSet(later)
  BY <1>1, SplitSet
<1>3. /\ waiting' = [waiting EXCEPT ![u] = request]
      /\ inflight' = inflight \cup {request}
      /\ todo' = [todo EXCEPT ![u] = later]
      /\ UNCHANGED <<tables, files, fates, uploads, answered, failures, cut>>
  BY DEF SendBatch
<1>4. request.events = now
  OBVIOUS
<1> HIDE DEF now, later, request
<1>5. UniqueIds'
  BY <1>3 DEF SpoolInv, UniqueIds, fates
<1>6. OnlyAccepted'
  BY <1>1, <1>2, <1>3, <1>4 DEF SpoolInv, OnlyAccepted, tables, fates, files
<1>7. UnderWay'
  <2>1. ToSet(NoRequest.events) = {}
    BY DEF NoRequest, ToSet
  <2>2. waiting'[u] = request /\ todo'[u] = later
    BY <1>1, <1>3
  <2> QED BY <1>1, <1>2, <1>3, <1>4, <2>1, <2>2 DEF SpoolInv, UnderWay, tables, files
<1>8. Gone' = Gone /\ (Dangling(spool)' => Dangling(spool))
  BY <1>3 DEF Gone, Kept, Filed, Dangling, tables, fates, files
<1>9. Costs'
  BY <1>1, <1>3, <1>8, CostsKept DEF SpoolInv, fates
<1> QED BY <1>5, <1>6, <1>7, <1>9

LEMMA AcknowledgeKeeps ==
  ASSUME SpoolInv, NEW u \in Uploader, Acknowledge(u)
  PROVE  (UniqueIds /\ OnlyAccepted /\ UnderWay /\ Costs)'
<1>1. /\ TypeInv /\ TypeOK /\ u = uploads /\ u # None
      /\ waiting \in [Uploader -> Request \cup {NoRequest}]
  BY SpoolAssumption DEF SpoolInv, TypeInv, TypeOK, Acknowledge
<1>2. /\ ToSet(waiting[u].events) \subseteq stored
      /\ Events(pending) \subseteq stored \cup ToSet(todo[u])
  BY <1>1 DEF SpoolInv, UnderWay, Acknowledge
<1>3. /\ answered' = answered \ {waiting[u]}
      /\ waiting'[u] = NoRequest
      /\ UNCHANGED <<tables, spool, fates, todo, inflight, failures, cut>>
  BY <1>1 DEF Acknowledge
<1>4. ToSet(<<>>) = {} /\ Events(NoFile) = {}
  BY DEF ToSet, Events, NoFile
<1>5. \/ pending' = NoFile /\ uploads' = None /\ Events(pending) \subseteq stored
      \/ pending' = pending /\ uploads' = uploads
  BY <1>2, <1>4 DEF Acknowledge
<1>6. UniqueIds'
  BY <1>3 DEF SpoolInv, UniqueIds, fates
<1>7. OnlyAccepted'
  BY <1>3, <1>4, <1>5 DEF SpoolInv, OnlyAccepted, tables, fates
<1>8. UnderWay'
  BY <1>1, <1>2, <1>3, <1>5 DEF SpoolInv, UnderWay, tables
<1>9. Gone' = Gone /\ (Dangling(spool)' => Dangling(spool))
  BY <1>3, <1>4, <1>5 DEF Gone, Kept, Filed, Dangling, tables, fates
<1>10. Costs'
  BY <1>1, <1>3, <1>9, CostsKept DEF SpoolInv, fates
<1> QED BY <1>6, <1>7, <1>8, <1>10

LEMMA GiveUpKeeps ==
  ASSUME SpoolInv, NEW u \in Uploader, GiveUp(u)
  PROVE  (UniqueIds /\ OnlyAccepted /\ UnderWay /\ Costs)'
<1>1. TypeInv /\ TypeOK /\ todo \in [Uploader -> Seq(Event)] /\ ToSet(<<>>) = {}
  BY DEF SpoolInv, TypeInv, TypeOK, ToSet
<1>2. /\ uploads' = None /\ todo' = [todo EXCEPT ![u] = <<>>]
      /\ answered' \subseteq answered
      /\ UNCHANGED <<tables, files, fates, inflight, cut>>
  BY DEF GiveUp
<1>3. UniqueIds'
  BY <1>2 DEF SpoolInv, UniqueIds, fates
<1>4. OnlyAccepted'
  BY <1>1, <1>2 DEF SpoolInv, OnlyAccepted, tables, fates, files
<1>5. UnderWay'
  BY <1>2 DEF SpoolInv, UnderWay, tables
<1>6. Gone' = Gone /\ (Dangling(spool)' => Dangling(spool))
  BY <1>2 DEF Gone, Kept, Filed, Dangling, tables, fates, files
<1>7. Costs'
  BY <1>1, <1>2, <1>6, CostsKept DEF SpoolInv, fates
<1> QED BY <1>3, <1>4, <1>5, <1>7

LEMMA ServeKeeps ==
  ASSUME SpoolInv, NEW request \in inflight, Serve(request)
  PROVE  (UniqueIds /\ OnlyAccepted /\ UnderWay /\ Costs)'
<1>1. /\ stored \subseteq stored' /\ stored' \subseteq stored \cup ToSet(request.events)
      /\ \A e \in ToSet(request.events) : e.id \in {f.id : f \in stored'}
      /\ TypeInv
  BY ServeEffect DEF SpoolInv
<1>2. /\ inflight' = inflight \ {request}
      /\ answered' \subseteq answered \cup {request}
      /\ UNCHANGED <<files, fates, agents, failures, cut>>
  BY DEF Serve
<1>3. ToSet(request.events) \subseteq accepted /\ stored' \subseteq accepted
  BY <1>1 DEF SpoolInv, OnlyAccepted
\* With unique ids, an event whose id is stored is stored.
<1>4. ToSet(request.events) \subseteq stored'
  <2>1. ASSUME NEW e \in ToSet(request.events) PROVE e \in stored'
    <3>1. PICK f \in stored' : e.id = f.id
      BY <1>1
    <3>2. e \in accepted /\ f \in accepted
      BY <1>3
    <3>3. e = f
      BY <3>1, <3>2 DEF SpoolInv, UniqueIds
    <3> QED BY <3>3
  <2> QED BY <2>1
<1>5. UniqueIds'
  BY <1>2 DEF SpoolInv, UniqueIds, fates
<1>6. OnlyAccepted'
  BY <1>2, <1>3 DEF SpoolInv, OnlyAccepted, files, fates, agents
<1>7. UnderWay'
  BY <1>1, <1>2, <1>4 DEF SpoolInv, UnderWay, files, agents
<1>8. Gone' \subseteq Gone /\ (Dangling(spool)' => Dangling(spool))
  BY <1>1, <1>2 DEF Gone, Kept, Filed, Dangling, files, fates
<1>9. Costs'
  BY <1>1, <1>2, <1>8, CostsKept DEF SpoolInv, fates
<1> QED BY <1>5, <1>6, <1>7, <1>9

LEMMA SpoolInvNext == SpoolInv /\ [Next]_vars => SpoolInv'
<1> SUFFICES ASSUME SpoolInv, [Next]_vars
             PROVE  (UniqueIds /\ OnlyAccepted /\ UnderWay /\ Costs)'
  BY TypeInvNext DEF SpoolInv
<1>0. TypeInv
  BY DEF SpoolInv
<1>1. CASE UNCHANGED <<tables, files, accepted, cut, agents, answered>> /\ inflight' \subseteq inflight
  <2>1. UniqueIds' /\ OnlyAccepted' /\ UnderWay'
    BY <1>1 DEF SpoolInv, UniqueIds, OnlyAccepted, UnderWay, tables, files, agents
  <2>2. Gone' = Gone /\ (Dangling(spool)' => Dangling(spool))
    BY <1>1 DEF Gone, Kept, Filed, Dangling, tables, files
  <2>3. Costs'
    BY <1>0, <1>1, <2>2, CostsKept DEF SpoolInv
  <2> QED BY <2>1, <2>3
<1>2. ASSUME NEW e \in Event, Refuse(e)
      PROVE  (UniqueIds /\ OnlyAccepted /\ UnderWay /\ Costs)'
  BY <1>1, <1>2 DEF Refuse, network
<1>3. ASSUME NEW request \in inflight, Lose(request)
      PROVE  (UniqueIds /\ OnlyAccepted /\ UnderWay /\ Costs)'
  BY <1>1, <1>3 DEF Lose, fates
<1>4. CASE UNCHANGED vars
  BY <1>1, <1>4 DEF vars, fates, network
<1>5. CASE Next
  BY <1>2, <1>3, <1>5, AppendKeeps, ClaimKeeps, SendKeeps, AcknowledgeKeeps, GiveUpKeeps, ServeKeeps
     DEF Next, Hook, Upload, Network
<1> QED BY <1>4, <1>5

\* An event whose append raised no error is in a file or at the server, and a
\* write cut short costs that event and at most the one appended after it: for
\* every number of uploaders, events and failures.
THEOREM NothingElseIsLost == Spec => []NothingElseLost
<1>1. SpoolInv => NothingElseLost
  <2> SUFFICES ASSUME SpoolInv PROVE NothingElseLost
    OBVIOUS
  <2>1. Cardinality(Gone) \in Nat /\ Cardinality(cut) \in Nat
    BY CostsCounted DEF SpoolInv, Costs
  <2>2. Cardinality(Gone) + Owed <= Cardinality(cut) /\ Owed \in Nat
    BY DEF SpoolInv, Costs, Owed
  <2>3. Cardinality(Gone) <= Cardinality(cut)
    BY <2>1, <2>2
  <2> QED BY <2>3 DEF NothingElseLost, Gone
<1> QED BY <1>1, SpoolInvInit, SpoolInvNext, PTL DEF Spec

(***************************************************************************)
(* The refinement of EventDelivery.  No request brings the server an event *)
(* that is neither in a file nor stored, however late it is.               *)
(***************************************************************************)
Backed ==
  /\ \A u \in Uploader : ToSet(todo[u]) \subseteq Kept
  /\ \A r \in inflight : ToSet(r.events) \subseteq Kept

RecordInv == SpoolInv /\ Backed

LEMMA RecordInvInit == Init => RecordInv
<1>1. ToSet(<<>>) = {}
  BY DEF ToSet
<1> QED BY <1>1, SpoolInvInit DEF RecordInv, Backed, Init

(* How a step moves the events: one is appended, some are stored, or the file
   under way goes and all its events are stored. *)
Moves ==
  \/ \E e \in Event : e \notin Kept /\ Filed' = Filed \cup {e} /\ stored' = stored
  \/ \E S \in SUBSET Filed : Filed' = Filed /\ stored' = stored \cup S
  \/ \E S \in SUBSET (Filed \cap stored) : Filed' = Filed \ S /\ stored' = stored

(* Nothing that is kept is ever let go of. *)
LEMMA MovesKeep == Moves => Kept \subseteq Kept'
BY DEF Moves, Kept

LEMMA AppendMoves ==
  ASSUME RecordInv, NEW e \in Event, AppendEvent(e) \/ AppendShort(e)
  PROVE  Moves
<1> DEFINE line == IF AppendEvent(e) THEN e ELSE CutShort
<1>1. spool' = Appended(spool, line) /\ UNCHANGED <<tables, pending>> /\ e \notin accepted
  BY DEF AppendEvent, AppendShort, Unused
<1>2. /\ line \in Event \cup {CutShort} /\ ({line} \cap Event = IF AppendEvent(e) THEN {e} ELSE {})
      /\ spool \in Seq(Line)
  BY Marks DEF RecordInv, SpoolInv, TypeInv, TypeOK
<1>3. Events(spool') = Events(spool) \cup (IF Dangling(spool) THEN {} ELSE {line} \cap Event)
  <2> HIDE DEF line
  <2> QED BY <1>1, <1>2, AppendedFile
<1>4. e \notin Kept
  BY <1>1 DEF RecordInv, SpoolInv, OnlyAccepted, Kept, Filed
<1> HIDE DEF line
<1>5. Filed' = Filed \/ Filed' = Filed \cup {e}
  BY <1>1, <1>2, <1>3 DEF Filed
<1>6. stored' = stored /\ stored \cup {} = stored
  BY <1>1 DEF tables
<1> QED BY <1>4, <1>5, <1>6 DEF Moves

LEMMA ClaimMoves ==
  ASSUME RecordInv, NEW u \in Uploader, Claim(u)
  PROVE  Filed' = Filed /\ stored' = stored /\ \A v \in Uploader : ToSet(todo'[v]) \subseteq Kept'
<1> DEFINE valid == ReadEvents(Claimed)
<1>1. /\ spool \in Seq(Line) /\ pending \in Seq(Line)
      /\ todo \in [Uploader -> Seq(Event)]
      /\ \A v \in Uploader : todo[v] = <<>>
  BY SpoolAssumption DEF RecordInv, SpoolInv, TypeInv, TypeOK, Claim, Free
<1>2. ToSet(valid) = Events(Claimed)
  BY <1>1, ReadsEvents DEF Claimed
<1>3. ToSet(<<>>) = {} /\ Events(NoFile) = {} /\ Events(<<>>) = {}
  BY DEF ToSet, Events, NoFile
<1>4. stored' = stored
  BY DEF Claim, tables
<1>5. spool' = IF pending # NoFile THEN spool ELSE <<>>
  BY DEF Claim
<1>6. CASE valid = <<>>
  <2>1. pending' = NoFile /\ UNCHANGED todo
    BY <1>6 DEF Claim
  <2>2. Events(Claimed) = {}
    BY <1>2, <1>3, <1>6
  <2>3. Filed' = Filed
    BY <1>3, <1>5, <2>1, <2>2 DEF Filed, Claimed
  <2> QED BY <1>1, <1>3, <1>4, <2>1, <2>3
<1>7. CASE valid # <<>>
  <2>1. pending' = Claimed /\ todo' = [todo EXCEPT ![u] = valid]
    BY <1>7 DEF Claim
  <2> HIDE DEF valid
  <2>2. Filed' = Filed
    BY <1>3, <1>5, <2>1 DEF Filed, Claimed
  <2>3. Events(Claimed) \subseteq Filed
    BY DEF Filed, Claimed
  <2>4. ASSUME NEW v \in Uploader PROVE ToSet(todo'[v]) \subseteq Filed
    <3>1. todo'[v] = valid \/ todo'[v] = <<>>
      BY <1>1, <2>1
    <3> QED BY <1>2, <1>3, <2>3, <3>1
  <2> QED BY <1>4, <2>2, <2>4 DEF Kept
<1> QED BY <1>6, <1>7

LEMMA AcknowledgeMoves ==
  ASSUME RecordInv, NEW u \in Uploader, Acknowledge(u)
  PROVE  Moves
<1>1. u = uploads /\ u # None /\ todo \in [Uploader -> Seq(Event)]
  BY SpoolAssumption DEF RecordInv, SpoolInv, TypeInv, TypeOK, Acknowledge
<1>2. stored' = stored /\ spool' = spool
  BY DEF Acknowledge, tables
<1>3. CASE todo[u] = <<>>
  <2>1. ToSet(<<>>) = {} /\ Events(NoFile) = {} /\ pending' = NoFile
    BY <1>3 DEF ToSet, Events, NoFile, Acknowledge
  <2>2. ToSet(waiting[u].events) \subseteq stored
    BY DEF RecordInv, SpoolInv, UnderWay, Acknowledge
  <2>3. Events(pending) \subseteq stored
    BY <1>1, <1>3, <2>1, <2>2 DEF RecordInv, SpoolInv, UnderWay
  <2> DEFINE S == Filed \ Filed'
  <2>4. S \in SUBSET (Filed \cap stored) /\ Filed' = Filed \ S
    BY <1>2, <2>1, <2>3 DEF Filed
  <2> QED BY <1>2, <2>4 DEF Moves
<1>4. CASE todo[u] # <<>>
  <2>1. Filed' = Filed /\ stored \cup {} = stored
    BY <1>2, <1>4 DEF Acknowledge, Filed
  <2> QED BY <1>2, <2>1 DEF Moves
<1> QED BY <1>3, <1>4

LEMMA ServeMoves ==
  ASSUME RecordInv, NEW request \in inflight, Serve(request)
  PROVE  Moves
<1>1. stored \subseteq stored' /\ stored' \subseteq stored \cup ToSet(request.events)
  BY ServeEffect DEF RecordInv, SpoolInv
<1>2. ToSet(request.events) \subseteq Filed \cup stored
  BY DEF RecordInv, Backed, Kept
<1>3. Filed' = Filed
  BY DEF Serve, files, Filed
<1> DEFINE S == stored' \ stored
<1>4. S \in SUBSET Filed /\ stored' = stored \cup S
  BY <1>1, <1>2
<1> QED BY <1>3, <1>4 DEF Moves

LEMMA StepMoves == RecordInv /\ [Next]_vars => Moves
<1> SUFFICES ASSUME RecordInv, [Next]_vars PROVE Moves
  OBVIOUS
<1>1. CASE Filed' = Filed /\ stored' = stored
  <2>1. stored \cup {} = stored
    OBVIOUS
  <2> QED BY <1>1, <2>1 DEF Moves
<1>2. ASSUME UNCHANGED <<tables, files>> PROVE Filed' = Filed /\ stored' = stored
  BY <1>2 DEF Filed, tables, files
<1>3. ASSUME NEW e \in Event, Refuse(e) PROVE Moves
  BY <1>1, <1>2, <1>3 DEF Refuse
<1>4. ASSUME NEW u \in Uploader, GiveUp(u) PROVE Moves
  BY <1>1, <1>2, <1>4 DEF GiveUp
<1>5. ASSUME NEW u \in Uploader, NEW n \in 1..BatchLimit, SendBatch(u, n) PROVE Moves
  BY <1>1, <1>2, <1>5 DEF SendBatch
<1>6. ASSUME NEW request \in inflight, Lose(request) PROVE Moves
  BY <1>1, <1>2, <1>6 DEF Lose
<1>7. CASE UNCHANGED vars
  BY <1>1, <1>2, <1>7 DEF vars
<1>8. CASE Next
  BY <1>1, <1>3, <1>4, <1>5, <1>6, <1>8, AppendMoves, ClaimMoves, AcknowledgeMoves, ServeMoves
     DEF Next, Hook, Upload, Network
<1> QED BY <1>7, <1>8

LEMMA RecordInvNext == RecordInv /\ [Next]_vars => RecordInv'
<1> SUFFICES ASSUME RecordInv, [Next]_vars PROVE Backed'
  BY SpoolInvNext DEF RecordInv
<1>1. Kept \subseteq Kept'
  BY StepMoves, MovesKeep
<1>2. CASE UNCHANGED todo /\ inflight' \subseteq inflight
  BY <1>1, <1>2 DEF RecordInv, Backed
<1>3. ASSUME NEW u \in Uploader, Claim(u) PROVE Backed'
  BY <1>1, <1>3, ClaimMoves DEF RecordInv, Backed, Claim, network
<1>4. ASSUME NEW u \in Uploader, NEW n \in 1..BatchLimit, SendBatch(u, n) PROVE Backed'
  <2> DEFINE now == SubSeq(todo[u], 1, n)
             later == SubSeq(todo[u], n + 1, Len(todo[u]))
             request == [attempt |-> failures, events |-> now]
  <2>1. /\ todo[u] \in Seq(Event) /\ todo \in [Uploader -> Seq(Event)] /\ n \in 0..Len(todo[u])
    BY <1>4 DEF RecordInv, SpoolInv, TypeInv, TypeOK, SendBatch
  <2>2. ToSet(todo[u]) = ToSet(now) \cup ToSet(later)
    BY <2>1, SplitSet
  <2>3. /\ inflight' = inflight \cup {request} /\ todo' = [todo EXCEPT ![u] = later]
        /\ request.events = now
    BY <1>4 DEF SendBatch
  <2> HIDE DEF now, later, request
  <2> QED BY <1>1, <2>1, <2>2, <2>3 DEF RecordInv, Backed
<1>5. ASSUME NEW u \in Uploader, GiveUp(u) PROVE Backed'
  <2>1. ToSet(<<>>) = {} /\ todo \in [Uploader -> Seq(Event)]
    BY DEF ToSet, RecordInv, SpoolInv, TypeInv, TypeOK
  <2> QED BY <1>1, <1>5, <2>1 DEF RecordInv, Backed, GiveUp
<1>6. CASE UNCHANGED vars
  BY <1>2, <1>6 DEF vars, agents, network
<1>7. CASE Next
  BY <1>2, <1>3, <1>4, <1>5, <1>7
     DEF Next, Hook, Upload, Network, AppendEvent, AppendShort, Refuse, Acknowledge, Serve, Lose,
         agents, network
<1> QED BY <1>6, <1>7

\* Endpoint and server implement EventDelivery without ever abandoning an event: one
\* whose line is whole stays in the files until the server has stored it, for any
\* number of uploaders, requests and failures.
THEOREM SpoolImplementsDelivery == Spec => AtLeastOnce
<1>1. Init => Delivery!Init
  BY DEF Init, SessionsInit, NoFile, Filed, Events, ToSet, Delivery!Init
<1>2. Moves => [Delivery!Next]_(Delivery!vars)
  <2> SUFFICES ASSUME Moves PROVE [Delivery!Next]_(Delivery!vars)
    OBVIOUS
  <2>1. ASSUME NEW e \in Event, e \notin Kept, Filed' = Filed \cup {e}, stored' = stored
        PROVE  Delivery!Accept(e)
    BY <2>1 DEF Delivery!Accept, Delivery!Accepted, Kept
  <2>2. ASSUME NEW S \in SUBSET Filed, Filed' = Filed, stored' = stored \cup S
        PROVE  Delivery!Receive(S)
    BY <2>2 DEF Delivery!Receive, Delivery!Accepted
  <2>3. ASSUME NEW S \in SUBSET (Filed \cap stored), Filed' = Filed \ S, stored' = stored
        PROVE  Delivery!Confirm(S)
    BY <2>3 DEF Delivery!Confirm
  <2>4. Filed \subseteq Event
    BY DEF Filed, Events
  <2> QED BY <2>1, <2>2, <2>3, <2>4 DEF Moves, Delivery!Next
<1> QED BY <1>1, <1>2, RecordInvInit, RecordInvNext, StepMoves, PTL
    DEF Spec, AtLeastOnce, Delivery!Spec

(***************************************************************************)
(* How far the files are from being empty.  A line of a file, an event to  *)
(* send, a request and a wait each take a step or two of their own.        *)
(***************************************************************************)
WorkLeft ==
  4 * Len(spool) + Cardinality(inflight)
  + (IF uploads = None THEN 4 * Len(pending)
     ELSE 3 * Len(todo[uploads]) + (IF waiting[uploads] = NoRequest THEN 0 ELSE 1))

(* Whoever holds the upload lock has something to send or to wait for, and who
   waits for an answer has a request on its way or an answer. *)
NobodyStuck ==
  /\ uploads # None => todo[uploads] # <<>> \/ waiting[uploads] # NoRequest
  /\ \A u \in Uploader : waiting[u] # NoRequest => waiting[u] \in inflight \cup answered

WorkInv == TypeInv /\ NobodyStuck /\ IsFiniteSet(inflight)

LEMMA WorkInvInit == Init => WorkInv
BY TypeInvInit, FS_EmptySet DEF Init, WorkInv, NobodyStuck

LEMMA WorkInvNext == WorkInv /\ [Next]_vars => WorkInv'
<1> SUFFICES ASSUME WorkInv, [Next]_vars PROVE NobodyStuck' /\ IsFiniteSet(inflight)'
  BY TypeInvNext DEF WorkInv
<1>t. /\ EndpointType /\ NobodyStuck /\ IsFiniteSet(inflight)
  BY SplitType DEF WorkInv, TypeInv
<1>1. CASE UNCHANGED <<uploads, todo, waiting, inflight, answered>>
  BY <1>1, <1>t DEF NobodyStuck
<1>2. ASSUME NEW u \in Uploader, Claim(u) PROVE NobodyStuck' /\ IsFiniteSet(inflight)'
  <2>1. CASE ReadEvents(Claimed) = <<>>
    BY <1>1, <1>2, <2>1 DEF Claim, network
  <2>2. CASE ReadEvents(Claimed) # <<>>
    <3>1. /\ uploads' = u /\ todo'[u] # <<>> /\ UNCHANGED <<waiting, inflight, answered>>
      BY <1>2, <1>t, <2>2 DEF Claim, network, EndpointType
    <3> QED BY <1>t, <3>1 DEF NobodyStuck
  <2> QED BY <2>1, <2>2
<1>3. ASSUME NEW u \in Uploader, NEW n \in 1..BatchLimit, SendBatch(u, n)
      PROVE  NobodyStuck' /\ IsFiniteSet(inflight)'
  <2> DEFINE request == [attempt |-> failures, events |-> SubSeq(todo[u], 1, n)]
  <2>1. /\ u = uploads /\ todo[u] \in Seq(Event) /\ n \in 0..Len(todo[u])
    BY <1>3, <1>t DEF SendBatch, EndpointType
  <2>2. request \in Request
    <3>1. SubSeq(todo[u], 1, n) \in Seq(Event)
      BY <2>1, SplitSet
    <3> QED BY <1>t, <3>1 DEF EndpointType, Request
  <2>3. /\ waiting' = [waiting EXCEPT ![u] = request] /\ inflight' = inflight \cup {request}
        /\ UNCHANGED <<uploads, answered>>
    BY <1>3 DEF SendBatch
  <2> HIDE DEF request
  <2>4. IsFiniteSet(inflight)'
    BY <1>t, <2>3, FS_AddElement
  <2> QED BY <1>t, <2>1, <2>2, <2>3, <2>4, RequestApart DEF NobodyStuck, EndpointType
<1>4. ASSUME NEW u \in Uploader, Acknowledge(u) PROVE NobodyStuck' /\ IsFiniteSet(inflight)'
  <2>1. u = uploads
    BY <1>4, <1>t, AnswerHeld DEF Acknowledge, EndpointType
  <2>2. /\ waiting' = [waiting EXCEPT ![u] = NoRequest] /\ UNCHANGED <<todo, inflight>>
        /\ uploads' = None \/ (uploads' = u /\ todo[u] # <<>>)
    BY <1>4, <2>1 DEF Acknowledge
  <2>3. \A v \in Uploader : waiting'[v] = NoRequest
    BY <1>t, <2>1, <2>2 DEF EndpointType
  <2> QED BY <1>t, <2>2, <2>3 DEF NobodyStuck
<1>5. ASSUME NEW u \in Uploader, GiveUp(u) PROVE NobodyStuck' /\ IsFiniteSet(inflight)'
  <2>1. /\ uploads = u /\ uploads' = None /\ waiting' = [waiting EXCEPT ![u] = NoRequest]
        /\ UNCHANGED inflight
    BY <1>5 DEF GiveUp
  <2>2. \A v \in Uploader : waiting'[v] = NoRequest
    BY <1>t, <2>1 DEF EndpointType
  <2> QED BY <1>t, <2>1, <2>2 DEF NobodyStuck
<1>6. ASSUME NEW request \in inflight, Serve(request) \/ Lose(request)
      PROVE  NobodyStuck' /\ IsFiniteSet(inflight)'
  <2>1. IsFiniteSet(inflight)'
    BY <1>6, <1>t, FS_RemoveElement DEF Serve, Lose
  <2>2. \A v \in Uploader : waiting[v] # NoRequest => waiting[v] \in inflight' \cup answered'
    BY <1>6, <1>t DEF Serve, Lose, NobodyStuck
  <2> QED BY <1>6, <1>t, <2>1, <2>2 DEF Serve, Lose, agents, NobodyStuck
<1>7. CASE Hook
  BY <1>1, <1>7 DEF Hook, AppendEvent, AppendShort, Refuse, agents, network
<1>8. CASE UNCHANGED vars
  BY <1>1, <1>8 DEF vars, agents, network
<1> QED BY <1>2, <1>3, <1>4, <1>5, <1>6, <1>7, <1>8 DEF Next, Upload, Network

LEMMA WorkLeftIs ==
  ASSUME WorkInv
  PROVE  WorkLeft \in Nat /\ (WorkLeft = 0 => Filed = {})
<1>1. /\ Len(spool) \in Nat /\ Len(pending) \in Nat /\ uploads \in Uploader \cup {None}
      /\ spool \in Seq(Line) /\ pending \in Seq(Line) /\ NobodyStuck
      /\ \A u \in Uploader : todo[u] \in Seq(Event) /\ Len(todo[u]) \in Nat
  BY SplitType DEF WorkInv, TypeInv, EndpointType
<1>2. Cardinality(inflight) \in Nat
  BY FS_CardinalityType DEF WorkInv
<1>3. WorkLeft \in Nat
  <2>1. CASE uploads = None
    BY <1>1, <1>2, <2>1 DEF WorkLeft
  <2>2. CASE uploads # None
    <3>1. Len(todo[uploads]) \in Nat
      BY <1>1, <2>2
    <3>2. \/ WorkLeft = 4 * Len(spool) + Cardinality(inflight) + (3 * Len(todo[uploads]) + 0)
          \/ WorkLeft = 4 * Len(spool) + Cardinality(inflight) + (3 * Len(todo[uploads]) + 1)
      BY <2>2 DEF WorkLeft
    <3> QED BY <1>1, <1>2, <3>1, <3>2
  <2> QED BY <2>1, <2>2
<1>4. ASSUME WorkLeft = 0 PROVE Filed = {}
  <2>1. uploads = None
    <3> SUFFICES ASSUME uploads \in Uploader PROVE FALSE
      BY <1>1
    <3>1. uploads # None
      BY SpoolAssumption
    <3>2. Len(todo[uploads]) = 0 /\ waiting[uploads] = NoRequest
      <4>1. Len(todo[uploads]) \in Nat
        BY <1>1
      <4>2. CASE waiting[uploads] = NoRequest
        <5>1. WorkLeft = 4 * Len(spool) + Cardinality(inflight) + (3 * Len(todo[uploads]) + 0)
          BY <3>1, <4>2 DEF WorkLeft
        <5> QED BY <1>1, <1>2, <1>4, <4>1, <4>2, <5>1
      <4>3. CASE waiting[uploads] # NoRequest
        <5>1. WorkLeft = 4 * Len(spool) + Cardinality(inflight) + (3 * Len(todo[uploads]) + 1)
          BY <3>1, <4>3 DEF WorkLeft
        <5> QED BY <1>1, <1>2, <1>4, <4>1, <5>1
      <4> QED BY <4>2, <4>3
    <3>3. todo[uploads] = <<>>
      BY <1>1, <3>2
    <3> QED BY <1>1, <3>1, <3>2, <3>3 DEF NobodyStuck
  <2>2. Len(spool) = 0 /\ Len(pending) = 0
    BY <1>1, <1>2, <1>4, <2>1 DEF WorkLeft
  <2>3. spool = <<>> /\ pending = <<>>
    BY <1>1, <2>2
  <2> QED BY <2>3 DEF Filed, Events, ToSet
<1> QED BY <1>3, <1>4

\* What a batch moves from the list to the network: w lines, c requests, t and l events.
LEMMA BatchShrinks ==
  ASSUME NEW w \in Nat, NEW c \in Nat, NEW d \in Nat, NEW t \in Nat, NEW l \in Nat,
         d <= c + 1, l + 1 <= t
  PROVE  /\ 4 * w + d + (3 * l + 0) < 4 * w + c + (3 * t + 0)
         /\ 4 * w + d + (3 * l + 1) < 4 * w + c + (3 * t + 0)
OBVIOUS

LEMMA FlushApproaches ==
  ASSUME WorkInv, (\E u \in Uploader : Upload(u)) \/ Network
  PROVE  WorkLeft' < WorkLeft
<1>t. EndpointType /\ NobodyStuck /\ IsFiniteSet(inflight)
  BY SplitType DEF WorkInv, TypeInv
<1>1. /\ Len(spool) \in Nat /\ Len(pending) \in Nat
      /\ spool \in Seq(Line) /\ pending \in Seq(Line)
      /\ \A u \in Uploader : todo[u] \in Seq(Event) /\ Len(todo[u]) \in Nat
  BY <1>t DEF EndpointType
<1>s. Len(spool) \in Nat /\ Len(pending) \in Nat
  BY <1>1
<1>2. Cardinality(inflight) \in Nat
  BY <1>t, FS_CardinalityType
<1>3. None \notin Uploader
  BY SpoolAssumption
<1>4. ASSUME NEW u \in Uploader, Claim(u) PROVE WorkLeft' < WorkLeft
  <2> DEFINE valid == ReadEvents(Claimed)
  <2>1. /\ valid \in Seq(Event) /\ Len(valid) \in Nat /\ Len(valid) <= Len(Claimed)
    <3>1. Claimed \in Seq(Line)
      BY <1>1 DEF Claimed
    <3>2. valid \in Seq(Event) /\ Len(valid) <= Len(Claimed)
      BY <3>1, ReadsEvents
    <3> HIDE DEF valid
    <3> QED BY <3>2
  <2>2. /\ uploads = None /\ (pending # NoFile \/ spool # <<>>) /\ UNCHANGED <<waiting, inflight>>
        /\ spool' = IF pending # NoFile THEN spool ELSE <<>>
    BY <1>4 DEF Claim, Free, network
  <2>3. WorkLeft = 4 * Len(spool) + Cardinality(inflight) + 4 * Len(pending)
    BY <2>2 DEF WorkLeft
  <2>4. Len(spool') + Len(Claimed) <= Len(spool) + Len(pending) /\ Len(Claimed) >= 1
        /\ Len(spool') \in Nat /\ Len(Claimed) \in Nat
    BY <1>1, <2>2 DEF Claimed, NoFile
  <2>5. CASE valid = <<>>
    <3>1. pending' = NoFile /\ uploads' = None
      BY <1>4, <2>2, <2>5 DEF Claim
    <3>2. WorkLeft' = 4 * Len(spool') + Cardinality(inflight) + 4 * 0
      BY <2>2, <3>1 DEF WorkLeft, NoFile
    <3> QED BY <1>2, <1>s, <2>3, <2>4, <3>2
  <2>6. CASE valid # <<>>
    <3>1. uploads' = u /\ todo'[u] = valid /\ waiting'[u] = NoRequest
      BY <1>3, <1>4, <1>t, <2>2, <2>6 DEF Claim, EndpointType
    <3> HIDE DEF valid
    <3>2. WorkLeft' = 4 * Len(spool') + Cardinality(inflight) + (3 * Len(valid) + 0)
      BY <1>3, <2>2, <3>1 DEF WorkLeft
    <3>3. Len(valid) \in Nat /\ Len(valid) <= Len(Claimed)
      BY <2>1
    <3> QED BY <1>2, <1>s, <2>3, <2>4, <3>2, <3>3
  <2> QED BY <2>5, <2>6
<1>5. ASSUME NEW u \in Uploader, NEW n \in 1..BatchLimit, SendBatch(u, n)
      PROVE  WorkLeft' < WorkLeft
  <2> DEFINE request == [attempt |-> failures, events |-> SubSeq(todo[u], 1, n)]
             later == SubSeq(todo[u], n + 1, Len(todo[u]))
  <2>1. /\ u = uploads /\ todo[u] \in Seq(Event) /\ n \in 1..Len(todo[u]) /\ waiting[u] = NoRequest
    BY <1>5, <1>t, SpoolAssumption DEF SendBatch, EndpointType
  <2>2. Len(later) = Len(todo[u]) - n
    BY <2>1
  <2>3. /\ inflight' = inflight \cup {request} /\ todo'[u] = later
        /\ UNCHANGED <<uploads, spool>>
    BY <1>5, <1>t DEF SendBatch, EndpointType, files
  <2> HIDE DEF request, later
  <2>4. Cardinality(inflight') \in Nat /\ Cardinality(inflight') <= Cardinality(inflight) + 1
    <3>1. IsFiniteSet(inflight')
      BY <1>t, <2>3, FS_AddElement
    <3> QED BY <1>2, <1>t, <2>3, <3>1, FS_AddElement, FS_CardinalityType
  <2>5. WorkLeft = 4 * Len(spool) + Cardinality(inflight) + (3 * Len(todo[u]) + 0)
    BY <1>3, <2>1 DEF WorkLeft
  <2>6. \/ WorkLeft' = 4 * Len(spool) + Cardinality(inflight') + (3 * Len(later) + 0)
        \/ WorkLeft' = 4 * Len(spool) + Cardinality(inflight') + (3 * Len(later) + 1)
    BY <1>3, <2>1, <2>3 DEF WorkLeft
  <2>7. Len(todo[u]) \in Nat /\ n \in Nat /\ n >= 1 /\ n <= Len(todo[u])
    BY <1>1, <2>1
  <2>8. Len(later) \in Nat /\ Len(later) + 1 <= Len(todo[u])
    BY <2>2, <2>7
  <2>9. /\ 4 * Len(spool) + Cardinality(inflight') + (3 * Len(later) + 0)
           < 4 * Len(spool) + Cardinality(inflight) + (3 * Len(todo[u]) + 0)
        /\ 4 * Len(spool) + Cardinality(inflight') + (3 * Len(later) + 1)
           < 4 * Len(spool) + Cardinality(inflight) + (3 * Len(todo[u]) + 0)
    BY <1>2, <1>s, <2>4, <2>7, <2>8, BatchShrinks
  <2> QED BY <2>5, <2>6, <2>9
<1>6. ASSUME NEW u \in Uploader, Acknowledge(u) PROVE WorkLeft' < WorkLeft
  <2>1. u = uploads /\ waiting[u] # NoRequest
    BY <1>6, <1>t, AnswerHeld DEF Acknowledge, EndpointType
  <2>2. /\ waiting'[u] = NoRequest /\ UNCHANGED <<todo, inflight, spool>>
        /\ \/ uploads' = None /\ pending' = NoFile
           \/ uploads' = u
    BY <1>6, <1>t, <2>1 DEF Acknowledge, EndpointType
  <2>3. WorkLeft = 4 * Len(spool) + Cardinality(inflight) + (3 * Len(todo[u]) + 1)
    BY <1>3, <2>1 DEF WorkLeft
  <2>4. Len(todo[u]) \in Nat
    BY <1>1
  <2>5. CASE uploads' = None /\ pending' = NoFile
    <3>1. WorkLeft' = 4 * Len(spool) + Cardinality(inflight) + 4 * 0
      BY <2>2, <2>5 DEF WorkLeft, NoFile
    <3> QED BY <1>2, <1>s, <2>3, <2>4, <3>1
  <2>6. CASE uploads' = u
    <3>1. WorkLeft' = 4 * Len(spool) + Cardinality(inflight) + (3 * Len(todo[u]) + 0)
      BY <1>3, <2>2, <2>6 DEF WorkLeft
    <3> QED BY <1>2, <1>s, <2>3, <2>4, <3>1
  <2> QED BY <2>2, <2>5, <2>6
<1>7. ASSUME NEW request \in inflight, Serve(request) \/ Lose(request) PROVE WorkLeft' < WorkLeft
  <2>1. /\ inflight' = inflight \ {request}
        /\ UNCHANGED <<spool, pending, uploads, todo, waiting>>
    BY <1>7 DEF Serve, Lose, files, agents
  <2>2. Cardinality(inflight') = Cardinality(inflight) - 1
    BY <1>t, <2>1, FS_RemoveElement
  <2> DEFINE rest == IF uploads = None THEN 4 * Len(pending)
                     ELSE 3 * Len(todo[uploads]) + (IF waiting[uploads] = NoRequest THEN 0 ELSE 1)
  <2>3. rest \in Nat
    <3>1. CASE uploads = None
      BY <1>1, <3>1
    <3>2. CASE uploads # None
      <4>1. Len(todo[uploads]) \in Nat
        BY <1>1, <1>t, <3>2 DEF EndpointType
      <4>2. rest = 3 * Len(todo[uploads]) + 0 \/ rest = 3 * Len(todo[uploads]) + 1
        BY <3>2
      <4> HIDE DEF rest
      <4> QED BY <4>1, <4>2
    <3> QED BY <3>1, <3>2
  <2>4. WorkLeft = 4 * Len(spool) + Cardinality(inflight) + rest
    BY DEF WorkLeft
  <2>5. WorkLeft' = 4 * Len(spool) + Cardinality(inflight') + rest
    BY <2>1 DEF WorkLeft
  <2> HIDE DEF rest
  <2> QED BY <1>2, <1>s, <2>2, <2>3, <2>4, <2>5
<1> QED BY <1>4, <1>5, <1>6, <1>7 DEF Upload, Network

\* Every step of an uploader or of the network, a lost request included, leaves less to
\* do, nobody holds the upload lock for nothing or waits for an answer that cannot
\* come, and with nothing left to do the files hold no event.  Only a hook or a
\* failure adds work (flush_runtime_events).
THEOREM FlushingApproaches ==
  Spec => /\ [](WorkLeft \in Nat /\ (WorkLeft = 0 => Filed = {}) /\ NobodyStuck)
          /\ [][(\E u \in Uploader : Upload(u)) \/ Network => WorkLeft' < WorkLeft]_vars
<1> DEFINE Measured == WorkLeft \in Nat /\ (WorkLeft = 0 => Filed = {}) /\ NobodyStuck
           Nearer == (\E u \in Uploader : Upload(u)) \/ Network => WorkLeft' < WorkLeft
<1>1. WorkInv => Measured
  BY WorkLeftIs DEF WorkInv
<1>2. WorkInv => Nearer
  BY FlushApproaches
<1>3. Spec => []WorkInv
  BY WorkInvInit, WorkInvNext, PTL DEF Spec
<1>4. Spec => []Measured /\ [][Nearer]_vars
  <2> HIDE DEF Measured, Nearer
  <2> QED BY <1>1, <1>2, <1>3, PTL
<1> QED BY <1>4

=============================================================================
