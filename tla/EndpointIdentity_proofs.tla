------------------------ MODULE EndpointIdentity_proofs ------------------------
(***************************************************************************)
(* Proofs about EndpointIdentity for any number of runs of setup, of       *)
(* failures and of databases that lose devices.                            *)
(***************************************************************************)
EXTENDS EndpointIdentity, FiniteSetTheorems, TLAPS

LEMMA Bounds ==
  /\ MaxSetups \in Nat /\ MaxFailures \in Nat /\ MaxResets \in Nat /\ MaxIssued \in Nat \ {0}
BY IdentityAssumption DEF MaxIssued

LEMMA Configurations ==
  /\ Asking \in Config /\ Asking.code /\ Asking.token = Unknown
  /\ \A t \in Token \cup {Unknown} :
       Holding(t) \in Config /\ ~Holding(t).code /\ Holding(t).token = t
BY DEF Asking, Holding, Config

LEMMA Renames == tmp # {} => (CHOOSE c \in tmp : TRUE) \in tmp
OBVIOUS

LEMMA NoTemporary == Cardinality({}) <= 1
<1>1. Cardinality({}) = 0
  BY FS_EmptySet
<1> QED BY <1>1

LEMMA OneTemporary == ASSUME NEW c PROVE Cardinality({c}) <= 1
<1>1. Cardinality({c}) = 1
  BY FS_Singleton
<1> QED BY <1>1

(* No configuration, in a file or in memory, asks for an identity beside the
   one it has. *)
MemoryOK == \A p \in Process : config[p].code => config[p].token = Unknown

Typed == TypeOK /\ MemoryOK

PlacesOK == DOMAIN pc = Process /\ \A p \in Process : pc[p] \in Step[p]

LEMMA TypedInit == Init => Typed
<1> SUFFICES ASSUME Init PROVE Typed
  OBVIOUS
<1>1. PlacesOK
  BY DEF Init, PlacesOK, Process, Step
<1>2. Holding(Unknown) \in Config /\ ~Holding(Unknown).code
  BY Configurations
<1>3. /\ file \in Config /\ tmp \subseteq Config /\ Cardinality(tmp) <= 1
      /\ \A c \in {file} \cup tmp : c.code => c.token = Unknown
      /\ config \in [Process -> Config] /\ MemoryOK
  BY <1>2, NoTemporary DEF Init, MemoryOK
<1>4. /\ issued \in Token \cup {Unknown} /\ devices \subseteq 1..issued
      /\ round \in {"first", "send", "new"}
      /\ service \in {"absent", "defined", "loaded"}
      /\ setups \in 0..MaxSetups /\ failures \in 0..MaxFailures /\ resets \in 0..MaxResets
  BY Bounds DEF Init, Unknown
<1>5. forgot \in BOOLEAN
  BY Zenon DEF Init
<1> QED
  BY <1>1, <1>3, <1>4, <1>5 DEF Typed, TypeOK, PlacesOK

LEMMA Moves ==
  ASSUME PlacesOK, NEW p \in Process
  PROVE  \A from : \A to \in Step[p] :
           Move(p, from, to) =>
             PlacesOK' /\ pc[p] = from /\ pc'[p] = to
             /\ \A q \in Process : q # p => pc'[q] = pc[q]
BY DEF PlacesOK, Move

(* What the two-step replacement of agent.json does to the files. *)
LEMMA FilesTyped ==
  ASSUME Typed, NEW p \in Process
  PROVE  /\ \A from, to : WriteTemporary(p, from, to) =>
              /\ tmp' = {config[p]} /\ file' = file
              /\ tmp' \subseteq Config /\ Cardinality(tmp') <= 1
              /\ \A c \in {file'} \cup tmp' : c.code => c.token = Unknown
         /\ \A from, to, broken : Replace(p, from, to, broken) =>
              /\ tmp' = {} /\ (file' = file \/ file' \in tmp)
              /\ file' \in Config /\ tmp' \subseteq Config /\ Cardinality(tmp') <= 1
              /\ \A c \in {file'} \cup tmp' : c.code => c.token = Unknown
<1>1. config[p] \in Config /\ (config[p].code => config[p].token = Unknown)
  BY DEF Typed, TypeOK, MemoryOK
<1>2. ASSUME NEW from, NEW to, WriteTemporary(p, from, to)
      PROVE  /\ tmp' = {config[p]} /\ file' = file
             /\ tmp' \subseteq Config /\ Cardinality(tmp') <= 1
             /\ \A c \in {file'} \cup tmp' : c.code => c.token = Unknown
  BY <1>1, <1>2, OneTemporary DEF WriteTemporary, Typed, TypeOK
<1>3. ASSUME NEW from, NEW to, NEW broken, Replace(p, from, to, broken)
      PROVE  /\ tmp' = {} /\ (file' = file \/ file' \in tmp)
             /\ file' \in Config /\ tmp' \subseteq Config /\ Cardinality(tmp') <= 1
             /\ \A c \in {file'} \cup tmp' : c.code => c.token = Unknown
  <2>1. tmp' = {} /\ (file' = file \/ file' \in tmp)
    BY <1>3, Renames DEF Replace
  <2> QED BY <2>1, NoTemporary DEF Typed, TypeOK
<1> QED BY <1>2, <1>3

LEMMA PlacesNext ==
  ASSUME PlacesOK, [Next]_vars
  PROVE  PlacesOK'
<1>1. /\ "setup" \in Process /\ "agent" \in Process /\ Process = {"setup", "agent"}
      /\ Step["setup"] = {"off", "serve", "write", "replace", "client", "enroll", "save",
                          "saved", "check", "report", "restart", "done", "kept"}
      /\ Step["agent"] = {"off", "enroll", "save", "saved", "report"}
  BY DEF Process, Step
<1> DEFINE at(p) == \A to \in Step[p] : pc' = [pc EXCEPT ![p] = to] => PlacesOK'
<1>2. \A p \in Process : at(p)
  BY DEF PlacesOK
<1>3. \A p \in Process : \A from : \A to \in Step[p] : Move(p, from, to) => PlacesOK'
  BY <1>2 DEF Move
<1>4. ASSUME pc' = [p \in Process |-> "off"] PROVE PlacesOK'
  BY <1>1, <1>4 DEF PlacesOK
<1>5. ASSUME pc' = [setup |-> "write", agent |-> "off"] PROVE PlacesOK'
  BY <1>1, <1>5 DEF PlacesOK
<1>6. ASSUME pc' = pc PROVE PlacesOK'
  BY <1>6 DEF PlacesOK
<1>7. ASSUME Setup PROVE PlacesOK'
  <2>1. CASE BeginSetup
    BY <1>1, <1>2, <2>1 DEF BeginSetup
  <2>2. CASE Serve
    BY <1>1, <1>3, <1>5, <2>2 DEF Serve
  <2>3. CASE WriteConfig \/ SaveIdentity
    BY <1>1, <1>3, <2>3 DEF WriteConfig, SaveIdentity, WriteTemporary, Replace
  <2>4. CASE LoadClient \/ Check \/ Accepted \/ Rejected
    BY <1>1, <1>3, <2>4 DEF LoadClient, Check, Accepted, Rejected
  <2>5. CASE Enroll("setup") \/ EnrollLost("setup")
    BY <1>1, <1>3, <2>5 DEF Enroll, EnrollLost
  <2>6. CASE RestartAgent
    BY <1>1, <2>6 DEF RestartAgent, Waking, PlacesOK
  <2>7. CASE KeepAgent
    BY <1>1, <1>3, <2>7 DEF KeepAgent
  <2>8. CASE SetupFails
    BY <1>1, <1>2, <1>4, <2>8 DEF SetupFails
  <2> QED BY <1>7, <2>1, <2>2, <2>3, <2>4, <2>5, <2>6, <2>7, <2>8 DEF Setup
<1>8. ASSUME Agent PROVE PlacesOK'
  <2>1. CASE StartAgent
    BY <1>1, <1>3, <2>1 DEF StartAgent, Waking
  <2>2. CASE Enroll("agent") \/ EnrollLost("agent")
    BY <1>1, <1>3, <2>2 DEF Enroll, EnrollLost
  <2>3. CASE SaveOwn
    BY <1>1, <1>3, <2>3 DEF SaveOwn, WriteTemporary, Replace
  <2>4. CASE AgentDies
    BY <1>1, <1>2, <2>4 DEF AgentDies
  <2> QED BY <1>8, <2>1, <2>2, <2>3, <2>4 DEF Agent
<1>9. ASSUME Reboot PROVE PlacesOK'
  BY <1>4, <1>9 DEF Reboot
<1>10. ASSUME Forget \/ UNCHANGED vars PROVE PlacesOK'
  BY <1>6, <1>10 DEF Forget, vars
<1> QED BY <1>7, <1>8, <1>9, <1>10 DEF Next

(* The rest of the state: files, what the processes have in memory, counters. *)
FilesOK ==
  /\ file \in Config /\ tmp \subseteq Config /\ Cardinality(tmp) <= 1
  /\ \A c \in {file} \cup tmp : c.code => c.token = Unknown
CountsOK ==
  /\ issued \in Token \cup {Unknown} /\ devices \subseteq 1..issued
  /\ round \in {"first", "send", "new"}
  /\ service \in {"absent", "defined", "loaded"} /\ forgot \in BOOLEAN
  /\ setups \in 0..MaxSetups /\ failures \in 0..MaxFailures /\ resets \in 0..MaxResets

LEMMA TypedParts ==
  Typed <=> /\ PlacesOK /\ FilesOK /\ CountsOK
            /\ config \in [Process -> Config] /\ MemoryOK
BY DEF Typed, TypeOK, PlacesOK, FilesOK, CountsOK

LEMMA FilesNext ==
  ASSUME Typed, [Next]_vars
  PROVE  FilesOK'
<1>1. ASSUME UNCHANGED files PROVE FilesOK'
  BY <1>1, TypedParts DEF files, FilesOK
<1>2. ASSUME NEW p \in Process, NEW from, NEW to, WriteTemporary(p, from, to) PROVE FilesOK'
  <2>1. file' = file /\ file \in Config
    BY <1>2 DEF WriteTemporary, Typed, TypeOK
  <2> QED BY <1>2, <2>1, FilesTyped DEF FilesOK
<1>3. ASSUME NEW p \in Process, NEW from, NEW to, NEW broken, Replace(p, from, to, broken)
      PROVE  FilesOK'
  BY <1>3, FilesTyped DEF FilesOK
<1>4. CASE WriteConfig \/ SaveIdentity \/ SaveOwn
  BY <1>2, <1>3, <1>4 DEF WriteConfig, SaveIdentity, SaveOwn, Process
<1>5. CASE Setup /\ ~(WriteConfig \/ SaveIdentity)
  BY <1>1, <1>5
     DEF Setup, BeginSetup, Serve, LoadClient, Enroll, EnrollLost, Check, Accepted, Rejected,
         RestartAgent, KeepAgent, SetupFails
<1>6. CASE Agent /\ ~SaveOwn
  BY <1>1, <1>6 DEF Agent, StartAgent, Enroll, EnrollLost, AgentDies
<1>7. CASE Reboot \/ Forget \/ UNCHANGED vars
  BY <1>1, <1>7 DEF Reboot, Forget, vars, files
<1> QED BY <1>4, <1>5, <1>6, <1>7 DEF Next

LEMMA MemoryNext ==
  ASSUME Typed, [Next]_vars
  PROVE  config' \in [Process -> Config] /\ MemoryOK'
<1> DEFINE Single(c) == c \in Config /\ (c.code => c.token = Unknown)
           Good == config' \in [Process -> Config] /\ MemoryOK'
<1>1. /\ \A p \in Process : Single(config[p])
      /\ Single(file) /\ config \in [Process -> Config]
      /\ "setup" \in Process /\ "agent" \in Process
  BY TypedParts DEF FilesOK, MemoryOK, Process
<1>2. Single(Asking) /\ \A t \in Token \cup {Unknown} : Single(Holding(t))
  BY Configurations
<1>3. \A p \in Process : \A c : Single(c) /\ config' = [config EXCEPT ![p] = c] => Good
  BY <1>1 DEF MemoryOK
<1>4. ASSUME UNCHANGED config PROVE Good
  BY <1>1, <1>4 DEF MemoryOK
<1> SUFFICES Good
  OBVIOUS
<1> HIDE DEF Good, Single
<1>5. CASE BeginSetup \/ LoadClient \/ Check \/ StartAgent
  BY <1>1, <1>3, <1>5 DEF BeginSetup, LoadClient, Check, StartAgent, Load
<1>6. CASE Serve
  <2>1. Single(Migrated(config["setup"]))
    <3>1. config["setup"].token \in Token \cup {Unknown}
      BY <1>1 DEF Config
    <3> QED BY <1>2, <3>1 DEF Migrated
  <2> QED BY <1>1, <1>3, <1>6, <2>1 DEF Serve
<1>7. CASE \E p \in Process : Enroll(p)
  <2>1. PICK p \in Process : Enroll(p)
    BY <1>7
  <2>2. issued' \in Token
    BY <2>1, Bounds DEF Enroll, Issue, Typed, TypeOK, Token, Unknown
  <2> QED BY <1>2, <1>3, <2>1, <2>2 DEF Enroll
<1>8. CASE Rejected
  BY <1>1, <1>2, <1>3, <1>8 DEF Rejected, Renewed
<1>9. CASE RestartAgent
  BY <1>1, <1>3, <1>9 DEF RestartAgent, Restarted
<1>10. CASE \/ WriteConfig \/ SaveIdentity \/ SaveOwn \/ Accepted \/ KeepAgent \/ SetupFails
            \/ EnrollLost("setup") \/ EnrollLost("agent") \/ AgentDies \/ Reboot \/ Forget
            \/ UNCHANGED vars
  BY <1>4, <1>10 DEF WriteConfig, SaveIdentity, SaveOwn, WriteTemporary, Replace, Accepted,
                     KeepAgent, SetupFails, EnrollLost, AgentDies, Reboot, Forget, vars
<1>11. Good
  BY <1>1, <1>5, <1>6, <1>7, <1>8, <1>9, <1>10 DEF Next, Setup, Agent
<1> QED BY <1>11

LEMMA CountsNext ==
  ASSUME Typed, [Next]_vars
  PROVE  CountsOK'
<1>0. CountsOK
  BY TypedParts
<1>1. ASSUME Issue PROVE issued' \in Token \cup {Unknown} /\ devices' \subseteq 1..issued'
  BY <1>0, <1>1, Bounds DEF Issue, CountsOK, Token, Unknown
<1>2. ASSUME Failure
      PROVE  failures' \in 0..MaxFailures /\ setups' = setups /\ resets' = resets
  BY <1>0, <1>2, Bounds DEF Failure, CountsOK
<1>3. CASE BeginSetup
  <2>1. forgot' \in BOOLEAN
    BY <1>3, Zenon DEF BeginSetup
  <2> QED BY <1>0, <1>3, <2>1, Bounds DEF BeginSetup, server, CountsOK
<1>4. CASE Serve \/ RestartAgent \/ KeepAgent \/ Check \/ Rejected
  BY <1>0, <1>4 DEF Serve, RestartAgent, KeepAgent, Check, Rejected, server, bounds, CountsOK
<1>5. CASE WriteConfig \/ SaveIdentity \/ SaveOwn \/ LoadClient \/ Accepted \/ StartAgent
  BY <1>0, <1>5 DEF WriteConfig, SaveIdentity, SaveOwn, WriteTemporary, Replace, LoadClient,
                    Accepted, StartAgent, server, bounds, CountsOK
<1>6. CASE \E p \in Process : Enroll(p) \/ EnrollLost(p)
  BY <1>0, <1>1, <1>2, <1>6 DEF Enroll, EnrollLost, bounds, CountsOK
<1>7. CASE SetupFails \/ AgentDies \/ Reboot
  BY <1>0, <1>2, <1>7 DEF SetupFails, AgentDies, Reboot, server, CountsOK
<1>8. CASE Forget
  BY <1>0, <1>8, Bounds DEF Forget, CountsOK
<1>9. CASE UNCHANGED vars
  BY <1>0, <1>9 DEF vars, server, bounds, CountsOK
<1>10. "setup" \in Process /\ "agent" \in Process
  BY DEF Process
<1> QED
  BY <1>3, <1>4, <1>5, <1>6, <1>7, <1>8, <1>9, <1>10 DEF Next, Setup, Agent

LEMMA TypedNext ==
  ASSUME Typed, [Next]_vars
  PROVE  Typed'
<1>1. PlacesOK' /\ FilesOK' /\ CountsOK' /\ config' \in [Process -> Config] /\ MemoryOK'
  BY TypedParts, PlacesNext, FilesNext, CountsNext, MemoryNext
<1> QED BY <1>1 DEF Typed, TypeOK, PlacesOK, FilesOK, CountsOK

(* Every state is well typed; in particular no configuration, in a file or in
   memory, asks for an identity beside the one it has. *)
THEOREM TypeCorrect == Spec => [](TypeOK /\ MemoryOK)
<1>1. Typed /\ [Next]_vars => Typed'
  BY TypedNext
<1>2. Typed => TypeOK /\ MemoryOK
  BY DEF Typed
<1> QED BY <1>1, <1>2, TypedInit, PTL DEF Spec

(***************************************************************************)
(* Setup leaves an identity that works.  Settled alone is not inductive:   *)
(* while setup reports and restarts the agent, an agent that was already   *)
(* running can rename its own identity over the file, or leave it behind   *)
(* in the temporary file.  The invariant says that all of these are known  *)
(* to the server.                                                          *)
(***************************************************************************)
KnownToken(c) == c.token \in devices

\* Whoever has an identity to save was just given it.
SavesKnown ==
  \A p \in Process : pc[p] \in {"save", "saved"} => KnownToken(config[p])

\* Setup has replaced the file in this run.
Past == pc["setup"] \in {"client", "enroll", "save", "saved", "check", "report",
                         "restart", "done", "kept"}
Undisturbed == Past /\ ~forgot
LeftoverKnown == Undisturbed => \A c \in tmp : KnownToken(c)
ReportedKnown ==
  Undisturbed /\ pc["setup"] = "report" => file = config["setup"] \/ KnownToken(file)
AcceptedKnown == Undisturbed /\ pc["setup"] \in {"restart", "done", "kept"} => KnownToken(file)
AgentUsesFile ==
  Undisturbed /\ pc["setup"] = "done" /\ pc["agent"] # "off" =>
    pc["agent"] = "report" /\ config["agent"] = file

SettledInv ==
  /\ Typed /\ SavesKnown /\ LeftoverKnown /\ ReportedKnown /\ AcceptedKnown
  /\ AgentUsesFile

LEMMA SettledFollows == SettledInv => Settled
BY DEF SettledInv, AcceptedKnown, AgentUsesFile, Undisturbed, Past, KnownToken, Settled, Finished

LEMMA SettledInit == Init => SettledInv
<1> SUFFICES ASSUME Init PROVE SettledInv
  OBVIOUS
<1>1. Typed
  BY TypedInit
<1>2. pc["setup"] = "off" /\ pc["agent"] = "off" /\ Process = {"setup", "agent"}
  BY DEF Init, Process
<1> QED
  BY <1>1, <1>2 DEF SettledInv, SavesKnown, LeftoverKnown, ReportedKnown, AcceptedKnown,
                    AgentUsesFile, Undisturbed, Past

LEMMA SettledNext ==
  ASSUME SettledInv, [Next]_vars
  PROVE  SettledInv'
<1>0. Typed'
  BY TypedNext DEF SettledInv
<1> DEFINE Goal == SavesKnown' /\ LeftoverKnown' /\ ReportedKnown' /\ AcceptedKnown'
                   /\ AgentUsesFile'
<1> SUFFICES Goal
  BY <1>0 DEF SettledInv
<1>1. /\ Typed /\ PlacesOK /\ PlacesOK'
      /\ Process = {"setup", "agent"} /\ DOMAIN pc = {"setup", "agent"}
      /\ config \in [Process -> Config]
  BY <1>0, TypedParts DEF SettledInv, Typed, TypeOK, PlacesOK, Process
<1> USE DEF SettledInv, SavesKnown, LeftoverKnown, ReportedKnown, AcceptedKnown,
            AgentUsesFile, Undisturbed, Past, KnownToken
<1>2. CASE BeginSetup
  BY <1>1, <1>2 DEF BeginSetup, Load, server
<1>3. CASE Serve \/ KeepAgent
  BY <1>1, <1>3 DEF Serve, KeepAgent, Move, server, files
<1>4. CASE WriteTemporary("setup", "write", "replace")
  BY <1>1, <1>4 DEF WriteTemporary, Move, server
<1>5. CASE WriteTemporary("setup", "save", "saved") \/ WriteTemporary("agent", "save", "saved")
  BY <1>1, <1>5 DEF WriteTemporary, Move, server
<1>6. ASSUME NEW p \in Process, NEW from, NEW to, NEW broken, Replace(p, from, to, broken)
      PROVE  /\ tmp' = {} /\ (file' = file \/ file' \in tmp)
             /\ tmp = {} => file' = file
             /\ tmp # {} => file' \in tmp
             /\ devices' = devices /\ config' = config /\ forgot' = forgot
             /\ pc[p] = from /\ pc' = [pc EXCEPT ![p] = IF tmp # {} THEN to ELSE broken]
  BY <1>6, Renames DEF Replace, Move, server
<1>7. CASE \E next \in {"client", "check"} : Replace("setup", "replace", next, "off")
  <2>1. PICK next \in {"client", "check"} : Replace("setup", "replace", next, "off")
    BY <1>7
  <2>2. /\ tmp' = {} /\ UNCHANGED <<devices, config, forgot>>
        /\ pc'["setup"] \in {"client", "check", "off"} /\ pc'["agent"] = pc["agent"]
    BY <1>1, <1>6, <2>1
  <2> QED BY <1>1, <2>2
<1>8. CASE \E next \in {"check", "report"} : Replace("setup", "saved", next, "off")
  <2>1. PICK next \in {"check", "report"} : Replace("setup", "saved", next, "off")
    BY <1>8
  <2>2. /\ tmp' = {} /\ UNCHANGED <<devices, config, forgot>>
        /\ pc["setup"] = "saved" /\ pc'["agent"] = pc["agent"]
        /\ pc'["setup"] = IF tmp # {} THEN next ELSE "off"
        /\ tmp # {} => file' \in tmp
    BY <1>1, <1>6, <2>1
  <2> QED BY <1>1, <2>2
<1>9. CASE Replace("agent", "saved", "report", "report")
  <2>1. /\ tmp' = {} /\ UNCHANGED <<devices, config, forgot>>
        /\ pc["agent"] = "saved" /\ pc'["agent"] = "report" /\ pc'["setup"] = pc["setup"]
        /\ file' = file \/ file' \in tmp
    BY <1>1, <1>6, <1>9
  <2> QED BY <1>1, <2>1
<1>10. CASE LoadClient \/ Check
  BY <1>1, <1>10 DEF LoadClient, Check, Move, Load, server, files
<1>11. CASE \E p \in Process : Enroll(p)
  <2>1. PICK p \in Process : Enroll(p)
    BY <1>11
  <2>2. /\ devices \subseteq devices' /\ issued' \in devices'
        /\ UNCHANGED <<file, tmp, forgot>>
        /\ config' = [config EXCEPT ![p] = Holding(issued')]
        /\ pc[p] = "enroll" /\ pc' = [pc EXCEPT ![p] = "save"]
    BY <2>1 DEF Enroll, Issue, Move, files
  <2>3. Holding(issued').token = issued'
    BY DEF Holding
  <2> QED BY <1>1, <2>2, <2>3
<1>12. CASE \E p \in Process : EnrollLost(p)
  <2>1. PICK p \in Process : EnrollLost(p)
    BY <1>12
  <2>2. /\ devices \subseteq devices'
        /\ UNCHANGED <<file, tmp, forgot, config>>
        /\ pc[p] = "enroll"
        /\ pc' = [pc EXCEPT ![p] = IF p = "setup" THEN "off" ELSE "enroll"]
    BY <2>1 DEF EnrollLost, Issue, Move, files
  <2> QED BY <1>1, <2>2
<1>13. CASE Accepted
  BY <1>1, <1>13 DEF Accepted, Move, server, files
<1>14. CASE Rejected
  BY <1>1, <1>14 DEF Rejected, Move, server, files
<1>15. CASE RestartAgent
  <2>1. /\ pc["setup"] = "restart" /\ UNCHANGED <<devices, file, tmp, forgot>>
        /\ config' = [config EXCEPT !["agent"] = file]
        /\ pc'["setup"] = "done" /\ pc'["agent"] = Waking(file)
    BY <1>1, <1>15 DEF RestartAgent, Restarted, server, files
  <2>2. pc'["agent"] \in {"report", "enroll"} /\ (KnownToken(file) => pc'["agent"] = "report")
    BY <1>1, <2>1, Bounds DEF Waking, Typed, TypeOK, Unknown, Token
  <2> QED BY <1>1, <2>1, <2>2
<1>16. CASE SetupFails
  BY <1>1, <1>16 DEF SetupFails, server, files
<1>17. CASE StartAgent
  <2>1. /\ pc["agent"] = "off" /\ UNCHANGED <<devices, file, tmp, forgot>>
        /\ config' = [config EXCEPT !["agent"] = file]
        /\ pc'["setup"] = pc["setup"] /\ pc'["agent"] = Waking(file)
    BY <1>1, <1>17 DEF StartAgent, Load, Move, server, files
  <2>2. pc'["agent"] \in {"report", "enroll"} /\ (KnownToken(file) => pc'["agent"] = "report")
    BY <1>1, <2>1, Bounds DEF Waking, Typed, TypeOK, Unknown, Token
  <2> QED BY <1>1, <2>1, <2>2
<1>18. CASE AgentDies \/ Reboot
  BY <1>1, <1>18 DEF AgentDies, Reboot, server, files
<1>19. CASE Forget
  <2>1. forgot' = TRUE /\ pc' = pc /\ \A p \in Process : pc[p] \notin {"save", "saved"}
    BY <1>19 DEF Forget
  <2> QED BY <1>1, <2>1
<1>20. CASE UNCHANGED vars
  BY <1>1, <1>20 DEF vars, server, files
<1> QED
  BY <1>1, <1>2, <1>3, <1>4, <1>5, <1>7, <1>8, <1>9, <1>10, <1>11, <1>12, <1>13, <1>14, <1>15,
     <1>16, <1>17, <1>18, <1>19, <1>20
     DEF Next, Setup, Agent, WriteConfig, SaveIdentity, SaveOwn

(* Whenever setup finishes and the server has lost no device meanwhile, the
   saved token is one the server knows and the running agent uses it, whatever
   earlier runs and an agent that was running all along have left behind. *)
THEOREM SetupSettles == Spec => []Settled
<1>1. SettledInv /\ [Next]_vars => SettledInv'
  BY SettledNext
<1> QED BY <1>1, SettledInit, SettledFollows, PTL DEF Spec

(***************************************************************************)
(* Enrollments and their causes.  The argument counts who can still enroll *)
(* without another failure: setup, unless the file has, or is about to get, *)
(* a token the server knows, and the agent, if it asks or may start from a *)
(* file that asks.  A failure or a reset lets at most these two enroll     *)
(* again; every enrollment uses one of them up.                            *)
(***************************************************************************)
FileAtRisk == ~KnownToken(file) \/ (pc["agent"] = "saved" /\ \E c \in tmp : ~KnownToken(c))

SetupMay ==
  \/ pc["setup"] = "enroll"
  \/ pc["setup"] \in {"serve", "write"} /\ ~KnownToken(config["setup"])
  \/ pc["setup"] = "replace" /\ IF tmp = {} THEN FileAtRisk ELSE \E c \in tmp : ~KnownToken(c)
  \/ pc["setup"] = "report" /\ round # "new" /\ ~KnownToken(config["setup"])
  \/ pc["setup"] \in {"off", "done", "kept", "client", "check", "report", "restart"} /\ FileAtRisk

AgentMay ==
  \/ pc["agent"] = "enroll" /\ config["agent"].code
  \/ pc["agent"] = "off" /\ service = "loaded" /\ (SetupMay \/ file.code)

OneLeft == \A c, d \in tmp : c = d
\* What setup is about to rename, or the agent has renamed for it, is known.
SavedSafe ==
  pc["setup"] = "saved" => IF tmp = {} THEN KnownToken(file) ELSE \A c \in tmp : KnownToken(c)
TokenLeft ==
  /\ pc["setup"] \in {"check", "report", "restart"} => \A c \in tmp : c.token # Unknown
  /\ pc["setup"] \in {"report", "restart"} => file.token # Unknown

Sides == SettledInv /\ OneLeft /\ SavedSafe /\ TokenLeft

LEMMA RenameEffect ==
  ASSUME Typed, NEW from, NEW to, NEW broken
  PROVE  /\ Replace("setup", from, to, broken) =>
              /\ tmp' = {} /\ (tmp = {} => file' = file) /\ (tmp # {} => file' \in tmp)
              /\ UNCHANGED <<devices, issued, config, round, service, failures, resets>>
              /\ pc["setup"] = from /\ pc'["setup"] = IF tmp # {} THEN to ELSE broken
              /\ pc'["agent"] = pc["agent"]
         /\ Replace("agent", from, to, broken) =>
              /\ tmp' = {} /\ (tmp = {} => file' = file) /\ (tmp # {} => file' \in tmp)
              /\ UNCHANGED <<devices, issued, config, round, service, failures, resets>>
              /\ pc["agent"] = from /\ pc'["agent"] = IF tmp # {} THEN to ELSE broken
              /\ pc'["setup"] = pc["setup"]
<1>1. DOMAIN pc = {"setup", "agent"}
  BY TypedParts DEF PlacesOK, Process
<1> QED BY <1>1, Renames DEF Replace, Move, server, bounds

(* A step that enrolls nobody and meets no failure gives nobody a chance, and
   keeps the side conditions; an enrollment uses its chance up. *)
Quiet ==
  /\ (OneLeft /\ SavedSafe /\ TokenLeft)'
  /\ SetupMay' => SetupMay
  /\ AgentMay' => AgentMay
SameCounts == issued' = issued /\ failures' = failures /\ resets' = resets

LEMMA KnownHasToken ==
  ASSUME Typed
  PROVE  /\ Unknown \notin devices
         /\ \A c \in {file} \cup tmp : c.code => ~KnownToken(c)
<1>1. Unknown \notin devices
  BY DEF Typed, TypeOK, Unknown
<1> QED BY <1>1 DEF Typed, TypeOK, KnownToken

LEMMA SetupIsQuiet ==
  ASSUME Sides, SettledInv',
         \/ BeginSetup \/ Serve \/ WriteConfig \/ LoadClient \/ SaveIdentity
         \/ Check \/ Accepted \/ Rejected \/ RestartAgent \/ KeepAgent
  PROVE  Quiet /\ SameCounts
<1>1. /\ Typed /\ PlacesOK /\ SavesKnown /\ OneLeft /\ SavedSafe /\ TokenLeft
      /\ Process = {"setup", "agent"} /\ DOMAIN pc = {"setup", "agent"}
      /\ config \in [Process -> Config]
      /\ Unknown \notin devices /\ (\A c \in {file} \cup tmp : c.code => ~KnownToken(c))
  BY TypedParts, KnownHasToken DEF Sides, SettledInv, Typed, TypeOK, PlacesOK, Process
<1> USE DEF Quiet, SameCounts, SavesKnown, OneLeft, SavedSafe, TokenLeft, SetupMay, AgentMay,
            FileAtRisk, KnownToken
<1>2. CASE BeginSetup
  BY <1>1, <1>2 DEF BeginSetup, Finished, Load, server, files
<1>3. CASE Serve
  <2>2. KnownToken(config["setup"]) => config'["setup"].token = config["setup"].token
    BY <1>1, <1>3 DEF Serve, Migrated, Holding
  <2>3. /\ pc["setup"] = "serve" /\ pc'["setup"] = "write"
        /\ UNCHANGED <<devices, file, tmp, round, issued, failures, resets>>
        /\ config'["agent"] = config["agent"]
        /\ \/ pc'["agent"] = pc["agent"] /\ (service' = service \/ service' = "defined")
           \/ pc'["agent"] = "off" /\ service' = "defined"
    BY <1>1, <1>3 DEF Serve, Move, server, files, bounds
  <2> QED BY <1>1, <2>2, <2>3
<1>4. CASE \/ WriteTemporary("setup", "write", "replace")
           \/ WriteTemporary("setup", "save", "saved")
  BY <1>1, <1>4 DEF WriteTemporary, Move, server, bounds
<1>5. CASE LET next == IF config["setup"].token = Unknown THEN "client" ELSE "check"
           IN Replace("setup", "replace", next, "off")
  <2>1. PICK next \in {"client", "check"} : Replace("setup", "replace", next, "off")
    BY <1>5
  <2>2. /\ tmp' = {} /\ (tmp = {} => file' = file) /\ (tmp # {} => file' \in tmp)
        /\ UNCHANGED <<devices, issued, config, round, service, failures, resets>>
        /\ pc["setup"] = "replace" /\ pc'["setup"] = IF tmp # {} THEN next ELSE "off"
        /\ pc'["agent"] = pc["agent"]
    <3> HIDE DEF Quiet, SavedSafe, SavesKnown, OneLeft, TokenLeft, SetupMay, AgentMay, KnownToken
    <3> QED BY <1>1, <2>1, RenameEffect
  <2>3. file' \in {file} \cup tmp
    BY <2>2
  <2>4. SetupMay' => SetupMay
    BY <1>1, <2>2, <2>3
  <2>5. file'.code => SetupMay
    BY <1>1, <2>2, <2>3
  <2>6. AgentMay' => AgentMay
    BY <1>1, <2>2, <2>4, <2>5
  <2> QED BY <1>1, <2>2, <2>4, <2>6
<1>6. CASE Replace("setup", "saved", IF round = "first" THEN "check" ELSE "report", "off")
  <2>1. PICK next \in {"check", "report"} : Replace("setup", "saved", next, "off")
    BY <1>6
  <2>2. /\ tmp' = {} /\ (tmp = {} => file' = file) /\ (tmp # {} => file' \in tmp)
        /\ UNCHANGED <<devices, issued, config, round, service, failures, resets>>
        /\ pc["setup"] = "saved" /\ pc'["setup"] = IF tmp # {} THEN next ELSE "off"
        /\ pc'["agent"] = pc["agent"]
    <3> HIDE DEF Quiet, SavedSafe, SavesKnown, OneLeft, TokenLeft, SetupMay, AgentMay, KnownToken
    <3> QED BY <1>1, <2>1, RenameEffect
  <2>3. file'.token \in devices
    <3>1. CASE tmp = {}
      BY <1>1, <2>2, <3>1
    <3>2. CASE tmp # {}
      BY <1>1, <2>2, <3>2
    <3> QED BY <3>1, <3>2
  <2>4. file'.token # Unknown
    BY <1>1, <2>3
  <2>5. ~file'.code
    BY <1>1, <2>2, <2>3
  <2>6. ~FileAtRisk'
    BY <2>2, <2>3
  <2>7. ~SetupMay'
    BY <1>1, <2>2, <2>6 DEF SavesKnown
  <2>8. AgentMay' => AgentMay
    BY <1>1, <2>2, <2>5, <2>7
  <2> QED BY <1>1, <2>2, <2>4, <2>7, <2>8
<1>7. CASE LoadClient
  <2>1. /\ pc["setup"] = "client" /\ pc'["setup"] \in {"enroll", "off"}
        /\ pc'["agent"] = pc["agent"]
        /\ UNCHANGED <<devices, file, tmp, round, issued, failures, resets, service>>
        /\ config'["agent"] = config["agent"]
        /\ pc'["setup"] = "enroll" => file.code
    BY <1>1, <1>7 DEF LoadClient, Move, Load, server, files, bounds
  <2>2. SetupMay' => SetupMay
    BY <1>1, <2>1
  <2> QED BY <1>1, <2>1, <2>2
<1>8. CASE Check
  <2>1. /\ pc["setup"] = "check" /\ pc'["setup"] \in {"report", "enroll", "off"}
        /\ pc'["agent"] = pc["agent"] /\ config'["setup"] = file
        /\ UNCHANGED <<devices, file, tmp, issued, failures, resets, service>>
        /\ config'["agent"] = config["agent"]
        /\ pc'["setup"] = "enroll" => file.code
        /\ pc'["setup"] = "report" => file.token # Unknown
    BY <1>1, <1>8 DEF Check, Move, Load, server, files, bounds
  <2>2. SetupMay' => SetupMay
    BY <1>1, <2>1
  <2> QED BY <1>1, <2>1, <2>2
<1>9. CASE Accepted
  BY <1>1, <1>9 DEF Accepted, Move, server, files, bounds
<1>10. CASE Rejected
  BY <1>1, <1>10 DEF Rejected, Renewed, Move, server, files, bounds
<1>11. CASE RestartAgent
  <2>1. /\ pc["setup"] = "restart" /\ pc'["setup"] = "done"
        /\ UNCHANGED <<devices, file, tmp, round, issued, failures, resets>>
        /\ pc'["agent"] = "report"
    BY <1>1, <1>11 DEF RestartAgent, Restarted, Waking, server, files, bounds
  <2> QED BY <1>1, <2>1
<1>12. CASE KeepAgent
  BY <1>1, <1>12 DEF KeepAgent, Move, server, files, bounds
<1> QED
  BY <1>2, <1>3, <1>4, <1>5, <1>6, <1>7, <1>9, <1>10, <1>11, <1>8, <1>12 DEF WriteConfig, SaveIdentity

LEMMA AgentIsQuiet ==
  ASSUME Sides, SettledInv', StartAgent \/ SaveOwn
  PROVE  Quiet /\ SameCounts
<1>1. /\ Typed /\ PlacesOK /\ SavesKnown /\ OneLeft /\ SavedSafe /\ TokenLeft
      /\ Process = {"setup", "agent"} /\ DOMAIN pc = {"setup", "agent"}
      /\ config \in [Process -> Config]
      /\ Unknown \notin devices /\ (\A c \in {file} \cup tmp : c.code => ~KnownToken(c))
  BY TypedParts, KnownHasToken DEF Sides, SettledInv, Typed, TypeOK, PlacesOK, Process
<1> USE DEF Quiet, SameCounts, SavesKnown, OneLeft, SavedSafe, TokenLeft, SetupMay, AgentMay,
            FileAtRisk, KnownToken
<1>2. CASE StartAgent
  BY <1>1, <1>2 DEF StartAgent, Waking, Move, Load, server, files, bounds
<1>3. CASE WriteTemporary("agent", "save", "saved")
  BY <1>1, <1>3 DEF WriteTemporary, Move, server, bounds
<1>4. CASE Replace("agent", "saved", "report", "report")
  <2>1. /\ tmp' = {} /\ (tmp = {} => file' = file) /\ (tmp # {} => file' \in tmp)
        /\ UNCHANGED <<devices, issued, config, round, service, failures, resets>>
        /\ pc["agent"] = "saved" /\ pc'["agent"] = "report"
        /\ pc'["setup"] = pc["setup"]
    <3> HIDE DEF Quiet, SavedSafe, SavesKnown, OneLeft, TokenLeft, SetupMay, AgentMay, KnownToken
    <3> QED BY <1>1, <1>4, RenameEffect
  <2>2. CASE tmp = {}
    BY <1>1, <2>1, <2>2
  <2>3. CASE tmp # {}
    <3>1. PICK c \in tmp : tmp = {c} /\ file' = c
      BY <1>1, <2>1, <2>3
    <3>2. (OneLeft /\ SavedSafe /\ TokenLeft)'
      BY <1>1, <2>1, <3>1
    <3>3. SetupMay' => SetupMay
      BY <1>1, <2>1, <3>1
    <3> QED BY <1>1, <2>1, <3>1, <3>2, <3>3
  <2> QED BY <2>2, <2>3
<1> QED BY <1>2, <1>3, <1>4 DEF SaveOwn

LEMMA EnrollSpends ==
  ASSUME Sides, SettledInv', NEW p \in Process, Enroll(p)
  PROVE  /\ Quiet
         /\ issued' = issued + 1 /\ failures' = failures /\ resets' = resets
         /\ \/ SetupMay /\ ~SetupMay'
            \/ AgentMay /\ ~AgentMay'
<1>1. /\ Typed /\ PlacesOK /\ SavesKnown /\ OneLeft /\ SavedSafe /\ TokenLeft
      /\ Process = {"setup", "agent"} /\ DOMAIN pc = {"setup", "agent"}
      /\ config \in [Process -> Config]
  BY TypedParts DEF Sides, SettledInv, Typed, TypeOK, PlacesOK, Process
<1> USE DEF Quiet, SavesKnown, OneLeft, SavedSafe, TokenLeft, SetupMay, AgentMay,
            FileAtRisk, KnownToken
<1>2. /\ devices \subseteq devices' /\ UNCHANGED <<file, tmp, round, service, failures, resets>>
      /\ issued' = issued + 1 /\ config[p].code
      /\ pc[p] = "enroll" /\ pc'[p] = "save"
      /\ \A q \in Process : q # p => pc'[q] = pc[q] /\ config'[q] = config[q]
  BY <1>1 DEF Enroll, Issue, Move, files, bounds
<1>3. CASE p = "setup"
  BY <1>1, <1>2, <1>3
<1>4. CASE p = "agent"
  BY <1>1, <1>2, <1>4
<1> QED BY <1>1, <1>3, <1>4

(* A step that leaves the files and the server alone and only stops processes
   keeps the side conditions. *)
LEMMA StopsKeepSides ==
  ASSUME Sides, UNCHANGED <<devices, file, tmp>>,
         \/ pc'["setup"] = pc["setup"] \/ pc'["setup"] = "off"
  PROVE  (OneLeft /\ SavedSafe /\ TokenLeft)'
BY DEF Sides, OneLeft, SavedSafe, TokenLeft, KnownToken

(* A failure or a database that loses devices keeps them too, and is counted; an
   answer that is lost spends a chance beside. *)
LEMMA CausesCount ==
  ASSUME Sides, SettledInv',
         SetupFails \/ AgentDies \/ Reboot \/ Forget \/ \E p \in Process : EnrollLost(p)
  PROVE  /\ (OneLeft /\ SavedSafe /\ TokenLeft)'
         /\ failures' + resets' = failures + resets + 1
         /\ \/ issued' = issued
            \/ issued' = issued + 1 /\ (SetupMay \/ AgentMay)
<1>1. /\ Typed /\ OneLeft /\ SavedSafe /\ TokenLeft
      /\ Process = {"setup", "agent"} /\ DOMAIN pc = {"setup", "agent"}
      /\ failures \in Nat /\ resets \in Nat
  BY TypedParts, Bounds DEF Sides, SettledInv, PlacesOK, CountsOK, Process
<1>2. CASE SetupFails \/ AgentDies \/ Reboot
  <2>1. /\ UNCHANGED <<devices, file, tmp>>
        /\ pc'["setup"] = pc["setup"] \/ pc'["setup"] = "off"
    BY <1>1, <1>2 DEF SetupFails, AgentDies, Reboot, server, files
  <2>2. issued' = issued /\ failures' = failures + 1 /\ resets' = resets
    BY <1>2 DEF SetupFails, AgentDies, Reboot, server, Failure
  <2> QED BY <1>1, <2>1, <2>2, StopsKeepSides
<1>3. CASE Forget
  <2>1. /\ UNCHANGED <<file, tmp, pc, issued, failures>> /\ resets' = resets + 1
        /\ pc["setup"] # "saved"
    BY <1>1, <1>3 DEF Forget, files
  <2> QED BY <1>1, <2>1 DEF OneLeft, SavedSafe, TokenLeft
<1>4. CASE \E p \in Process : EnrollLost(p)
  <2>1. PICK p \in Process : EnrollLost(p)
    BY <1>4
  <2>2. /\ issued' = issued + 1 /\ failures' = failures + 1 /\ resets' = resets
        /\ UNCHANGED <<file, tmp>> /\ devices \subseteq devices'
        /\ pc[p] = "enroll" /\ config[p].code
    BY <2>1 DEF EnrollLost, Issue, Failure, Move, files
  <2>3. pc'["setup"] = pc["setup"] \/ pc'["setup"] = "off"
    BY <1>1, <2>1 DEF EnrollLost, Move
  <2>4. SetupMay \/ AgentMay
    BY <1>1, <2>2 DEF SetupMay, AgentMay
  <2>5. (OneLeft /\ SavedSafe /\ TokenLeft)'
    BY <1>1, <2>2, <2>3 DEF OneLeft, SavedSafe, TokenLeft, KnownToken
  <2> QED BY <1>1, <2>2, <2>4, <2>5
<1> QED BY <1>2, <1>3, <1>4

Num(b) == IF b THEN 1 ELSE 0
Chances == Num(SetupMay) + Num(AgentMay)
Within(i, c, f, r) == i + c <= 1 + 2 * (f + r)
CauseInv == Sides /\ Within(issued, Chances, failures, resets)

LEMMA CauseInit == Init => CauseInv
<1> SUFFICES ASSUME Init PROVE CauseInv
  OBVIOUS
<1>1. SettledInv
  BY SettledInit
<1>2. pc["setup"] = "off" /\ pc["agent"] = "off" /\ tmp = {} /\ service = "absent"
  BY DEF Init, Process
<1>3. OneLeft /\ SavedSafe /\ TokenLeft /\ ~AgentMay
  BY <1>2 DEF OneLeft, SavedSafe, TokenLeft, AgentMay
<1>4. issued = 0 /\ failures = 0 /\ resets = 0
  BY DEF Init
<1> QED BY <1>1, <1>3, <1>4 DEF CauseInv, Sides, Chances, Num, Within

LEMMA CauseNext ==
  ASSUME CauseInv, [Next]_vars
  PROVE  CauseInv'
<1>1. Sides /\ SettledInv /\ SettledInv' /\ Within(issued, Chances, failures, resets)
  BY SettledNext DEF CauseInv, Sides
<1>2. /\ issued \in Nat /\ failures \in Nat /\ resets \in Nat
      /\ issued' \in Nat /\ failures' \in Nat /\ resets' \in Nat
  BY <1>1, TypedParts, Bounds DEF SettledInv, Typed, TypeOK, Token, Unknown
<1>3. /\ Chances \in {0, 1, 2} /\ Chances' \in {0, 1, 2}
      /\ SetupMay \/ AgentMay => Chances # 0
  BY DEF Chances, Num
<1>4. PICK j, g, q \in Nat, c, d \in {0, 1, 2} :
             /\ j = issued' /\ g = failures' /\ q = resets'
             /\ c = Chances /\ d = Chances'
  BY <1>2, <1>3
<1>5. Within(issued, c, failures, resets)
  BY <1>1, <1>4
<1>6. ASSUME Sides', Within(j, d, g, q) PROVE CauseInv'
  BY <1>4, <1>6 DEF CauseInv, Within
<1>7. ASSUME Quiet PROVE Sides' /\ Chances' <= Chances
  BY <1>1, <1>7 DEF Quiet, Sides, Chances, Num
<1>8. CASE Quiet /\ SameCounts
  <2>1. j = issued /\ d <= c /\ g = failures /\ q = resets
    BY <1>7, <1>8, <1>4 DEF SameCounts
  <2>2. Within(j, d, g, q)
    BY <1>2, <1>5, <2>1 DEF Within
  <2> QED BY <1>7, <1>8, <1>6, <2>2
<1>9. CASE \E p \in Process : Enroll(p)
  <2>1. PICK p \in Process : Enroll(p)
    BY <1>9
  <2>2. /\ Quiet
        /\ issued' = issued + 1 /\ failures' = failures /\ resets' = resets
        /\ \/ SetupMay /\ ~SetupMay'
           \/ AgentMay /\ ~AgentMay'
    BY <1>1, <2>1, EnrollSpends
  <2>3. d + 1 <= c
    BY <1>4, <2>2 DEF Quiet, Chances, Num
  <2>4. j = issued + 1 /\ g = failures /\ q = resets
    BY <1>4, <2>2
  <2>5. Within(j, d, g, q)
    BY <1>2, <1>5, <2>3, <2>4 DEF Within
  <2> QED BY <1>7, <1>6, <2>2, <2>5
<1>10. CASE SetupFails \/ AgentDies \/ Reboot \/ Forget \/ \E p \in Process : EnrollLost(p)
  <2>1. /\ (OneLeft /\ SavedSafe /\ TokenLeft)'
        /\ failures' + resets' = failures + resets + 1
        /\ \/ issued' = issued
           \/ issued' = issued + 1 /\ (SetupMay \/ AgentMay)
    BY <1>1, <1>10, CausesCount
  <2>2. /\ g + q = failures + resets + 1
        /\ j = issued \/ (j = issued + 1 /\ c # 0)
    BY <1>3, <1>4, <2>1
  <2>3. Within(j, d, g, q)
    BY <1>2, <1>5, <2>2 DEF Within
  <2> QED BY <1>1, <1>6, <2>1, <2>3 DEF Sides
<1>11. CASE UNCHANGED vars
  <2>1. UNCHANGED <<devices, issued, file, tmp, pc, config, round, service, failures, resets>>
    BY <1>11 DEF vars, server, files, bounds
  <2>2. Quiet /\ SameCounts
    BY <1>1, <2>1 DEF Quiet, SameCounts, Sides, OneLeft, SavedSafe, TokenLeft, SetupMay,
                      AgentMay, FileAtRisk, KnownToken
  <2> QED BY <1>8, <2>2
<1> QED
  BY <1>1, <1>8, <1>9, <1>10, <1>11, SetupIsQuiet, AgentIsQuiet DEF Next, Setup, Agent, Process

(* However setup and the agent interleave, die and are refused, and whatever the
   server forgets: there are at most two enrollments for a cause, beside the
   first. *)
THEOREM EnrollmentsHaveCauses == Spec => []EnrolledForCause
<1>1. CauseInv /\ [Next]_vars => CauseInv'
  BY CauseNext
<1>2. CauseInv => EnrolledForCause
  <2> SUFFICES ASSUME CauseInv PROVE EnrolledForCause
    OBVIOUS
  <2>1. issued \in Nat /\ failures \in Nat /\ resets \in Nat
    BY TypedParts, Bounds DEF CauseInv, Sides, SettledInv, Typed, TypeOK, Token, Unknown
  <2> QED BY <2>1 DEF CauseInv, Within, EnrolledForCause, Chances, Num
<1> QED BY <1>1, <1>2, CauseInit, PTL DEF Spec

=============================================================================
