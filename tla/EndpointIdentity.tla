-------------------------- MODULE EndpointIdentity --------------------------
(***************************************************************************)
(* Who the endpoint is (self_service.py, agent.py): setup and the running  *)
(* agent both enroll and both keep the outcome in agent.json, each by      *)
(* writing agent.json.tmp and renaming it.  Setup loads the configuration  *)
(* before it restarts the server and uses it after; both can die or be     *)
(* refused at any step, and the server can forget devices.                 *)
(*                                                                         *)
(* Devices are numbered in the order they are enrolled, and a device's     *)
(* number stands for its token.  One write of a file is one step.          *)
(***************************************************************************)
EXTENDS Naturals, FiniteSets

CONSTANTS
    MaxSetups,    \* bound on runs of setup
    MaxFailures,  \* bound on deaths and failed requests
    MaxResets     \* bound on databases the server loses devices with

ASSUME IdentityAssumption == {MaxSetups, MaxFailures, MaxResets} \subseteq Nat

VARIABLES
    devices,   \* devices the server knows
    issued,    \* devices it ever enrolled: 1..issued
    file,      \* agent.json
    tmp,       \* agent.json.tmp: one configuration or none
    pc,        \* by process: the step it is at
    config,    \* by process: the configuration in its memory
    round,     \* what setup enrolls for
    service,   \* the agent's service: "absent", "defined" or "loaded"
    forgot,    \* history: the server lost devices since setup last began
    setups, failures, resets

files == <<file, tmp>>
server == <<devices, issued>>
bounds == <<setups, failures, resets>>
vars == <<server, files, pc, config, round, service, forgot, bounds>>

Process == {"setup", "agent"}
\* More than EnrolledForCause allows: the guard in Issue stops nothing but mutants.
MaxIssued == 2 * (MaxSetups + MaxFailures + MaxResets) + 2
Unknown == 0
Token == 1..MaxIssued
\* The device token, and whether the enrollment token is there.
Config == [token : Token \cup {Unknown}, code : BOOLEAN]
Holding(t) == [token |-> t, code |-> FALSE]
Asking == [token |-> Unknown, code |-> TRUE]

Step == [setup |-> {"off", "serve", "write", "replace", "client", "enroll", "save", "saved",
                    "check", "report", "restart", "done", "kept"},
         agent |-> {"off", "enroll", "save", "saved", "report"}]

\* Setup has finished: with the agent restarted, or with one it could not stop.
Finished == {"done", "kept"}

TypeOK ==
    /\ issued \in Token \cup {Unknown} /\ devices \subseteq 1..issued
    /\ file \in Config
    /\ tmp \subseteq Config /\ Cardinality(tmp) <= 1
    /\ DOMAIN pc = Process /\ \A p \in Process : pc[p] \in Step[p]
    /\ config \in [Process -> Config]
    /\ round \in {"first", "send", "new"}
    /\ service \in {"absent", "defined", "loaded"} /\ forgot \in BOOLEAN
    /\ setups \in 0..MaxSetups /\ failures \in 0..MaxFailures /\ resets \in 0..MaxResets
    \* No configuration asks for an identity beside the one it has.
    /\ \A c \in {file} \cup tmp : c.code => c.token = Unknown

Init ==
    /\ devices = {} /\ issued = 0
    /\ file = Holding(Unknown) /\ tmp = {}
    /\ pc = [p \in Process |-> "off"]
    /\ config = [p \in Process |-> Holding(Unknown)]
    /\ round = "first" /\ service = "absent" /\ forgot = FALSE
    /\ setups = 0 /\ failures = 0 /\ resets = 0

Failure ==
    /\ failures < MaxFailures
    /\ failures' = failures + 1
    /\ UNCHANGED <<setups, resets>>

Move(p, from, to) ==
    /\ pc[p] = from
    /\ pc' = [pc EXCEPT ![p] = to]

-----------------------------------------------------------------------------
(* The client both use (agent.py) and the way files are replaced. *)

\* The server enrolls whoever shows the enrollment token, known or not.
Issue ==
    /\ issued < MaxIssued
    /\ issued' = issued + 1
    /\ devices' = devices \cup {issued'}

Enroll(p) ==
    /\ Move(p, "enroll", "save")
    /\ config[p].code
    /\ Issue
    /\ config' = [config EXCEPT ![p] = Holding(issued')]
    /\ UNCHANGED <<files, round, service, forgot, bounds>>

\* The device is enrolled and the answer lost: setup gives up, the agent tries again.
EnrollLost(p) ==
    /\ Move(p, "enroll", IF p = "setup" THEN "off" ELSE "enroll")
    /\ config[p].code
    /\ Issue
    /\ Failure
    /\ UNCHANGED <<files, config, round, service, forgot>>

WriteTemporary(p, from, to) ==
    /\ Move(p, from, to)
    /\ tmp' = {config[p]}
    /\ UNCHANGED <<server, file, config, round, service, forgot, bounds>>

\* Both use one name: what is renamed may be what the other wrote, and when the
\* other has renamed it already, setup gives up.
Replace(p, from, to, broken) ==
    /\ Move(p, from, IF tmp # {} THEN to ELSE broken)
    /\ file' = IF tmp # {} THEN CHOOSE c \in tmp : TRUE ELSE file
    /\ tmp' = {}
    /\ UNCHANGED <<server, config, round, service, forgot, bounds>>

-----------------------------------------------------------------------------
(* _setup_self_service. *)

Load(p) == [config EXCEPT ![p] = file]

BeginSetup ==
    /\ pc["setup"] \in {"off"} \cup Finished
    /\ setups < MaxSetups
    /\ setups' = setups + 1
    /\ pc' = [pc EXCEPT !["setup"] = "serve"]
    /\ config' = Load("setup")
    /\ round' = "first" /\ forgot' = FALSE
    /\ UNCHANGED <<server, files, service, failures, resets>>

\* What migrate_config and the lines after it make of the configuration.
\* Mutant: setup asks for an identity whether there is one or not.
MigratedAnew(c) == Asking
Migrated(c) == IF c.token = Unknown THEN Asking ELSE Holding(c.token)

\* The service definitions are written and the server restarted.  systemd stops the
\* agent, which requires the server, with it; launchd does not, nor does a stop of
\* systemd's that fails for the agent, which is ignored.
Serve ==
    /\ \/ Move("setup", "serve", "write") /\ service' = IF service = "loaded" THEN service ELSE "defined"
       \/ /\ pc["setup"] = "serve"
          /\ pc' = [setup |-> "write", agent |-> "off"]
          /\ service' = "defined"
    /\ config' = [config EXCEPT !["setup"] = Migrated(config["setup"])]
    /\ UNCHANGED <<server, files, round, forgot, bounds>>

WriteConfig ==
    \/ WriteTemporary("setup", "write", "replace")
    \/ LET next == IF config["setup"].token = Unknown THEN "client" ELSE "check"
        IN Replace("setup", "replace", next, "off")

\* A new client reads the file; enroll needs an enrollment token.
LoadClient ==
    /\ Move("setup", "client", IF file.code THEN "enroll" ELSE "off")
    /\ config' = Load("setup")
    /\ UNCHANGED <<server, files, round, service, forgot, bounds>>

SaveIdentity ==
    \/ WriteTemporary("setup", "save", "saved")
    \/ Replace("setup", "saved", IF round = "first" THEN "check" ELSE "report", "off")

\* send_once of another new client: it enrolls if the file has no token.
Check ==
    /\ Move("setup", "check", IF file.token # Unknown THEN "report"
                              ELSE IF file.code THEN "enroll" ELSE "off")
    /\ config' = Load("setup")
    /\ round' = "send"
    /\ UNCHANGED <<server, files, service, forgot, bounds>>

Accepted ==
    /\ Move("setup", "report", "restart")
    /\ config["setup"].token \in devices
    /\ UNCHANGED <<server, files, config, round, service, forgot, bounds>>

\* Mutant: the token the server rejected stays beside the enrollment token.
RenewedBeside(c) == [c EXCEPT !.code = TRUE]
Renewed(c) == Asking

\* 401: only this justifies a new identity, and only once.
Rejected ==
    /\ config["setup"].token \notin devices
    /\ Move("setup", "report", IF round = "new" THEN "off" ELSE "write")
    /\ round' = "new"
    /\ config' = [config EXCEPT !["setup"] = Renewed(file)]
    /\ UNCHANGED <<server, files, service, forgot, bounds>>

\* The agent is stopped and started again.
\* Mutant: a running agent is left alone.
RestartedUnlessUp(c) == IF pc["agent"] = "off" THEN c ELSE config["agent"]
Restarted(c) == c

Waking(c) == IF c.token # Unknown THEN "report" ELSE "enroll"

RestartAgent ==
    /\ pc["setup"] = "restart"
    /\ LET c == Restarted(file) IN
         /\ config' = [config EXCEPT !["agent"] = c]
         /\ pc' = [pc EXCEPT !["setup"] = "done", !["agent"] = Waking(c)]
    /\ service' = "loaded"
    /\ UNCHANGED <<server, files, round, forgot, bounds>>

\* On Linux a stop that fails is ignored, and enable --now leaves the agent that runs
\* as it is, with what it has in memory.
KeepAgent ==
    /\ Move("setup", "restart", "kept")
    /\ service = "loaded"
    /\ UNCHANGED <<server, files, config, round, service, forgot, bounds>>

\* Setup is killed, refused otherwise than with 401, or a step of it raises.
SetupFails ==
    /\ pc["setup"] \notin {"off"} \cup Finished
    /\ Failure
    /\ \/ pc' = [pc EXCEPT !["setup"] = "off"] /\ UNCHANGED service
       \* The agent is stopped and does not start.
       \/ /\ pc["setup"] = "restart"
          /\ pc' = [p \in Process |-> "off"] /\ service' = "defined"
    /\ UNCHANGED <<server, files, config, round, forgot>>

Setup ==
    \/ BeginSetup \/ Serve \/ WriteConfig \/ LoadClient
    \/ Enroll("setup") \/ EnrollLost("setup") \/ SaveIdentity
    \/ Check \/ Accepted \/ Rejected \/ RestartAgent \/ KeepAgent \/ SetupFails

-----------------------------------------------------------------------------
(* The agent as a service, and the server's database. *)

\* A loaded service starts and starts again.  Without either token it tries in vain.
StartAgent ==
    /\ service = "loaded"
    /\ Move("agent", "off", Waking(file))
    /\ config' = Load("agent")
    /\ UNCHANGED <<server, files, round, service, forgot, bounds>>

\* When the file cannot be renamed, the agent goes on with the token in memory.
SaveOwn ==
    \/ WriteTemporary("agent", "save", "saved")
    \/ Replace("agent", "saved", "report", "report")

AgentDies ==
    /\ pc["agent"] # "off"
    /\ Failure
    /\ pc' = [pc EXCEPT !["agent"] = "off"]
    /\ UNCHANGED <<server, files, config, round, service, forgot>>

\* A login may load a service that is only defined (launchd does).
Reboot ==
    /\ Failure
    /\ pc' = [p \in Process |-> "off"]
    /\ service' \in {service} \cup (IF service = "defined" THEN {"loaded"} ELSE {})
    /\ UNCHANGED <<server, files, config, round, forgot>>

Agent == StartAgent \/ Enroll("agent") \/ EnrollLost("agent") \/ SaveOwn \/ AgentDies

\* The database is replaced by one that lacks devices, while nobody has an identity
\* to save: with the server stopped, as it must be.
Forget ==
    /\ \A p \in Process : pc[p] \notin {"save", "saved"}
    /\ resets < MaxResets
    /\ resets' = resets + 1
    /\ \E kept \in SUBSET devices : kept # devices /\ devices' = kept
    /\ forgot' = TRUE
    /\ UNCHANGED <<issued, files, pc, config, round, service, setups, failures>>

Next == Setup \/ Agent \/ Reboot \/ Forget

Spec == Init /\ [][Next]_vars

-----------------------------------------------------------------------------
(* Properties. *)

\* When setup has finished, the saved token is one the server knows, and when it could
\* restart the agent, a running agent uses that token, whatever an agent that was
\* running all along, earlier runs that died or a lost database left behind.
Settled ==
    (pc["setup"] \in Finished /\ ~forgot) =>
        /\ file.token \in devices
        /\ pc["setup"] = "done" /\ pc["agent"] # "off" =>
             pc["agent"] = "report" /\ config["agent"] = file

\* "A timeout or server error must not create duplicate device records"
\* (self_service.py) can only be a bound: an answer that is lost leaves a device
\* behind, and after a death setup and the agent may both enroll.  But there are never
\* more than two for a cause, however often setup runs and whatever it and the agent
\* do at once; without any cause there is one.
EnrolledForCause ==
    issued <= 1 + 2 * (failures + resets)

=============================================================================
