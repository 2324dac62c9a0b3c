---------------------------- MODULE LocalServices ----------------------------
(***************************************************************************)
(* The background services of one user (self_service.py): the server, the  *)
(* agent and the exporter as launchd or systemd run them, and the commands *)
(* setup, start, stop, restart and uninstall.  A command is the sequence   *)
(* of steps it has left; it may be killed, and the machine rebooted,       *)
(* between any two.  A job that crashes is run again by launchd (KeepAlive)*)
(* or systemd (Restart=always), so "running" means that it is loaded.      *)
(* One command runs at a time.  The identity that setup gives the agent is *)
(* EndpointIdentity's; here it is one step that may raise.                 *)
(***************************************************************************)
EXTENDS Naturals, Sequences

VARIABLES
    platform,  \* "macos" or "linux"
    defined,   \* services with a plist or a unit file
    enabled,   \* units that start with the session (Linux)
    running,   \* loaded jobs, active units
    up,        \* the server's job has bound its port and answers
    stray,     \* a server nobody manages on the port: "none", "ours" (it takes
               \* the administrator token) or "other"
    export,    \* server.env enables the export
    cmd,       \* the command being run, or "idle"
    work,      \* the steps it has left
    goal,      \* the services it was given
    wanted,    \* export, as this setup read it
    answered,  \* who answered the last wait for the server: "nobody", "job", "stray"
    before,    \* history: running when the command began
    old,       \* history: jobs begun before the command
    slips,     \* history: what has gone wrong under this command
    forsaken   \* history: jobs that uninstall could not stop

files == <<defined, enabled, export>>
request == <<cmd, goal, wanted, before>>
services == <<platform, files, running, up, stray, request, work, answered, old,
              slips, forsaken>>

Service == {"server", "agent", "exporter"}
Linux == platform = "linux"
Do(what, s) == [do |-> what, on |-> s]

ServicesTypeOK ==
    /\ platform \in {"macos", "linux"}
    /\ \A S \in {defined, enabled, running, goal, before, old, forsaken} : S \subseteq Service
    /\ up \in BOOLEAN /\ export \in BOOLEAN /\ wanted \in BOOLEAN
    /\ stray \in {"none", "ours", "other"}
    /\ cmd \in {"idle", "setup", "start", "stop", "restart", "uninstall"}
    /\ \A i \in DOMAIN work : work[i].on \in Service
    /\ answered \in {"nobody", "job", "stray"}
    /\ slips \subseteq {"health", "stop", "print", "stray"}

ServicesInit ==
    /\ platform \in {"macos", "linux"}
    /\ defined = {} /\ enabled = {} /\ running = {}
    /\ up = FALSE /\ stray \in {"none", "ours", "other"}
    /\ export \in BOOLEAN
    /\ cmd = "idle" /\ work = <<>> /\ goal = {} /\ wanted = FALSE
    /\ answered = "nobody" /\ before = {} /\ old = {} /\ slips = {} /\ forsaken = {}

-----------------------------------------------------------------------------
(* launchd and systemd.  The agent's unit Requires the server's: it stops    *)
(* and restarts with it, and starting it starts the server.                  *)

Leaving(s) == IF Linux /\ s = "server" THEN {"server", "agent"} ELSE {s}
Entering(s) == IF Linux /\ s = "agent" THEN {"agent", "server"} ELSE {s}
AtLogin ==
    IF Linux THEN UNION {Entering(s) : s \in enabled \cap defined} ELSE defined

Unloads(s) ==
    /\ running' = running \ Leaving(s)
    /\ up' = (up /\ "server" \notin Leaving(s))
    /\ forsaken' = forsaken \ Leaving(s)
Keeps == UNCHANGED <<running, up, forsaken>>
Loads(s) ==
    /\ Entering(s) \subseteq defined
    /\ running' = running \cup Entering(s)
    /\ old' = old \ (Entering(s) \ running)
    /\ UNCHANGED <<up, forsaken>>

\* Who answers the server's port.  A live server may be too slow to be heard.
Listening == IF stray # "none" THEN stray ELSE IF up THEN "job" ELSE "none"
Heard(answer) ==
    \/ answer = Listening /\ UNCHANGED slips
    \/ answer = "none" /\ Listening # "none" /\ slips' = slips \cup {"health"}

Bind ==
    /\ "server" \in running /\ ~up /\ stray = "none"
    /\ up' = TRUE
    /\ UNCHANGED <<platform, files, running, stray, request, work, answered, old,
                   slips, forsaken>>

Crash ==
    /\ up /\ up' = FALSE
    /\ old' = old \ {"server"}
    /\ UNCHANGED <<platform, files, running, stray, request, work, answered, slips,
                   forsaken>>

StrayStarts ==
    /\ stray = "none" /\ ~up
    /\ stray' \in {"ours", "other"}
    /\ slips' = IF cmd = "idle" THEN slips ELSE slips \cup {"stray"}
    /\ UNCHANGED <<platform, files, running, up, request, work, answered, old, forsaken>>

StrayQuits ==
    /\ stray # "none" /\ stray' = "none"
    /\ UNCHANGED <<platform, files, running, up, request, work, answered, old, slips,
                   forsaken>>

EditEnv ==
    /\ cmd = "idle"
    /\ export' = ~export
    /\ UNCHANGED <<platform, defined, enabled, running, up, stray, request, work,
                   answered, old, slips, forsaken>>

Finish == /\ cmd' = "idle" /\ work' = <<>> /\ goal' = {} /\ wanted' = FALSE
          /\ answered' = "nobody" /\ before' = {} /\ old' = {} /\ slips' = {}

Reboot ==
    /\ running' = AtLogin /\ up' = FALSE /\ stray' = "none" /\ forsaken' = {}
    /\ Finish
    /\ UNCHANGED <<platform, files>>

-----------------------------------------------------------------------------
(* The steps of the commands. *)

\* The step for a service that is among S.
For(S, what, s) == IF s \in S THEN <<Do(what, s)>> ELSE <<>>
\* start in the order of SERVICE_LABELS, stop in the reverse order.
Starts(S) ==
    For(S, "start", "server") \o For(S, "start", "agent") \o For(S, "start", "exporter")
Stops(S) ==
    For(S, "stop", "exporter") \o For(S, "stop", "agent") \o For(S, "stop", "server")

Unregister(s) == <<Do("quit", s), Do("unlink", s)>>
UnregisterExporter == IF "exporter" \in defined THEN Unregister("exporter") ELSE <<>>
Removal ==
    IF Linux THEN UnregisterExporter \o Unregister("agent") \o Unregister("server")
    ELSE <<Do("quit", "agent"), Do("quit", "server")>> \o UnregisterExporter
         \o <<Do("unlink", "agent"), Do("unlink", "server")>>

Relaunch(s) == <<Do("halt", s), Do("launch", s)>>
ExportOff == IF export THEN <<>> ELSE <<Do("off", "exporter")>>
ExportOn == IF export THEN <<Do("write", "exporter")>> \o Relaunch("exporter") ELSE <<>>
CoreServices ==
    <<Do("write", "server"), Do("write", "agent"), Do("check", "server"),
      Do("wait", "server"), Do("enroll", "agent")>> \o Relaunch("agent")
\* Mutant: the exporter is stopped at the end of setup.
SetupOffLast == CoreServices \o ExportOff \o ExportOn
Setup == ExportOff \o CoreServices \o ExportOn

\* The commands that name services, or mean all that are installed, refuse one
\* that is not.
Given(S) == S # {} /\ S \subseteq defined

Begin(c, S, steps) ==
    /\ cmd = "idle"
    /\ cmd' = c /\ goal' = S /\ work' = steps
    /\ wanted' = (c = "setup" /\ export)
    /\ before' = running /\ old' = running
    /\ UNCHANGED <<platform, files, running, up, stray, answered, slips, forsaken>>

BeginSetup == Begin("setup", {"server", "agent"}, Setup)
BeginUninstall == Begin("uninstall", Service, Removal)
BeginStart(S) == Given(S) /\ Begin("start", S, Starts(S))
BeginStop(S) == Given(S) /\ Begin("stop", S, Stops(S))
BeginRestart(S) == Given(S) /\ Begin("restart", S, Stops(S) \o Starts(S))

Now(what, s) == cmd # "idle" /\ work # <<>> /\ Head(work) = Do(what, s)
Then(steps) == work' = steps \o Tail(work) /\ UNCHANGED <<platform, stray, request>>
Proceed == Then(<<>>)

\* A command ends when its steps are done, when one of them raises, and when it
\* is killed.
End ==
    /\ cmd # "idle" /\ Finish
    /\ UNCHANGED <<platform, files, running, up, stray, forsaken>>

-----------------------------------------------------------------------------
(* stop and start. *)

\* What is done for the server only, and only when server.env is there: stop waits
\* until nobody serves the port, start until the server answers, which it asks only
\* with an administrator token.
ThenForServer(what, s) ==
    \/ Then(<<>>)
    \/ s = "server" /\ Then(<<Do(what, s)>>)

\* Mutant: a job that launchctl could not stop counts as stopped.
StopMacUnchecked(s) ==
    /\ Now("stop", s) /\ ~Linux
    /\ \/ Keeps /\ Proceed
       \/ /\ s \in running /\ Unloads(s)
          /\ ThenForServer("drain", s)
    /\ UNCHANGED <<files, answered, old, slips>>
\* stop_macos: a job that launchctl does not show is taken to be stopped.
StopMac(s) ==
    /\ Now("stop", s) /\ ~Linux
    /\ \/ /\ s \notin running /\ Proceed /\ Keeps /\ UNCHANGED slips
       \/ /\ s \in running /\ Proceed /\ Keeps /\ slips' = slips \cup {"print"}
       \/ /\ s \in running /\ Unloads(s) /\ UNCHANGED slips
          /\ ThenForServer("drain", s)
    /\ UNCHANGED <<files, answered, old>>

StopLinux(s) ==
    /\ Now("stop", s) /\ Linux
    /\ Unloads(s)
    /\ ThenForServer("drain", s)
    /\ UNCHANGED <<files, answered, old, slips>>

\* Nothing may serve the port any more; whoever still does at the deadline makes
\* the command raise (End).
\* Mutant: the port is not looked at.
DrainAnyway(s) ==
    /\ Now("drain", s)
    /\ Proceed /\ Keeps
    /\ UNCHANGED <<files, answered, old, slips>>
Drain(s) ==
    /\ Now("drain", s)
    /\ Heard("none") /\ Proceed /\ Keeps
    /\ UNCHANGED <<files, answered, old>>

\* A server whose job is loaded but is not heard is restarted, on Linux with the
\* agent.
StartLoaded(s) ==
    /\ Now("start", s) /\ s \in running
    /\ \/ /\ s # "server" /\ Proceed /\ UNCHANGED <<up, old, slips>>
       \/ /\ s = "server" /\ \E a \in {"job", "ours", "other"} : Heard(a)
          /\ Proceed /\ UNCHANGED <<up, old>>
       \/ /\ s = "server" /\ Heard("none")
          /\ up' = FALSE /\ old' = old \ Leaving(s)
          /\ ThenForServer("wait", s)
    /\ UNCHANGED <<files, running, answered, forsaken>>

StartStopped(s) ==
    /\ Now("start", s) /\ s \notin running
    /\ Loads(s)
    /\ ThenForServer("wait", s)
    /\ UNCHANGED <<files, answered, slips>>

\* _wait_for_server: whoever takes the administrator token.
Wait(s) ==
    /\ Now("wait", s)
    /\ \/ Listening = "job" /\ answered' = "job"
       \/ Listening = "ours" /\ answered' = "stray"
    /\ Proceed /\ Keeps
    /\ UNCHANGED <<files, old, slips>>

-----------------------------------------------------------------------------
(* setup. *)

\* configure_exporter_service, not enabled.  Whether or not the stop was
\* acknowledged, the definition goes only once the job is seen to be gone; on
\* Linux the disable must have succeeded too.  An inconclusive answer raises.
Off(s) ==
    /\ Now("off", s)
    /\ IF s \in defined
       THEN /\ \/ Unloads(s)
               \/ s \notin running /\ Keeps
            /\ enabled' = enabled \ {s}
            /\ Then(<<Do("drop", s)>>)
       ELSE Keeps /\ Proceed /\ UNCHANGED enabled
    /\ UNCHANGED <<defined, export, answered, old, slips>>

\* The answer was an error or does not show the job stopped, whether or not it is, and
\* whether or not the unit was disabled: the command raises, the definition stays.
OffUnsure(s) ==
    /\ Now("off", s) /\ s \in defined
    /\ Unloads(s) \/ Keeps
    /\ enabled' \in {enabled, enabled \ {s}}
    /\ Finish
    /\ UNCHANGED <<platform, defined, export, stray>>

Drop(s) ==
    /\ Now("drop", s)
    /\ defined' = defined \ {s}
    /\ Proceed /\ Keeps
    /\ UNCHANGED <<enabled, export, answered, old, slips>>

Write(s) ==
    /\ Now("write", s)
    /\ defined' = defined \cup {s}
    /\ Proceed /\ Keeps
    /\ UNCHANGED <<enabled, export, answered, old, slips>>

\* A server that refuses the token makes setup raise (End); one that takes it is
\* waited out after its job is stopped.
CheckPort(s) ==
    /\ Now("check", s)
    /\ \/ Heard("none") /\ Then(Relaunch(s))
       \/ (\E a \in {"job", "ours"} : Heard(a))
          /\ Then(<<Do("halt", s), Do("drain", s), Do("launch", s)>>)
    /\ Keeps
    /\ UNCHANGED <<files, answered, old>>

\* A stop that fails is ignored.
Halt(s) ==
    /\ Now("halt", s)
    /\ \/ Unloads(s) /\ UNCHANGED slips
       \/ s \in running /\ Keeps /\ slips' = slips \cup {"stop"}
    /\ Proceed
    /\ UNCHANGED <<files, answered, old>>

\* bootstrap refuses a job that is loaded; enable --now leaves an active unit be.
Launch(s) ==
    /\ Now("launch", s)
    /\ Linux \/ s \notin running
    /\ Loads(s)
    /\ enabled' = IF Linux THEN enabled \cup {s} ELSE enabled
    /\ Proceed
    /\ UNCHANGED <<defined, export, answered, slips>>

Enroll(s) ==
    /\ Now("enroll", s)
    /\ Proceed /\ Keeps
    /\ UNCHANGED <<files, answered, old, slips>>

-----------------------------------------------------------------------------
(* uninstall: a stop that fails is ignored, and the definition goes anyway.  *)

Quit(s) ==
    /\ Now("quit", s)
    /\ \/ Unloads(s) /\ enabled' = enabled \ {s} /\ UNCHANGED slips
       \/ s \in running /\ Keeps /\ enabled' \in {enabled, enabled \ {s}}
          /\ slips' = slips \cup {"stop"}
    /\ Proceed
    /\ UNCHANGED <<defined, export, answered, old>>

Unlink(s) ==
    /\ Now("unlink", s)
    /\ defined' = defined \ {s}
    /\ enabled' = enabled \ {s}
    /\ forsaken' = forsaken \cup ({s} \cap running)
    /\ Proceed
    /\ UNCHANGED <<export, running, up, answered, old, slips>>

Perform(s) ==
    \/ StopMac(s) \/ StopLinux(s) \/ Drain(s)
    \/ StartLoaded(s) \/ StartStopped(s) \/ Wait(s)
    \/ Off(s) \/ OffUnsure(s) \/ Drop(s) \/ Write(s) \/ CheckPort(s)
    \/ Halt(s) \/ Launch(s) \/ Enroll(s)
    \/ Quit(s) \/ Unlink(s)

ServicesNext ==
    \/ \E s \in Service : Perform(s)
    \/ BeginSetup \/ BeginUninstall
    \/ \E S \in SUBSET Service : BeginStart(S) \/ BeginStop(S) \/ BeginRestart(S)
    \/ End \/ Reboot
    \/ Bind \/ Crash \/ StrayStarts \/ StrayQuits \/ EditEnv

ServicesSpec == ServicesInit /\ [][ServicesNext]_services

-----------------------------------------------------------------------------
(* Properties. *)

Done(c) == cmd = c /\ work = <<>>

\* Once a setup that finds the export disabled has got past its first step, no
\* exporter runs while it does the rest, whatever fails later; and never, except
\* after an uninstall that could not stop it, does an exporter run that has no
\* definition left to stop it by (configure_exporter_service).
DeliveryStops ==
    /\ "exporter" \in running \ defined => "exporter" \in forsaken
    /\ cmd = "setup" /\ ~wanted
         => \/ "exporter" \notin running \ forsaken
            \/ work # <<>> /\ Head(work).do = "off"

\* A finished setup was answered by the server it started, and runs that server,
\* the agent and a wanted exporter from the files it wrote: somebody else answered
\* only if the server was once too slow to be heard, or one that nobody manages began
\* under setup; a job of before is left only if systemd failed to stop it
\* (_restart_service, _restart_systemd_service, _wait_for_server).
SetupRunsNew ==
    Done("setup") =>
      /\ {"server", "agent"} \subseteq running \cap defined
      /\ answered = "job" \/ slips \cap {"health", "stray"} # {}
      /\ "server" \notin old \/ (Linux /\ "stop" \in slips)
      /\ "agent" \notin old \/ (Linux /\ "stop" \in slips)
      /\ wanted => /\ "exporter" \in running \cap defined
                   /\ "exporter" \notin old \/ (Linux /\ "stop" \in slips)

\* A command that returns has done what it says, to every service it was given:
\* stopped, running, running anew, or gone and not coming back at the next login.
\* On macOS an error of launchctl print passes for a stopped job.  A restart takes no
\* other service down than, on Linux, the agent with the server.
RestartCost == Done("restart") =>
    (before \ goal) \ running =
        IF Linux /\ "server" \in goal THEN {"agent"} \cap (before \ goal) ELSE {}
CommandsDo ==
    /\ Done("stop") => goal \cap running = {} \/ "print" \in slips
    /\ Done("start") => goal \subseteq running
    /\ Done("restart") => /\ goal \subseteq running
                          /\ goal \cap old = {} \/ "print" \in slips
    /\ Done("uninstall") => defined = {} /\ running \subseteq forsaken
    /\ RestartCost

\* Restarting one service leaves the others as they were
\* (docs/deployment-linux.md:276-279).
RestartKeepsOthers == Done("restart") => before \ goal \subseteq running

=============================================================================
