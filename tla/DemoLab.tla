------------------------------- MODULE DemoLab -------------------------------
(***************************************************************************)
(* The demonstration (demo.py): run_demo starts simulated workloads in     *)
(* sessions of their own, and must end them however it ends: normally, by  *)
(* an exception, or by SIGINT or SIGTERM, whose handler cleans up and then *)
(* lets the signal kill the process.  Python runs the handler between any  *)
(* two steps of the program, cleanup's own included.                       *)
(***************************************************************************)
EXTENDS Naturals, FiniteSets

CONSTANT Workload

VARIABLES
    at,        \* "start", "spawned", "demo", "cleanup" or "ended"
    pending,   \* the workload Popen returned last
    alive,     \* workloads that run
    owned,     \* _processes
    cleaned,   \* _cleaned
    missed     \* history: workloads the code can no longer end

demo == <<at, pending, alive, owned, cleaned, missed>>

DemoTypeOK ==
    /\ at \in {"start", "spawned", "demo", "cleanup", "ended"}
    /\ pending \subseteq Workload /\ alive \subseteq Workload /\ owned \subseteq Workload
    /\ cleaned \in BOOLEAN
    /\ missed \subseteq Workload

DemoInit ==
    /\ at = "start" /\ pending = {} /\ alive = {} /\ owned = {}
    /\ cleaned = FALSE /\ missed = {}

\* Popen.
Spawn(w) ==
    /\ at = "start" /\ w \notin owned
    /\ alive' = alive \cup {w} /\ pending' = {w}
    /\ at' = "spawned"
    /\ UNCHANGED <<owned, cleaned, missed>>

\* _processes.append.
Own ==
    /\ at = "spawned"
    /\ owned' = owned \cup pending
    /\ at' = IF owned' = Workload THEN "demo" ELSE "start"
    /\ UNCHANGED <<pending, alive, cleaned, missed>>

\* A workload ends by itself.
Exit(w) ==
    /\ w \in alive /\ alive' = alive \ {w}
    /\ UNCHANGED <<pending, at, owned, cleaned, missed>>

\* Mutant: a demo that fails is not cleaned up.
LeaveWhenDone ==
    /\ at \in {"start", "demo"}
    /\ at' = IF at = "demo" THEN "cleanup" ELSE "ended"
    /\ cleaned' = (at = "demo")
    /\ UNCHANGED <<pending, alive, owned, missed>>
\* The demo is over, or a start, the discovery or the report raised: finally.
Leave ==
    /\ at \in {"start", "demo"}
    /\ at' = "cleanup" /\ cleaned' = TRUE
    /\ UNCHANGED <<pending, alive, owned, missed>>

\* SIGINT or SIGTERM before cleanup began: the handler cleans up, but does not
\* know of a workload between Popen and append.
Signal ==
    /\ at # "ended" /\ ~cleaned
    /\ at' = "cleanup" /\ cleaned' = TRUE
    /\ missed' = IF at = "spawned" THEN missed \cup pending ELSE missed
    /\ UNCHANGED <<pending, alive, owned>>

\* A signal during cleanup: _cleaned is set, so this handler has nothing to do
\* and the process is killed, before it has come to the workloads still in owned.
SignalAgain ==
    /\ at # "ended" /\ cleaned
    /\ at' = "ended"
    /\ missed' = missed \cup owned
    /\ UNCHANGED <<pending, alive, owned, cleaned>>

\* SIGKILL, or SIGHUP when the terminal goes: no handler.
Killed ==
    /\ at # "ended"
    /\ at' = "ended"
    /\ missed' = Workload
    /\ UNCHANGED <<pending, alive, owned, cleaned>>

\* _terminate_owned: SIGTERM to the group, SIGKILL after three seconds; an OSError is
\* swallowed, and cleanup goes on to the next.
Terminate(w) ==
    /\ at = "cleanup" /\ w \in owned
    /\ owned' = owned \ {w}
    /\ \/ alive' = alive \ {w} /\ UNCHANGED missed
       \/ w \in alive /\ UNCHANGED alive /\ missed' = missed \cup {w}
    /\ UNCHANGED <<pending, at, cleaned>>

\* It is still there three seconds after SIGKILL: TimeoutExpired leaves cleanup,
\* which does not begin again.
Stuck(w) ==
    /\ at = "cleanup" /\ w \in owned \cap alive
    /\ at' = "ended"
    /\ missed' = missed \cup owned
    /\ UNCHANGED <<pending, alive, owned, cleaned>>

CleanedUp ==
    /\ at = "cleanup" /\ owned = {}
    /\ at' = "ended"
    /\ UNCHANGED <<pending, alive, owned, cleaned, missed>>

DemoNext ==
    \/ \E w \in Workload : Spawn(w) \/ Exit(w) \/ Terminate(w) \/ Stuck(w)
    \/ Own \/ Leave \/ Signal \/ SignalAgain \/ Killed \/ CleanedUp

DemoSpec == DemoInit /\ [][DemoNext]_demo

-----------------------------------------------------------------------------
(* Properties. *)

\* A demo that has ended leaves no workload behind, however it ended, but for those
\* its code can no longer end: the one a signal finds between Popen and append, those
\* that cleanup has not come to when a second signal or a workload that outlives
\* SIGKILL stops it, one whose end raised an OSError, and all under a signal
\* that no handler sees.  Whatever cleanup has come to is gone.
NothingLeft == at = "ended" => alive \subseteq missed

=============================================================================
