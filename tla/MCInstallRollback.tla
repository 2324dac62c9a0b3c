------------------------- MODULE MCInstallRollback -------------------------
(* Instances of InstallRollback for TLC. *)
EXTENDS InstallRollback, TLC

CONSTANTS package, unit, database, e1, e2, e3

\* The package precedes the database, the service definitions follow it.
Targets == <<package, database, unit>>

Reports == Permutations(Evidence)

=============================================================================
