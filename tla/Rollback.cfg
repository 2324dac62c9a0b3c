\* Three installer runs, four failures, three reports.
SPECIFICATION Spec
CONSTANTS
  package = package  unit = unit  database = database  e1 = e1  e2 = e2  e3 = e3
  Order <- Targets
  Database = database
  Evidence = {e1, e2, e3}
  NoDatabase = none
  MaxAttempts = 3
  MaxFailures = 4
SYMMETRY Reports
INVARIANTS NothingDestroyed RestoredExactly FirstRestoreKeeps
\* Installer runs and failures are bounded.
CHECK_DEADLOCK FALSE
