\* Two installer runs, two failures, two reports.
SPECIFICATION Spec
CONSTANTS
  package = package  unit = unit  database = database  e1 = e1  e2 = e2  e3 = e3
  Order <- Targets
  Database = database
  Evidence = {e1, e2}
  NoDatabase = none
  MaxAttempts = 2
  MaxFailures = 2
SYMMETRY Reports
INVARIANTS RepeatedRestoreKeeps
\* Installer runs and failures are bounded.
CHECK_DEADLOCK FALSE
