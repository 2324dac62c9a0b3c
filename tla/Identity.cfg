\* Three runs of setup, three failures, two databases that lose devices.
SPECIFICATION Spec
CONSTANTS
  MaxSetups = 3
  MaxFailures = 3
  MaxResets = 2
INVARIANTS TypeOK Settled EnrolledForCause
\* Setups, failures and resets are bounded.
CHECK_DEADLOCK FALSE
