\* Two inventory states, three changes, two failures, one report of another process.
SPECIFICATION PollingSpec
CONSTANTS
  None = None
  a = a  b = b
  State = {a, b}
  MaxChanges = 3
  MaxFailures = 2
  MaxReports = 1
INVARIANTS AcknowledgedIsStored
PROPERTIES NeverBackwards InventoryConverges
