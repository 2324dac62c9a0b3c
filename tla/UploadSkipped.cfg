\* A lost answer and a state that comes back.
SPECIFICATION Spec
CONSTANTS
  None = None
  a = a  b = b
  State = {a, b}
  MaxChanges = 3
  MaxFailures = 1
  MaxReports = 0
INVARIANTS ChangeIsUploaded
