\* One job and one cancel command: does the cancellation hold?
SPECIFICATION Spec
CONSTANTS
  Job = {j1}
  Cancel = {k1}
  NoJob = NoJob
  MaxRetained = 1
  Crashes = FALSE
INVARIANTS CancelHolds
CHECK_DEADLOCK FALSE
SYMMETRY Symmetric
