\* Two jobs in a list of one, a cancel command, processes killed at any point.
SPECIFICATION FairSpec
CONSTANTS
  Job = {j1, j2}
  Cancel = {k1}
  NoJob = NoJob
  MaxRetained = 1
  Crashes = TRUE
INVARIANTS LifeInv ExitLeavesFinished CancelWithPidHolds ShownOutcomeStands
PROPERTIES FollowsContract Settles
CHECK_DEADLOCK FALSE
