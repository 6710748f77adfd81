\* Three calls, any of which may be killed or time out at any moment, the holder
\* of the lock alive or not; the data directory may have to be made first.
SPECIFICATION FairSpec
CONSTANTS
  a1 = a1  a2 = a2  u1 = u1
  j1 = j1  j2 = j2
  Call = {a1, a2, u1}
  AddCall = {a1, a2}
  Job = {j1, j2}
  JobOf <- MCJobOf
  NoCall = NoCall
  MaxRetained = 1
  Impatient = {a1, a2, u1}
  Prompt = FALSE
  FirstUse = TRUE
INVARIANTS StoreInv MutualExclusion JobsFileIntact NoLostUpdate
PROPERTIES OnlyEvictedLogsGo Linearizable EveryCallReturns
CHECK_DEADLOCK FALSE
