\* A holder that died inside, and two other calls: while one reclaims the lock, the
\* other makes it, and both go in.  No deadline passes on a live holder, and the
\* data directory exists from the start.
SPECIFICATION Spec
CONSTANTS
  a1 = a1  a2 = a2  u1 = u1
  j1 = j1  j2 = j2
  Call = {a1, a2, u1}
  AddCall = {a1, a2}
  Job = {j1, j2}
  JobOf <- MCJobOf
  NoCall = NoCall
  MaxRetained = 1
  Impatient = {a1, a2, u1}
  Prompt = TRUE
  FirstUse = FALSE
INVARIANTS Exclusive
CHECK_DEADLOCK FALSE
