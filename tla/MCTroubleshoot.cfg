\* Answers and probes may fail, the model may hang, a capture fits into the timeout.
SPECIFICATION FairSpec
CONSTANTS
  Branch <- MCBranch
  Bucket = {"connectivity", "generic"}
  ProductBuckets = {"connectivity"}
  Timeout = 2
  Window = 1
  Retries = 1
  ProbeResults <- MCProbeResults
  Guesses <- MCGuesses
  Rescores <- MCRescores
  Faults = TRUE
  Swift = FALSE
INVARIANTS RunInv NoDegradedReport ProbeOrderKept
PROPERTIES RaceEnds
CHECK_DEADLOCK FALSE
