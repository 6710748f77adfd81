\* One question answered just in time, and the table does not open.
SPECIFICATION Spec
CONSTANTS
  p1 = p1  p2 = p2
  Page = {p1, p2}
  Enrich = {e1}
  Refresh = {}
  Reindex = {}
  Legacy = {}
  Initial <- OnePage
PROPERTIES Incremental
CHECK_DEADLOCK FALSE
