\* A core index of one page, or none yet and a legacy file of the other; one run of
\* each kind, side by side, killed anywhere.
SPECIFICATION Spec
CONSTANTS
  p1 = p1  p2 = p2
  Page = {p1, p2}
  Enrich = {e1}
  Refresh = {f1}
  Reindex = {x1}
  Legacy <- LegacyPage
  Initial <- OnePage
INVARIANTS IndexInv Deduped
PROPERTIES NothingWiped
CHECK_DEADLOCK FALSE
