\* Any fetch may fail, and workers come back in any order.
SPECIFICATION Spec
CONSTANTS
  r = r  a = a  b = b  c = c  d = d  e = e  f = f  g = g  h = h
  Page = {r, a, b, c, d, e, f, g, h}
  Root = r
  Seeds <- SiteSeeds
  Links <- SiteLinks
  MaxDepth = 2
  MaxPages = 6
  Worker = {w1, w2, w3}
INVARIANTS Accounted Complete NearCap
CHECK_DEADLOCK FALSE
