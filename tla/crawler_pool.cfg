CONSTANTS
  t1 = t1  t2 = t2  t3 = t3  t4 = t4
  d1 = d1  d2 = d2  w1 = w1  w2 = w2
  Target = {t1, t2, t3, t4}
  V6 = {t4}
  Discoverer = {d1, d2}
  Worker = {w1, w2}
  Capacity = 1
  Faults = TRUE
SPECIFICATION FairPoolSpec
INVARIANT PoolTypeOK
PROPERTIES CrawlSpec CrawlEnds
