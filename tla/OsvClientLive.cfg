\* Progress of two threads behind a gate for one call, one chunk per batch.
CONSTANTS
  None = None
  t1 = t1
  t2 = t2
  t3 = t3
  p1 = p1
  p2 = p2
  Threads = {t1, t2}
  Packages = {p1, p2}
  Paged = {}
  Vague = {p1}
  BatchSize = 2
  MaxConcurrency = 1
SPECIFICATION LiveSpec
PROPERTY EveryRequestAnswered
