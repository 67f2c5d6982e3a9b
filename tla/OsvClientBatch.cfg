\* Three threads, two packages, chunks of one package, two calls at a time.
CONSTANTS
  None = None
  t1 = t1
  t2 = t2
  t3 = t3
  p1 = p1
  p2 = p2
  Threads = {t1, t2, t3}
  Packages = {p1, p2}
  Paged = {}
  Vague = {p2}
  BatchSize = 1
  MaxConcurrency = 2
SPECIFICATION Spec
SYMMETRY Symmetry
INVARIANTS TypeOK NoWaiterForgotten NoFalseBlock SharedAnswersAreFresh
