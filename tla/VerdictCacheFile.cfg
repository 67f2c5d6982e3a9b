SPECIFICATION Spec
CONSTANTS
  t1 = t1
  t2 = t2
  k1 = k1
  k2 = k2
  k3 = k3
  None = None
  Torn = Torn
  Threads <- MCThreads
  Keys <- MCKeys
  MaxEntries = 2
  MalTtl = 2
  CleanTtl = 1
  MaxAsked = 2
  Interval = 2
  WriteTime = 1
SYMMETRY Symmetry
INVARIANTS  MaliciousOutlivesPressure 
VIEW View
