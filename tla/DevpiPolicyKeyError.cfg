CONSTANTS
  None = None
  t1 = t1
  t2 = t2
  v1 = v1
  v2 = v2
  f1 = f1
  f2 = f2
  Threads = {t1, t2}
  Versions = {v1, v2}
  Files = {f1, f2}
  VersionOf <- MCVersionOf
  New = {f2}
  Suspects = {v1}
  Configs <- MCConfigs
  OldAge = 3
  MetaTtl = 1
  OsvTtl = 1
  MaxEntries = 1
  MetaTimeout = 1
  OsvTimeout = 1
SPECIFICATION Spec
SYMMETRY Symmetry
INVARIANTS NoRequestBreaks
