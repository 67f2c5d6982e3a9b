\* Two versions, one that may turn malicious and one that is published; a
\* decision lasts one unit of time, an OSV verdict two.
CONSTANTS
  None = None
  r1 = r1
  r2 = r2
  v1 = v1
  v2 = v2
  Requests = {r1, r2}
  Versions = {v1, v2}
  New = {v2}
  Suspects = {v1}
  Policies <- MCPolicies
  OldAge = 2
  DecisionTtl = 1
  OsvTtl = 2
  Timeout = 1
  NpmTimeout = 1
SPECIFICATION Spec
SYMMETRY Symmetry
INVARIANTS TypeOK PolicyObeyed BoundedExposure NothingStrippedForLong
