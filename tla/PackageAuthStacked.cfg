\* Two requests, entries that live two units, calls that take up to one.
CONSTANTS
  None = None
  r1 = r1
  r2 = r2
  Requests = {r1, r2}
  Ttl = 2
  MaxLag = 1
SPECIFICATION Spec
SYMMETRY Symmetry
INVARIANTS RevocationTakesHold 
