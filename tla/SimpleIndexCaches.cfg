\* Two requests, one public file, one private one.
CONSTANTS
  None = None
  r1 = r1
  r2 = r2
  f1 = f1
  v1 = v1
  v2 = v2
  Requests = {r1, r2}
  Files = {f1}
  Releases = {v1, v2}
  GatewayTtl = 1
  EnrichTtl = 1
  StaleMax = 2
  MaxLag = 1
SPECIFICATION Spec
SYMMETRY Symmetry
INVARIANTS
  TypeOK PrivateShadowsPublic DroppedFilesLeave JustPublishedIsListed
  UnstampedIsBrief
