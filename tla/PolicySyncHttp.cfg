\* The deployed shape: HTTP endpoints, with the parsed policy alone on a volume.
CONSTANTS
  MaxVersions = 3
  Attempts = 2
  Files = {"parsed"}
  PypiText <- MCPypiText
  RefusedTexts <- MCRefusedTexts
SPECIFICATION Spec
INVARIANTS TypeOK  NoLostWakeup HealthyMeansApplied
 
