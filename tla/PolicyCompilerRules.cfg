\* Policies of up to four rules, of either ecosystem or of both.
CONSTANTS
  None = None
  Rules <- MCRules
  MaxRules = 4
  Namespace <- MCNamespace
  NpmNames <- MCNpmNames
  PypiNames <- MCPypiNames
  Releases <- MCReleases
SPECIFICATION CompilerSpec
INVARIANTS CompilerTypeOK DeniesHold AllowsHold DevpiTakesWhatCompiles
