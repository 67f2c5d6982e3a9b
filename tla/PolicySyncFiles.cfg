\* File mode: every destination has a path, so a restart serves the files; and
\* convergence, with every fault before the system settles.
CONSTANTS
  MaxVersions = 2
  Attempts = 1
  Files = {"upstream", "npm", "parsed", "pypi"}
  PypiText <- MCPypiTextDistinct
  RefusedTexts = {}
SPECIFICATION LiveSpec
INVARIANT UpstreamLeads
PROPERTIES  Converges
