\* One loader: two usable documents, one that does not parse, and a request
\* timeout as long as the poll interval, as with the defaults.
CONSTANTS
  None = None
  Loaders = {"npm"}
  Docs = {d1, d2, d3}
  Rejected = {d3}
  Poll = 2
  Timeout = 2
  Grace = 3
SPECIFICATION LiveSpec
INVARIANTS TypeOK BoundedStaleness KeepsLastKnownGood EtagIsOfPolicy
PROPERTY Recovers
