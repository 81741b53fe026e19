SPECIFICATION Spec
CONSTANTS
  w = w
  q = q
  t = t
  gone = gone
  MaxClaims = 4
  Ids <- AllIds
  Nodes = {w, q, t}
  Workloads = {w}
  Governed = {q, t}
  ClaimSets <- SmallClaims
INVARIANTS
  HighIsEarned
  EvidenceKept
PROPERTIES
  Implements
  StatusIsDeclared
