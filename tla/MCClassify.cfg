SPECIFICATION FairSpec
CONSTANTS
  Nodes = {n1, n2, n3}
  MaxEdges = 3
  EdgeSets <- SmallGraphs
INVARIANT
  FlowIsByPaths
PROPERTY
  Classifies
