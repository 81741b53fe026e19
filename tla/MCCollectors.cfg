SPECIFICATION Spec
CONSTANTS
  Resources <- MCResources
  Pages <- MCPages
  References <- MCReferences
  Roles <- MCRoles
  Policies <- MCPolicies
  InlinePages <- MCInlinePages
  AttachedPages <- MCAttachedPages
  Boundary <- MCBoundary
  Unparseable <- MCUnparseable
  ClusterPages <- MCClusterPages
  ServicePages <- MCServicePages
  Definition <- MCDefinition
  ClustersBatch = 2
  ServicesBatch = 2
  Items <- MCItems
  Groups <- MCGroups
  Serverless <- MCServerless
  Standing <- MCStanding
  Foreign <- MCForeign
  InitialGroup <- MCInitialGroup
  MaxChanges = 2
INVARIANTS
  ReadInFull
  RolesAreWhole
  ServicesAreWhole
  UniqueIds
  JoinLosesNothing
PROPERTY
  KeepsPromise
