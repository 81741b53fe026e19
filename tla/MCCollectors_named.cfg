SPECIFICATION Spec
CONSTANTS
  Resources <- MCResources
  Pages <- MCPages
  References <- MCReferences
  Roles <- MCRoles
  Policies <- MCPolicies
  InlinePages <- MCInlinePages
  AttachedPages <- MCAttachedPages
  Boundary <- MCBoundary
  Unparseable <- MCUnparseable
  ClusterPages <- NamedClusterPages
  ServicePages <- NamedServicePages
  Definition <- NamedDefinition
  ClustersBatch = 2
  ServicesBatch = 2
  Items <- MCItems
  Groups <- MCGroups
  Serverless <- MCServerless
  Standing <- MCStanding
  Foreign <- MCForeign
  InitialGroup <- MCInitialGroup
  MaxChanges = 2
INVARIANTS
  UniqueIds
