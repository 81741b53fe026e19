SPECIFICATION Spec
CONSTANTS
  BalancerPages <- MCBalancerPages
  GroupPages <- MCGroupPages
  TypeOf <- MCTypeOf
  Facing <- MCFacing
  ListenersOf <- MCListenersOf
  RulePages <- MCRulePages
  DefaultTo <- MCDefaultTo
  TargetType <- MCTargetType
  TargetsOf <- MCTargetsOf
  Registers <- MCRegisters
  BalancerNodes <- MCBalancerNodes
  Routes <- MCRoutes
  Authorizers <- MCAuthorizers
  Stages <- MCStages
  Definition <- MCDefinition
  Existing <- MCExisting
  FirstPage <- MCFirstPage
  FirstTarget <- MCFirst
  ValueOf <- MCValueOf
  Secret <- MCSecret
  Guards <- MCGuards
  AuthorizerCalls <- MCCalls
  ApiNodes <- MCApiNodes
  Topics <- MCTopics
  Queues <- MCQueues
  Functions <- MCFunctions
  Policies <- MCPolicies
  Patterned <- MCPatterned
  Subscribing <- MCSubscribing
  Mappings <- MCMappings
  DeadLetters <- MCDeadLetters
INVARIANTS
  TrafficAccounted
  EntrypointsKnown
  EdgeIsTrue
  RouteAccounted
  DeliveryIsTrue
  GrantIsSaid
