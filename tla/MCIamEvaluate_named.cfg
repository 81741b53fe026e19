SPECIFICATION Spec
CONSTANTS
  q1 = q1
  q2 = q2
  tb = tb
  Targets <- ThreeTargets
  TypeOf <- Types
  PartsOf <- Parts
  Holders = {"service", "function", "api"}
  Mappings <- SmallMappings
  OwnPolicies <- SmallOwnPolicies
  Roles <- SmallRoles
INVARIANTS
  IntentIsRead
