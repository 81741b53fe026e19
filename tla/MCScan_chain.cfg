SPECIFICATION FairSpec
CONSTANTS
  NumCollectors = 1
  NumDependents = 2
  Requested = 2
  Ids <- MCIds
  Calls <- ChainCalls
  Owner <- ChainOwner
  Starts <- ChainStarts
  Needs <- ChainNeeds
  Reveals <- ChainReveals
  Yields <- ChainYields
INVARIANTS
  ScheduleIndependent
  CanonicalInventory
PROPERTIES
  Terminates
