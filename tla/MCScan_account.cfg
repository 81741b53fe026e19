SPECIFICATION Spec
CONSTANTS
  NumCollectors = 3
  NumDependents = 1
  Requested = 2
  Ids <- MCIds
  Calls <- AccountCalls
  Owner <- AccountOwner
  Starts <- AccountStarts
  Needs <- AccountNeeds
  Reveals <- AccountReveals
  Yields <- AccountYields
INVARIANTS
  TypeOK
  BoundedConcurrency
  PhaseBarrier
  GapsAdmitted
  NothingLostToCancel
