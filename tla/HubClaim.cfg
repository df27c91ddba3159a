\* A hub without a client, to which one with a smaller limit is bound.
SPECIFICATION Spec
CONSTANTS
  Goroutine = {g1}
  Client = {small}
  small = small
  NoClient = NoClient
  MaxBreadcrumbs <- Limits
  MaxLayers = 1
  MaxHubs = 1
  MaxWrites = 3
INVARIANTS
  NewestKept
CHECK_DEADLOCK FALSE
