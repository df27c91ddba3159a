\* Two goroutines on one hub and its clone.
SPECIFICATION Spec
CONSTANTS
  Goroutine = {g1, g2}
  Client = {small}
  small = small
  NoClient = NoClient
  MaxBreadcrumbs <- Limits
  MaxLayers = 3
  MaxHubs = 2
  MaxWrites = 3
SYMMETRY SameGoroutines
INVARIANTS
  StackBalanced
  ScopesIndependent
  CrumbsInOrder
PROPERTIES
  FirstLayerStays
CHECK_DEADLOCK FALSE
