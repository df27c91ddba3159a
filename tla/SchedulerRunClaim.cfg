\* Stop while run is about to wait.
SPECIFICATION FairSpec
CONSTANTS
  Item = {e1}
  Category = {error}
  CategoryOf <- Of
  Flusher = {}
  Stopper = {stop}
  Runner = run
  Capacity <- Room
  BatchSize <- Batch
  Timed = {}
  Batched = {}
  Priority = {critical}
  PriorityOf <- Ranks
  Weight <- Weights
  Unserializable = {}
  None = None
  error = error
  log = log
  e1 = e1
  e2 = e2
  l1 = l1
  l2 = l2
  critical = critical
  low = low
PROPERTIES
  RunEnds
CHECK_DEADLOCK FALSE
