\* Two errors for a buffer of one, Stop against run and the closing of the transport;
\* and the rotation, which has its own items.
SPECIFICATION MCSpec
CONSTANTS
  Item = {e1, e2}
  Category = {error}
  CategoryOf <- Of
  Flusher = {}
  Stopper = {stop}
  Runner = run
  Capacity <- Room
  BatchSize <- Batch
  Timed = {}
  Batched = {}
  Priority = {critical}
  PriorityOf <- Ranks
  Weight <- Weights
  Unserializable = {}
  None = None
  error = error
  log = log
  e1 = e1
  e2 = e2
  l1 = l1
  l2 = l2
  critical = critical
  low = low
INVARIANTS
  RefusedOnlyLate
PROPERTIES
  CallsReturn
  Rotates
CHECK_DEADLOCK FALSE
