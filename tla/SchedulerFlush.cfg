\* An error and two logs, a flush against run; one log cannot be converted.
SPECIFICATION Spec
CONSTANTS
  Item = {e1, l1, l2}
  Category = {error, log}
  CategoryOf <- Of
  Flusher = {f1}
  Stopper = {}
  Runner = run
  Capacity <- Room
  BatchSize <- Batch
  Timed = {log}
  Batched = {log}
  Priority = {critical, low}
  PriorityOf <- Ranks
  Weight <- Weights
  Unserializable = {l2}
  None = None
  error = error
  log = log
  e1 = e1
  e2 = e2
  l1 = l1
  l2 = l2
  critical = critical
  low = low
INVARIANTS
  OnePlace
  FlushSound
  DropsRecorded
CHECK_DEADLOCK FALSE
