\* Three logs in batches of two, a flush and Close.
SPECIFICATION FairSpec
CONSTANTS
  MaxItems = 3
  ProcessorOf <- AllLogs
  Order <- Both
  batchSize = 2
  Flusher = {f1}
  NoOne = NoOne
  logger = logger
  meter = meter
INVARIANTS
  Conserved
  ReturnsSound
PROPERTIES
  ComesToRest
CHECK_DEADLOCK FALSE
