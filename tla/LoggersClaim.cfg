\* A fatal record, and a hook for logs before the exit handlers.
SPECIFICATION MCSpec
CONSTANTS
  Response <- MCResponse
  Envelope <- MCEnvelope
  DefaultRetryAfter = 2
  NumAnswers = 3
  NumSending = 2
  Horizon = 4
  Request = {p1, p2}
  Framework <- MCFramework
  Layers = 2
  Code = {103, 404}
  NumActs = 2
  Queries <- MCQueries
  NumSpans = 4
  Logging <- MCLogging
  Logger = {p1, p2}
  Records <- MCRecords
  Values <- MCValues
  NumRecords = 2
  NumSets = 2
  Goroutine = {p1, p2}
  Options <- MCOptions
  Captures <- MCCaptures
  NumItems = 2
  MaxSpans = 2
  Room <- MCRoom
  CapacityArg = 3
  BatchSizeArg = 2
  TimeoutArg = 1
  DefaultCapacity = 2
  Callers = {p1, p2}
  MaxOffers = 5
  Trace = {p1, p2}
  NoTrace = NoTrace
  itemCapacity = 4
  MinBuckets = 3
  ItemsPerBucket = 2
  perBucketItemLimit = 2
  bucketBatchSize = 2
  bucketTimeout = 1
  MaxBucketed = 5
SYMMETRY MCSymmetry
INVARIANTS
  ExitFlushed
CHECK_DEADLOCK FALSE
