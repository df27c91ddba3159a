\* A sender, a flusher and Close over two envelopes, a queue of one.
SPECIFICATION FairSpec
CONSTANTS
  Sender = {s1}
  Flusher = {f1}
  Envelope = {e1, e2}
  Category = {error}
  CategoryOf <- OneCategory
  QueueSize = 1
  NoOne = NoOne
  e1 = e1
  e2 = e2
  e3 = e3
  error = error
  log = log
INVARIANTS
  OnePlace
  ReportedOnce
PROPERTIES
  ImplementsTransport
  NoSendAfterClose
  ComesToRest
CHECK_DEADLOCK FALSE
