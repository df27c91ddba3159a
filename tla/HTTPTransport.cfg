\* Two senders with an event each and a flusher, or a sender with an event and two
\* flushers that never time out; batches of one.
SPECIFICATION MCSpec
CONSTANTS
  Sender = {s1, s2}
  Flusher = {f1, f2}
  Event = {e1, e2}
  Category = {error}
  CategoryOf <- OneCategory
  BufferSize = 1
  NoEvent = NoEvent
  e1 = e1
  e2 = e2
  error = error
  s1 = s1
  s2 = s2
  f1 = f1
  f2 = f2
INVARIANTS
  NoPanic
  ReportedOnce
PROPERTIES
  ImplementsTransport
  ComesToRest
CHECK_DEADLOCK FALSE
