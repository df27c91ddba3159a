SPECIFICATION Spec
CONSTANTS
  Goroutines = {g1, g2}
  Hubs = {h1, h2}
  NumSpans = 3
  NumTransactions = 2
  MaxSpans = 2
  Configs <- MCConfigs
  Starts <- MCStarts
  Explicit <- MCExplicit
INVARIANTS
  SameBaggage
CHECK_DEADLOCK FALSE
