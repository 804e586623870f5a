\* Every fault, and nobody has to reload the page.
SPECIFICATION MCSpec
CONSTANTS
  Browsers = {b1}
  Writers = {1, 2}
  Handlers = {1, 2}
  MaxVersion = 2
  BufferMax = 1
  Faults = TRUE
  None = None
INVARIANTS
  TypeOK
  StaleOnlyByRace
  SignalPending
PROPERTIES
  CacheGoesFresh
  BehindForAReason
