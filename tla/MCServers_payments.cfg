\* Two servers whose tickers fire a step apart.
SPECIFICATION MCSpec
CONSTANTS
  s1 = s1
  Servers = {s1, s2}
  Limit = 1
  Window = 1
  NoBucket = NoBucket
  Minute = 2
  MaxTime = 3
  TimeOfTwo = 3
  MaxKeys = 1
  MaxBoots = 1
INVARIANTS OneAwardAMinute
