\* Two servers: a limiter each; a tick loop each, with a plugin.
SPECIFICATION MCSpec
CONSTANTS
  s1 = s1
  Servers = {s1, s2}
  Limit = 2
  Window = 3
  NoBucket = NoBucket
  Minute = 2
  MaxTime = 5
  TimeOfTwo = 3
  MaxKeys = 2
  MaxBoots = 2
INVARIANTS
  ServersTypeOK
  TwoBucketsAMinute
  AwardsWithinTicks
  TicksAreSettled
PROPERTIES RefusedIsAdmitted
