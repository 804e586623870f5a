\* Every request, three at once, on an event with one challenge and a library with one.
\* Each handler serves one request: with all of them done, nothing is left to do.
SPECIFICATION Spec
CONSTANTS
  p1 = p1
  p2 = p2
  p3 = p3
  s1 = s1
  s2 = s2
  t = t
  Calls = {p1, p2, p3}
  Importers = {p1, p2}
  Revs = {0, 2}
  Slugs = {s1, s2}
  Bodies <- MCBodies
  FirstBodies <- MCFirstBodies
  Items <- MCItems
  Files <- MCFiles
  Made <- MCMade
  FirstItems <- MCFirst
  Unreadable <- MCUnreadable
  NoCall = NoCall
  Gone = Gone
  NoPin = NoPin
SYMMETRY CallSymmetry
INVARIANTS
  TypeOK
  RevisionsAreNumbered
  DuplicateOnlyByRace
  ImportedAsReported
  SwapsMixOnlyByRace
PROPERTIES
  EmbeddedAsPinned
  NeverLeftFlagless
CHECK_DEADLOCK FALSE
