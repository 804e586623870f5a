\* Two submissions at once, nested rules on the challenge and its block, edits, failing reads.
SPECIFICATION MCSpec
CONSTANTS
  c1 = c1
  c2 = c2
  k = k
  Challenges = {c1, c2}
  Blocks = {k}
  Requests = {r1, r2}
  Rules <- AllRules
  Schedules <- AllSchedules
  FirstRows <- GateRows
  FirstBlocks <- GateBlocks
  Edits <- GateEdits
  BlockSchedules <- LateSchedule
  Day = 1
  Unparsed = Unparsed
  Assignments = {FALSE}
  EventTicks = {0, 1}
  MaxTime = 1
  Awards <- OneAward
  SolvePoints = 1
  StoreErrors = TRUE
  JSONNull = JSONNull
  None = None
SYMMETRY RequestSymmetry
INVARIANTS
  TypeOK
  AdmittedIsUnlocked
  LockedWasLocked
  OpenIsAccepted
