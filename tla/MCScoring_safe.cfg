\* No first-blood bonus: the standing is exactly the sum of the stream.
SPECIFICATION Spec
CONSTANTS
  Teams = {t1, t2}
  Challenges = {c1, c2}
  PluginRefs = {p1}
  Requests = {r1, r2, r3}
  SolvePoints = {10}
  AwardPoints = {3}
  FirstBloodBonus = 0
  NoTeam = NoTeam
  NoReq = NoReq
  NoUpd = NoUpd
SYMMETRY RequestSymmetry
INVARIANTS
  TypeOK
  SolvesMatchLedger
  BoardMatchesLedger
  SubmissionsMatchLedger
PROPERTIES
  LedgerSpec
