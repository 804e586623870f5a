\* With a bonus, two first solvers are both credited it.
SPECIFICATION Spec
CONSTANTS
  Teams = {t1, t2}
  Challenges = {c1}
  PluginRefs = {p1}
  Requests = {r1, r2, r3}
  SolvePoints = {10}
  AwardPoints = {3}
  FirstBloodBonus = 5
  NoTeam = NoTeam
  NoReq = NoReq
  NoUpd = NoUpd
SYMMETRY RequestSymmetry
INVARIANTS BoardMatchesLedger
