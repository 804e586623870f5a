\* With a first-blood bonus two teams race for; every handler ends.
SPECIFICATION FairSpec
CONSTANTS
  Teams = {t1, t2}
  Challenges = {c1}
  PluginRefs = {p1}
  Requests = {r1, r2, r3}
  SolvePoints = {10}
  AwardPoints = {3}
  FirstBloodBonus = 5
  NoTeam = NoTeam
  NoReq = NoReq
  NoUpd = NoUpd
INVARIANTS
  FirstBloodToFirstSolver
PROPERTIES
  CoreRowsAreForever
  EveryCallEnds
