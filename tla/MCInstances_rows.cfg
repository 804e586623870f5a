\* Two teams, two challenges, three running instances at most; lookups and counts fail.
SPECIFICATION Spec
CONSTANTS
  Challenges = {c1, c2}
  Teams = {t1, t2}
  Requests = {r1, r2}
  InstanceIds = {i1, i2, i3}
  InstanceMax = 1
  StoreErrors = TRUE
  NoReq = NoReq
SYMMETRY InstanceSymmetry
INVARIANTS
  TypeOK
  OneRunningPerTeam
  CapOvershootBounded
