\* Three players, one of them with the administrator's email, two sessions, two names,
\* two handlers at once, failing statements.
SPECIFICATION AccountsSpec
CONSTANTS
  Admin = u1
  Users = {u1, u2, u3}
  Names = {n1, n2}
  Requests = {r1, r2}
  Tokens = {k1, k2}
  StoreErrors = TRUE
  NoUser = NoUser
  NoReq = NoReq
  NoToken = NoToken
SYMMETRY AccountsSymmetry
INVARIANTS
  AccountsTypeOK
  OneTeamPerPlayer
  LedByCreator
  LoggedOutIsOut
PROPERTIES AccountsAreKept
