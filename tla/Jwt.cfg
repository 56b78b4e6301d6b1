\* Two requests, one user, tokens of the controllers and of other programs.
CONSTANTS
  None = None
  Empty = Empty
  r1 = r1
  r2 = r2
  ann = ann
  j1 = j1
  Request = {r1, r2}
  User = {ann}
  Foreign <- MCForeign
  AuthOptions <- Lenient
  AccessLife = 1
  RefreshLife = 1
  MaxPairs = 1
  Skews = {1}
  MaxClock = 2
SPECIFICATION Spec
SYMMETRY RequestSymmetry
INVARIANTS
  TypeOK
  DeadStaysOut
  LogoutHolds
  LogoutsDoNotCollide
