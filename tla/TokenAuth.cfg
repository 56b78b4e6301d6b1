\* Two requests and one open change form over one token.
CONSTANTS
  None = None
  w1 = w1
  w2 = w2
  t1 = t1
  t2 = t2
  ann = ann
  staff = staff
  Worker = {w1, w2}
  Token = {t1}
  User = {ann}
  Staff = {staff}
  UpdateLastUsed = {TRUE, FALSE}
  MaxClock = 1
SPECIFICATION Spec
SYMMETRY WorkerSymmetry
INVARIANTS
  TypeOK
  RevocationKept
  InstantRevocation
  LastUsedReal
PROPERTY DeletedStaysDeleted
