\* A token is revoked while its change form is open.
CONSTANTS
  None = None
  w1 = w1
  w2 = w2
  t1 = t1
  t2 = t2
  ann = ann
  staff = staff
  Worker = {w1, w2}
  Token = {t1}
  User = {ann}
  Staff = {staff}
  UpdateLastUsed = {TRUE, FALSE}
  MaxClock = 1
SPECIFICATION Spec
PROPERTY RevokedForever
