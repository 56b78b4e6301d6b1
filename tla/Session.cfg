\* Two tabs, a Django session or the cookie of a JWT; three secrets, two logins.
CONSTANTS
  None = None
  t1 = t1
  t2 = t2
  Tab = {t1, t2}
  Schemes = {"session", "jwt"}
  MaxSecrets = 3
  MaxCreds = 2
SPECIFICATION Spec
SYMMETRY TabSymmetry
INVARIANTS
  QuietPageWorks
  
