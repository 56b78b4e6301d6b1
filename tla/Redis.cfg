\* Two workers on two hosts, three ticks per second.
CONSTANTS
  None = None
  w1 = w1
  w2 = w2
  Worker = {w1, w2}
  Rules <- MCRules
  PerSecond = 3
  Skew <- MCSkew
  MaxClock = 14
SPECIFICATION Spec
INVARIANTS
  TypeOK
  QuotaKept
  HeadersTruthful
