\* Two code blocks and three figures; up to four copies.
CONSTANTS
  None = None
  b1 = b1
  b2 = b2
  Block = {b1, b2}
  Pages <- MCPages
  MaxCopies = 4
SPECIFICATION Spec
INVARIANTS
  CopiesWhole
  PageSettles
