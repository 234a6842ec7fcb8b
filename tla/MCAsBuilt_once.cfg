CONSTANTS
  p1 = p1
  p2 = p2
  p3 = p3
  s1 = s1
  s2 = s2
  Proposals = {p1, p2, p3}
  Arcfm = {p3}
  Batches = {b1, b2}
  Agents = {a1}
  Sessions = {s1, s2}
  Limit = 2
  None = None
  MaxRows = 2
SPECIFICATION Spec
INVARIANTS AppliedOnce
SYMMETRY MCSymmetry
CHECK_DEADLOCK FALSE
