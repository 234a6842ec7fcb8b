CONSTANTS
  Orders = {o1}
  d1 = d1
  d2 = d2
  c1 = c1
  c2 = c2
  Devices = {d1, d2}
  Assignees = {c1, c2}
  AnswersFor <- MCAnswersFor
  Targets <- MCTargets
  Planners = {p1}
  Sessions = {s1, s2}
  None = None
  MaxVersion = 4
  MaxCustody = 2
SPECIFICATION Spec
INVARIANTS CustodyAccounts
SYMMETRY MCSymmetry
CHECK_DEADLOCK FALSE
