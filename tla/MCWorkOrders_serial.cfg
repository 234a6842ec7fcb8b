CONSTANTS
  Orders = {o1}
  d1 = d1
  d2 = d2
  c1 = c1
  c2 = c2
  Devices = {d1, d2}
  Assignees = {c1, c2}
  AnswersFor <- MCAnswersFor
  Targets <- MCTargets
  Planners = {p1, p2}
  Sessions = {s1}
  None = None
  MaxVersion = 15
  MaxCustody = 3
SPECIFICATION Spec
INVARIANTS OneHolder SettledTogether
PROPERTIES AnswersFrozen
SYMMETRY MCSymmetry
CHECK_DEADLOCK FALSE
