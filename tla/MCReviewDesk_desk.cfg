CONSTANTS
  o1 = o1
  o2 = o2
  Orders = {o1, o2}
  r1 = r1
  r2 = r2
  Refs = {r1, r2}
  RefOf <- MCRefOf
  Sessions = {s1, s2}
  Workers = {w1}
  External = {o1}
  Claims = {o1}
  Interruptions = {o1}
  Consumers = {o1}
  BatchSize = 1
  MaxCaptures = 2
  MaxDecisions <- MCMaxDecisions
  MaxKills = 1
SPECIFICATION SpecBeside
INVARIANTS ApprovalTold LastDecisionStands
PROPERTIES EveryOrderRated
CHECK_DEADLOCK FALSE
