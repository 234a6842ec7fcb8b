CONSTANTS
  Events = {e1, u}
  Configured = {e1}
  Workers = {w1, w2}
  None = None
  MAX_ATTEMPTS = 2
  BatchSize = 2
  MaxPayload = 2
SPECIFICATION FairSpec
INVARIANTS DeliveredWasTaken
PROPERTIES Settled
CHECK_DEADLOCK FALSE
