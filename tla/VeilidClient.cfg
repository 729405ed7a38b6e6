CONSTANTS
  Sender = {s1}
  MaxLink = 2
  MaxEpoch = 2
  PollAttempts = 2
  MaxAdopt = 1
SPECIFICATION VeilidSpec

INVARIANTS OwnAnswer
PROPERTIES CallsEnd IdentityArrives
CHECK_DEADLOCK FALSE
