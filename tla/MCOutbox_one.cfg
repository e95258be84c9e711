\* One publisher, as in one running instance of a service, with the attempts of the code.
CONSTANTS
  e1 = e1
  e2 = e2
  p1 = p1
  p2 = p2
  Events = {e1, e2}
  Publishers = {p1}
  MaxAttempts = 5
  BatchLimit = 1
  RowsPerTx = 2
  NoEvent = NoEvent
  MaxFaults = 2
SPECIFICATION FairSpec
INVARIANTS ExhaustedIsFailed
PROPERTIES EventuallySettled
CHECK_DEADLOCK FALSE
