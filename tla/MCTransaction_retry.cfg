\* A P2P transfer and a batch, each sent again after the last answer, and a scheduled transfer with one worker; one fault.
CONSTANTS
  p = p
  px = px
  b = b
  bx = bx
  s = s
  sx = sx
  kp = kp
  kb = kb
  ks = ks
  i1 = i1
  i2 = i2
  NoRequest = NoRequest
  NoKey = NoKey
  Requests = {p, px, b, bx, s}
  Workers = {i1}
  Keys = {kp, kb, ks}
  Kind <- MCKind
  Key <- MCKey
  Items <- MCItems
  After <- Retries
  MaxItems = 2
  MaxFaults = 1
SPECIFICATION FairSpec
INVARIANTS RetryPaysOnce FailedIsUnpaid
PROPERTIES KeyDiscipline ScheduledSettles
CHECK_DEADLOCK FALSE
