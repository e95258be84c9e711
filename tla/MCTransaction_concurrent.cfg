\* Two P2P transfers and two batches, each pair under one key at the same time; two faults.
CONSTANTS
  p = p
  px = px
  b = b
  bx = bx
  s = s
  sx = sx
  kp = kp
  kb = kb
  ks = ks
  i1 = i1
  i2 = i2
  NoRequest = NoRequest
  NoKey = NoKey
  Requests = {p, px, b, bx}
  Workers = {}
  Keys = {kp, kb}
  Kind <- MCKind
  Key <- MCKey
  Items <- MCItems
  After <- Concurrent
  MaxItems = 2
  MaxFaults = 2
SPECIFICATION FairSpec
INVARIANTS TypeOK CompletedIsPaid PaidIsRecorded
PROPERTIES AllAnswered
CHECK_DEADLOCK FALSE
