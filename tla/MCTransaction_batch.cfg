\* One batch.
CONSTANTS
  p = p
  px = px
  b = b
  bx = bx
  s = s
  sx = sx
  kp = kp
  kb = kb
  ks = ks
  i1 = i1
  i2 = i2
  NoRequest = NoRequest
  NoKey = NoKey
  Requests = {b}
  Workers = {}
  Keys = {kb}
  Kind <- MCKind
  Key <- MCKey
  Items <- MCItems
  After <- Concurrent
  MaxItems = 2
  MaxFaults = 0
SPECIFICATION Spec
INVARIANTS BatchAtomic
CHECK_DEADLOCK FALSE
