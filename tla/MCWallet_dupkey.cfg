\* Two concurrent deposits under one key.
CONSTANTS
  t12 = t12
  t21 = t21
  d1 = d1
  d2 = d2
  w1 = w1
  d1x = d1x
  w1x = w1x
  g1 = g1
  g2 = g2
  k1 = k1
  k2 = k2
  k3 = k3
  NoWallet = NoWallet
  NoRequest = NoRequest
  NoValue = NoValue
  Wallets = {1}
  Requests = {d1, d1x}
  Readers = {}
  Asks <- MCAsks
  Keys = {k1, k2, k3}
  From <- MCFrom
  To <- MCTo
  Amount <- MCAmount
  Key <- MCKey
  After <- Concurrent
  Opening <- MCOpening
  MaxConns = 9
  MaxFaults = 0
  Round <- MCRound
  Precision <- MCPrecision
  Grid <- MCGrid
  Exact <- MCExact
SPECIFICATION Spec
INVARIANTS KeyAppliedOnce
CHECK_DEADLOCK FALSE
