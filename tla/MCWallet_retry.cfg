\* Two clients: a deposit and its retry, a transfer and then a deposit; more callers than connections, a reader of the cache, fair handlers, one fault.
CONSTANTS
  t12 = t12
  t21 = t21
  d1 = d1
  d2 = d2
  w1 = w1
  d1x = d1x
  w1x = w1x
  g1 = g1
  g2 = g2
  k1 = k1
  k2 = k2
  k3 = k3
  NoWallet = NoWallet
  NoRequest = NoRequest
  NoValue = NoValue
  Wallets = {1, 2}
  Requests = {t12, d1, d1x, d2}
  Readers = {g1}
  Asks <- MCAsks
  Keys = {k1, k2, k3}
  From <- MCFrom
  To <- MCTo
  Amount <- MCAmount
  Key <- OwnKey
  After <- Retries
  Opening <- MCOpening
  MaxConns = 2
  MaxFaults = 1
  Round <- MCRound
  Precision <- MCPrecision
  Grid <- MCGrid
  Exact <- MCExact
SPECIFICATION FairSpec
INVARIANTS RetryAppliedOnce StaleOnlyByRace
PROPERTIES KeyDiscipline AnsweredOrExhausted LockFreed
CHECK_DEADLOCK FALSE
