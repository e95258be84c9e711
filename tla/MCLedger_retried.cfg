\* Two events and a transaction that fails.
CONSTANTS
  t12 = t12
  t21 = t21
  c1 = c1
  NoMessage = NoMessage
  Assignments <- MCAssignments
  Consumers = {c1}
  Partitions = {1}
  Log <- Pair
  Payloads = {t12, t21}
  Batches = {}
  Wallets = {1, 2}
  From <- MCFrom
  To <- MCTo
  Amount <- MCAmount
  MaxFaults = 1
SPECIFICATION Spec
INVARIANTS FailedIsRetried
CHECK_DEADLOCK FALSE
