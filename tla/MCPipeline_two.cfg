\* Two instances, two partitions, an event delivered twice; one fault.
CONSTANTS
  t12 = t12
  t21 = t21
  bat = bat
  c1 = c1
  c2 = c2
  NoMessage = NoMessage
  Assignments <- MCAssignments
  Consumers = {c1, c2}
  Partitions = {1, 2}
  Log <- Backlog
  MaxCopies <- MCMaxCopies
  Payloads = {t12, t21, bat}
  Batches = {bat}
  Wallets = {1, 2}
  From <- MCFrom
  To <- MCTo
  Amount <- MCAmount
  MaxFaults = 1
SPECIFICATION FairSpec
INVARIANTS TypeOK RunningBalance RecordedOnce SkippedOnlyIfFailed
PROPERTIES EveryTransferRecorded
CHECK_DEADLOCK FALSE
