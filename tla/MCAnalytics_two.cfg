\* Two instances, two partitions with an event in both, twice in one, and a reader of two cached views; one fault.
CONSTANTS
  d1 = d1
  i1 = i1
  i2 = i2
  g1 = g1
  NoMessage = NoMessage
  Assignments <- MCAssignments
  NoValue = NoValue
  Consumers = {i1, i2}
  Partitions = {1, 2}
  Log <- TwoLogs
  Payloads = {d1}
  Dates = {1, 2, 3}
  DateOf <- MCDateOf
  FirstHour = {d1}
  Views <- MCViews
  Readers = {g1}
  MaxFaults = 1
SPECIFICATION FairSpec
INVARIANTS TypeOK CountedOnce StaleOnlyByRace
PROPERTIES EventuallyConsistent
CHECK_DEADLOCK FALSE
