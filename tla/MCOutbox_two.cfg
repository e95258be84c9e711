\* Two instances of a service poll the same table.
CONSTANTS
  e1 = e1
  e2 = e2
  p1 = p1
  p2 = p2
  Events = {e1, e2}
  Publishers = {p1, p2}
  MaxAttempts = 2
  BatchLimit = 2
  RowsPerTx = 2
  NoEvent = NoEvent
  MaxFaults = 2
SPECIFICATION Spec
SYMMETRY Symmetry
INVARIANTS TypeOK CopiesBounded
PROPERTIES CausalOrder AtLeastOnce
CHECK_DEADLOCK FALSE
