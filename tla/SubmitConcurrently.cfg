\* Two threads submit at the same time to a ring without a polling thread.
CONSTANTS
  IndexMod = 4
  RingEntries = 2
  Callers = {p, q}
  Publisher = p
  SqPoll = FALSE
  IoPoll = FALSE
  NoDrop = TRUE
  CqEntries = 2
  MaxWant = 1
  MaxWork = 3
SPECIFICATION Spec
PROPERTY FullSubmitLeavesNothing
