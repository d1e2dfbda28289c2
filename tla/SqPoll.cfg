\* A polling thread, a full completion queue and one program thread.
CONSTANTS
  IndexMod = 4
  RingEntries = 2
  Callers = {p}
  Publisher = p
  SqPoll = TRUE
  IoPoll = FALSE
  NoDrop = TRUE
  CqEntries = 2
  MaxWant = 1
  MaxWork = 4
SPECIFICATION FairSpec
INVARIANTS TypeOK NoLostWakeup LenCoversPublished
PROPERTIES SubmittedIsTaken WaitReturns OverflowKeepsDraining
