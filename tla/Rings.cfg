\* Two rings, three Submitters on two tasks with two slots each: a slot can be
\* freed and taken again by another Submitter of another ring.  Every kind of
\* ring and every failing step of its setup, several attempts in a row.
\* Every combination of the task work flags with each kind of loop.
SPECIFICATION RingsSpec
CONSTANTS
  Rings = {r1, r2}
  Tasks = {t1, t2}
  Submitters = {s1, s2, s3}
  Fds <- MCFds
  Slots <- MCSlots
  RegRegRing = TRUE
  SqEntries = 2
  CqSizes = {2, 8}
  Requests = {q1, q2, q3}
INVARIANTS
  CallsReachOwnRing SlotsAreAccountedFor
  NothingLeaks PointersInsideMaps ChildrenGetNoMapping
PROPERTY SubmittedIsReaped
