\* Two connections on a queue of two slots, which is full most of the time,
\* sends that go out in parts, calls and requests that fail.  A server with
\* nothing in the kernel waits for ever: that it never does so with work at
\* hand is the question of the properties.
CONSTANTS
  Fd = {f1, f2}
  SqEntries = 2
  AcceptDepth = 1
  MaxLen = 2
  CallErrors = {"EBUSY", "other"}
  RequestErrors = TRUE
SPECIFICATION FairSpec
INVARIANTS OneRequestPerToken BuffersOwnedOnce NeverSleepsOnStaged
PROPERTY WritersListenAgain
CHECK_DEADLOCK FALSE
