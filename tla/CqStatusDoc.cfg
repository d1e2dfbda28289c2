\* The documentation of CompletionStatus::is_empty against the code.
CONSTANTS
  IndexMod = 4
  RingEntries = 2
  Entry = {c1, c2}
  NoEntry = NoEntry
  MaxFill = 2
  MaxBacklog = 1
SPECIFICATION Spec
INVARIANT StatusEmptyWhenAllConsumed
