\* Two slots, indices that wrap around every four turns, a kernel that keeps or
\* drops what finds no room, and a program that keeps reaping.
CONSTANTS
  IndexMod = 8
  RingEntries = 2
  Entry = {c1, c2}
  NoEntry = NoEntry
  MaxFill = 3
  MaxBacklog = 1
SPECIFICATION FairSpec
INVARIANTS IndicesInOrder StatusNeverMissesWork
PROPERTIES NoUnreadSlotOverwritten ImplementsChannel PublishedIsConsumed
