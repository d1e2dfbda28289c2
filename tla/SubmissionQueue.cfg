\* Four slots, indices that wrap around every two turns, two entries, batches
\* one longer than the ring.
CONSTANTS
  IndexMod = 8
  RingEntries = 4
  Entry = {e1, e2}
  NoEntry = NoEntry
  NoSqArray = FALSE
  MaxBatch = 5
SPECIFICATION FairSpec
INVARIANTS TypeOK LenNeverUnderestimates IndicesInOrder
PROPERTIES NoLiveSlotOverwritten ImplementsChannel RefusedPushGetsRoom
