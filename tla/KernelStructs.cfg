\* A ring with fewer buffers than entries and a tail that wraps after two turns;
\* every length of a field of a message, every cut of a part, buffers used twice;
\* every builder with every choice of its arguments and up to three setters, save
\* ReadMulti and the close of the last slot.
SPECIFICATION FairPartsSpec
CONSTANTS
    RingEntries = 4
    IndexMod = 8
    BufCnt = 3
    MaxRegistrations = 1
    MaxBundle = 1
    Buffers <- MCBuffers
    BufferLen <- MCBufferLen
    DataStart = 1
    UsizeMod <- MCUsizeMod
    MsgHdrs <- MCMsgHdrs
    Messages <- MCMessages
    MaxSequence = 2
    Ops <- MCSoundOps
    LastSlotUsed = FALSE
    UserFlags = {"IO_LINK", "ASYNC"}
    UserData = {"ud1", "ud2"}
    Personalities = {"p1"}
    MaxSetters = 3
INVARIANTS BuffersOwnedOnce SlicesShowTheMessage TruncationIsReported
    EntrySaysWhatWasAsked TargetsAsGiven
PROPERTIES ImplementsPool BuffersComeBack
CHECK_DEADLOCK FALSE
