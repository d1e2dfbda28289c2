CONSTANTS
    Ops <- MCReadMulti
    LastSlotUsed = FALSE
    UserFlags = {"IO_LINK", "ASYNC"}
    UserData = {"ud1", "ud2"}
    Personalities = {"p1"}
    MaxSetters = 2
SPECIFICATION EntrySpec
INVARIANT TargetsAsGiven
