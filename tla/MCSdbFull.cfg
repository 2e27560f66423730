SPECIFICATION Spec
CONSTANTS
    Keys = {"k1", "k2"}
    Vals = {"x", "y"}
    FirstLine <- OneLine
    Borders = {"short_write"}
    MaxJournal = 3
PROPERTY SyncAtomic
CHECK_DEADLOCK FALSE
