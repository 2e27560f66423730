SPECIFICATION Spec
CONSTANTS
    Keys = {"k1", "k2"}
    Vals = {"x", "y"}
    FirstLine <- OneLine
    Borders = {}
    MaxJournal = 3
INVARIANT TypeOK
INVARIANT JournalExact
PROPERTY SyncAtomic
 
CHECK_DEADLOCK FALSE
