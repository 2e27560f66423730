SPECIFICATION Spec
CONSTANTS
    Names = {"a", "b", "b!"}
    Filter <- EscapeB
    Size = 2
    Page = 1
    InOffs = {0, 1}
    Bases = {1}
    Aliases = {1}
    Globs = {{"a"}, {"a", "b"}}
    s = s
    t = t
    u = u
    SpaceNames = {s, t, u}
    MaxSpaces = 2
    MaxItems = 2
    MaxList = 2
    MaxStack = 1
    MaxWork = 3
INVARIANT GetByName
CONSTRAINT Bounded
CHECK_DEADLOCK FALSE
