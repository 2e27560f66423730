SPECIFICATION Spec
CONSTANTS
    Width = 4
    Byte = {0, 1}
    MaxLen = 2
    MaxCache = 2
    Borders = {}
INVARIANT WciCommits
