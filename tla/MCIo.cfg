SPECIFICATION Spec
CONSTANTS
    Width = 4
    Byte = {0, 1}
    MaxLen = 2
    MaxCache = 3
    Borders = {}
INVARIANT TypeOK
INVARIANT LastWrite
