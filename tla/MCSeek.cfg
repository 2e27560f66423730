SPECIFICATION Spec
CONSTANTS
    Offsets = {"a", "b", "c"}
    Cursors = {0, 1}
    R_IO_UNDOS = 4
    Borders = {}
INVARIANT TypeOK
PROPERTY LogSpec
