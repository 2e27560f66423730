SPECIFICATION Spec
CONSTANTS
    Width = 4
    ArchLens  <- X86Lens
    Ptr = {p1, p2, p3}
    NULL = NULL
    Free = Free
    Sizes = {0, 2, 3}
    Fields = {"trace"}
    Deltas = {0}
    Grow = 2
    MaxIdx = 4
    DirtyOps = FALSE
SYMMETRY PtrSymmetry
INVARIANT TypeOK
INVARIANT ListSound
INVARIANT IndexComplete
INVARIANT ObytesExact
INVARIANT CodeIntact
INVARIANT TrapOwned
