SPECIFICATION FairSpec
CONSTANTS
    Width = 7
    ArchLens <- X86Lens
    Prog <- LoopProg
    Succ <- LoopSucc
    AnalNext <- LoopNext
    BpAddrs = {1, 3}
    InitPcs = {1, 2}
    MaxBps = 2
    Uses <- StormUses
INVARIANT NoMissedBreakpoint
INVARIANT SignalOnce
PROPERTY Returns
