SPECIFICATION Spec
CONSTANTS
    NFrames = 21
    PageSize = 4
    TableSpan = 6
    Placement = 4
    BitmapSize = 1
    DirSize = 9
    HeapTSize = 3
    HeapBase = 12
    IndexPages = 1
    InitPages = 4
    HeapMin = 8
    HeapMax = 24
    Requests <- MCRequests
    Offsets <- MCOffsets
    StackTop = 30
    MaxDirs = 3
    MaxTables = 9
    x = x
    y = y
    Data <- MCData
    Garbage <- MCGarbage
INVARIANTS
    TypeOK
    FramesExclusive
    IdentityMapped
    KernelShared
    StackCloned
    HeapBacked
PROPERTY StacksIsolated

CONSTRAINT MCConstraint
SYMMETRY MCSymmetry
