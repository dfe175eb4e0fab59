SPECIFICATION Spec
CONSTANTS
    t1 = t1
    t2 = t2
    Task <- MCTask
    Messages <- MCMessages
    Letters <- MCLetters
    Places <- MCPlaces
    Rows = 2
    Cols = 3
    Radix = 4
    MaxOps = 5
SYMMETRY Symmetry
CONSTRAINT Bounded
INVARIANTS TypeOK StoresInVideoMemory RendersShown
CHECK_DEADLOCK FALSE
