SPECIFICATION Spec
CONSTANTS
    PageWords = 12
    InitWords = 36
    MinWords = 24
    MaxWords = 44
    Sizes <- MCSizes
INVARIANTS
    TypeOK
    Tiled
    Coalesced
CONSTRAINT MCConstraint
