SPECIFICATION MCAlignedSpec
CONSTANTS
    PageWords = 12
    InitWords = 36
    MinWords = 24
    MaxWords = 44
    Sizes <- MCSizes
INVARIANT BlocksDisjoint
CONSTRAINT MCConstraint
