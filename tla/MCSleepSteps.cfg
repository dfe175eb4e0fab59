SPECIFICATION Spec
CONSTANTS
    MaxTasks = 3
    SleepArgs <- MCSleepArgs
    MaxTick = 6
    TickMod = 8
CONSTRAINT Bounded
INVARIANTS TypeOK SoundUntilPreempted
PROPERTY ImplementsUntilPreempted
CHECK_DEADLOCK FALSE
