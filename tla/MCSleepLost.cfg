SPECIFICATION Spec
CONSTANTS
    MaxTasks = 3
    SleepArgs <- MCSleepArgs
    MaxTick = 7
    TickMod = 16
INVARIANT NoTaskLost
CHECK_DEADLOCK FALSE
