SPECIFICATION TSpec
CONSTANTS
    MaxTasks = 3
    SleepArgs <- MCSleepArgs
    ShellArgs = {}
    ParentPeriod = 50
    ChildPeriod = 10
INVARIANT NeverRefused
PROPERTIES BothLoopsPrint KeepsSchedulerContract
