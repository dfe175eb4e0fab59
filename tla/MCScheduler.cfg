SPECIFICATION FairSpec
CONSTANTS
    MaxTasks = 4
    SleepArgs <- MCSleepArgs
    ShellArgs <- MCShellArgs
INVARIANTS
    TypeOK
    QueuesPartition
    Resumable
    WokenBeforeSuspended
    NoMaskedDeadEnd
    Punctual
PROPERTY EveryTaskRuns
