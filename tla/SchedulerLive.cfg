\* No event is lost; the executor or the commit wrapper may die at any moment.
SPECIFICATION FairSpec
CONSTANTS
    MaxWave = 3
    Threshold = 2
    EventCap = 6
    ExecCap = 1
    BpCap = 6
    CommitCap = 1
    Delay = TRUE
    MayStop <- BothTasks
PROPERTIES
    HardCommitDelivered
    ShutdownDrains
    StopPropagates
