\* A skipped leader without a SoftCommit.
SPECIFICATION FairSpec
CONSTANTS
    MaxWave = 2
    Threshold = 2
    EventCap = 6
    ExecCap = 3
    BpCap = 6
    CommitCap = 1
    Delay = FALSE
    MayStop <- NoTask
PROPERTIES
    GapsHandled
