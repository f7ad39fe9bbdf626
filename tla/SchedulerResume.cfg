\* A Resume from the executor, and then no further SoftCommit.
SPECIFICATION FairSpec
CONSTANTS
    MaxWave = 3
    Threshold = 2
    EventCap = 6
    ExecCap = 3
    BpCap = 6
    CommitCap = 1
    Delay = TRUE
    MayStop <- NoTask
PROPERTIES
    ResumeFlushes
