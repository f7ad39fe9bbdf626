\* A leader that was soft-committed and is not hard-committed.
SPECIFICATION Spec
CONSTANTS
    MaxWave = 2
    Threshold = 2
    EventCap = 6
    ExecCap = 3
    BpCap = 6
    CommitCap = 1
    Delay = FALSE
    MayStop <- NoTask
INVARIANTS
    CommitNamesItsBatch
