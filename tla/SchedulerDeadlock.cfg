\* Small channels in both directions and a signalling executor.
SPECIFICATION Spec
CONSTANTS
    MaxWave = 5
    Threshold = 2
    EventCap = 10
    ExecCap = 1
    BpCap = 1
    CommitCap = 1
    Delay = TRUE
    MayStop <- NoTask
INVARIANTS
    NoMutualWait
