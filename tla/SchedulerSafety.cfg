\* Four waves, a broadcast channel that can lag, one-slot channels, tasks that may die.
SPECIFICATION Spec
CONSTANTS
    MaxWave = 4
    Threshold = 2
    EventCap = 2
    ExecCap = 1
    BpCap = 8
    CommitCap = 1
    Delay = TRUE
    MayStop <- BothTasks
INVARIANTS
    TypeOK
    PipelineInv
    ExecutedInRoundOrder
    ConfirmedIffDispatched
    EntryLifetime
    SpeculationBound
    DecisionsInOrder
