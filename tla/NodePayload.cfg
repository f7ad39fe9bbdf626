\* Two waves, every block after its ancestors.
CONSTANTS
    N = 4
    MaxRound = 8
    Dags <- SomeDags
    MaxBatch = 1
    Reordered <- NoDag
    Redelivery = FALSE
    Synced <- NoBlock
    WholeRounds <- Warmup
SPECIFICATION Spec
INVARIANT SoftMatchesHard
\* Every block has been delivered once.
CHECK_DEADLOCK FALSE
