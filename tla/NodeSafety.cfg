\* Four authors, two waves, every block after its ancestors; one wave in any order.
CONSTANTS
    N = 4
    MaxRound = 8
    Dags <- BothOrders
    MaxBatch = 1
    Reordered <- OneReordered
    Redelivery = FALSE
    Synced <- NoBlock
    WholeRounds <- Warmup
SPECIFICATION Spec
INVARIANT NodeTypeOK
INVARIANT SubDagsPartition
INVARIANT ViewIndependent
INVARIANT NoDecisionMissed
INVARIANT NoPanic
PROPERTY EventsAsPromised
PROPERTY SoftOnce
\* Every block has been delivered once, or the node has panicked.
CHECK_DEADLOCK FALSE
