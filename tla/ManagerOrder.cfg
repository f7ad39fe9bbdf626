\* Two authors, every block delivered once, in any order.
CONSTANTS
    N = 2
    MaxRound = 3
    Dags <- FullDag
    Reordered <- FullDag
    MaxBatch = 1
    Redelivery = FALSE
    Synced <- NoBlock
SPECIFICATION ManagerSpec
INVARIANT HistoryAvailable
\* Every block has been delivered once.
CHECK_DEADLOCK FALSE
