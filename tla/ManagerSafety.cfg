\* Four authors, three rounds, batches of up to three blocks: the large DAGs in causal order,
\* the small ones in any order and with redelivery.
CONSTANTS
    N = 4
    MaxRound = 3
    Dags <- AllDags
    Reordered <- AnyOrder
    MaxBatch = 3
    Redelivery = TRUE
    Synced <- Refetched
SPECIFICATION ManagerSpec
INVARIANT TypeOK
INVARIANT NothingLost
INVARIANT WaitersRegistered
INVARIANT AncestorsReceived
INVARIANT ClockExact
INVARIANT HistoryComplete
INVARIANT CausalNeverWaits
INVARIANT ClockBackedByQuorum
PROPERTY ClockMonotone
\* A causal delivery ends when every block has been delivered.
CHECK_DEADLOCK FALSE
