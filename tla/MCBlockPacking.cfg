CONSTANTS
    Blocks <- MCBlocks
    MaxLen = 4
    TX_BATCH_SIZE = 2
    MaxRetry = 1
    MaxAborts = 1
SPECIFICATION Spec
INVARIANTS
    TypeOK
    TransactionsNumbered
    LogsNumbered
    LogsLinked
    CommittedWhole
PROPERTY StoredAtOnce
CHECK_DEADLOCK FALSE
