\* Two messages, of which each may be read twice: before and after one crash or
\* rebalance; every event is tried twice.
SPECIFICATION FairConsumedSpec
CONSTANTS
    MaxMessages = 2
    MaxInterrupts = 1
    MaxRetries = 1
INVARIANTS
    ConsumedTypeOK
    NothingPassedOver
    RepeatsBounded
    DocumentsPerMessage
PROPERTIES
    PartitionAdvances
    EveryMessageEnds
\* When the log is full, consumed and processed there is nothing left to do.
CHECK_DEADLOCK FALSE
