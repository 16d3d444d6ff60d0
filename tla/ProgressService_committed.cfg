SPECIFICATION ServiceSpec
CONSTANTS
    MaxEvents = 1
    BATCH_SIZE = 1
    MAX_RETRIES = 0
INVARIANTS
    CommittedIsProcessed
