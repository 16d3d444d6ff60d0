\* Two events, batches of one, one retry: the batch of the timer and that of
\* the drain overlap, and a send meets the disconnecting of the producer.
SPECIFICATION FairServiceSpec
CONSTANTS
    MaxEvents = 2
    BATCH_SIZE = 1
    MAX_RETRIES = 1
INVARIANTS
    ServiceTypeOK
    ProducerReadyWhileQueueRuns
PROPERTIES
    ImplementsQueue
    EveryEventEnds
    ShutdownCompletes
