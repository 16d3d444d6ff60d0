\* Three events, batches of two, one retry: a batch can be full or not, the
\* batches of timer and drain can overlap, and events are retried and dropped.
SPECIFICATION FairSpec
CONSTANTS
    MaxEvents = 3
    BATCH_SIZE = 2
    MAX_RETRIES = 1
INVARIANTS
    TypeOK
    OnePlace
    DeliveryBounds
    FirstAttemptsInOrder
    SingleFlight
    IdleIsSettled
PROPERTIES
    NeverPushedBack
    DrainLeavesOnlyInFlight
    ImplementsContract
    EventuallySettled
    DrainTerminates
