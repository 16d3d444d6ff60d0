SPECIFICATION Spec
CONSTANTS
    MaxEvents = 2
    BATCH_SIZE = 2
    MAX_RETRIES = 1
PROPERTIES
    DrainLeavesNothing
