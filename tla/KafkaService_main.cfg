\* Two sends and two admin calls that overlap with each other and with shutdown.
SPECIFICATION FairSpec
CONSTANTS
    Senders = {s1, s2}
    Admins  = {a1, a2}
INVARIANTS
    TypeOK
    ProducerFlagTruthful
    AdminClosedBehind
    ConsumerQuiet
PROPERTIES
    SendsSettle
    DisconnectReturns
\* The process ends after onModuleDestroy() or when the bootstrap fails.
CHECK_DEADLOCK FALSE
