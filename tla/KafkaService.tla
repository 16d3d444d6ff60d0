---------------------------- MODULE KafkaService ----------------------------
(***************************************************************************)
(* KafkaService (src/kafka/kafka.service.ts): one producer, one consumer   *)
(* and one admin client of kafkajs, shared by everything in the process    *)
(* that talks to Kafka, and the two flags that remember which of them have *)
(* been connected.                                                         *)
(*                                                                         *)
(* A step is the code between two awaits.  The clients themselves are      *)
(* external (kafkajs): a producer refuses send() unless it is connected,   *)
(* is "disconnecting" from the call of disconnect() until that resolves,   *)
(* and any of their calls may fail.                                        *)
(***************************************************************************)
EXTENDS Naturals, FiniteSets

CONSTANTS Senders,   \* concurrent calls of sendMessage() and its variants
          Admins     \* concurrent calls of createTopics(), listTopics(), deleteTopics()

VARIABLES
    isProducerConnected, isConsumerConnected,  \* the flags
    producer, consumer, admin,                 \* state of the kafkajs clients
    sends,        \* per sender, where its call is
    consume,      \* where the call of consumeMessages() is
    handling,     \* whether the eachMessage handler runs
    adminOps,     \* per admin caller, where its call is
    lifecycle,    \* where onModuleInit() or onModuleDestroy() -> disconnect() is
    swallowed,    \* disconnect() has met an error
    adminFailed   \* some admin call has failed

producerVars == <<isProducerConnected, producer>>
consumerVars == <<isConsumerConnected, consumer, consume, handling>>
adminVars    == <<admin, adminOps, adminFailed>>
vars == <<producerVars, consumerVars, adminVars, sends, lifecycle, swallowed>>

Lifecycle == {"created", "initialising", "up", "failed",
              "producer", "consumer", "admin",    \* awaited by disconnect()
              "destroyed"}
Disconnecting == lifecycle \in {"producer", "consumer", "admin"}

Init == /\ isProducerConnected = FALSE /\ producer = "disconnected"
        /\ isConsumerConnected = FALSE /\ consumer = "disconnected"
        /\ consume = "idle" /\ handling = FALSE
        /\ admin = "disconnected" /\ adminOps = [a \in Admins |-> "idle"]
        /\ adminFailed = FALSE
        /\ sends = [s \in Senders |-> "idle"]
        /\ lifecycle = "created" /\ swallowed = FALSE

-----------------------------------------------------------------------------
(* The producer: connectProducer(), and the send functions that call it.   *)

(* onModuleInit(): an error ends the bootstrap, and with it the process. *)
OnModuleInit == /\ lifecycle = "created"
                /\ lifecycle' = "initialising"
                /\ UNCHANGED <<producerVars, consumerVars, adminVars, sends, swallowed>>

InitConnected == /\ lifecycle = "initialising"
                 /\ lifecycle' = "up"
                 /\ producer' = "connected"
                 /\ isProducerConnected' = TRUE
                 /\ UNCHANGED <<consumerVars, adminVars, sends, swallowed>>

InitFails == /\ lifecycle = "initialising"
             /\ lifecycle' = "failed"
             /\ UNCHANGED <<producerVars, consumerVars, adminVars, sends, swallowed>>

(* The call, up to the await of producer.connect(), which is skipped when  *)
(* the flag is set.                                                        *)
SendMessage(s) ==
    /\ lifecycle \notin {"created", "initialising", "failed"}
    /\ sends[s] = "idle"
    /\ sends' = [sends EXCEPT ![s] = IF isProducerConnected THEN "ready"
                                                            ELSE "connecting"]
    /\ UNCHANGED <<producerVars, consumerVars, adminVars, lifecycle, swallowed>>

ProducerConnected(s) ==
    /\ sends[s] = "connecting"
    /\ producer' = "connected"
    /\ isProducerConnected' = TRUE
    /\ sends' = [sends EXCEPT ![s] = "ready"]
    /\ UNCHANGED <<consumerVars, adminVars, lifecycle, swallowed>>

Hung(s) ==        \* mutant: the call ends in a state of its own
    /\ sends' = [sends EXCEPT ![s] = "failed"]
    /\ UNCHANGED <<producerVars, consumerVars, adminVars, lifecycle, swallowed>>

(* connect() or send() rejects; the error is logged and thrown on. *)
Ended(s) == /\ sends' = [sends EXCEPT ![s] = "idle"]
            /\ UNCHANGED <<producerVars, consumerVars, adminVars, lifecycle, swallowed>>

ConnectFails(s) == sends[s] = "connecting" /\ Ended(s)

SendWaits(s) ==   \* mutant: send() waits for a connection instead of rejecting
    /\ sends[s] = "ready"
    /\ producer = "connected"
    /\ sends' = [sends EXCEPT ![s] = "sending"]
    /\ UNCHANGED <<producerVars, consumerVars, adminVars, lifecycle, swallowed>>

(* producer.send(): kafkajs checks the state of the client at the call. *)
ProducerSend(s) ==
    /\ sends[s] = "ready"
    /\ IF producer = "connected"
       THEN /\ sends' = [sends EXCEPT ![s] = "sending"]
            /\ UNCHANGED <<producerVars, consumerVars, adminVars, lifecycle, swallowed>>
       ELSE Ended(s)

(* The broker acknowledges, or kafkajs gives up after its retries. *)
SendEnds(s) == sends[s] = "sending" /\ Ended(s)

-----------------------------------------------------------------------------
(* The consumer: consumeMessages() connects it, subscribes and runs it.    *)
(* Nest has initialised this service before anybody calls that.            *)

ConsumeMessages ==
    /\ lifecycle = "up"
    /\ consume = "idle"
    /\ consume' = IF isConsumerConnected THEN "subscribing" ELSE "connecting"
    /\ UNCHANGED <<producerVars, adminVars, sends, lifecycle, swallowed,
                   isConsumerConnected, consumer, handling>>

ConsumerConnected ==
    /\ consume = "connecting"
    /\ consumer' = "connected"
    /\ isConsumerConnected' = TRUE
    /\ consume' = "subscribing"
    /\ UNCHANGED <<producerVars, adminVars, sends, lifecycle, swallowed, handling>>

ConsumerRuns ==
    /\ consume = "subscribing"
    /\ consumer' = "running"
    /\ consume' = "done"
    /\ UNCHANGED <<producerVars, adminVars, sends, lifecycle, swallowed,
                   isConsumerConnected, handling>>

ConsumeFails ==
    /\ consume \in {"connecting", "subscribing"}
    /\ consume' = "failed"
    /\ UNCHANGED <<producerVars, adminVars, sends, lifecycle, swallowed,
                   isConsumerConnected, consumer, handling>>

(* eachMessage: what the handler throws is logged and swallowed. *)
HandleMessage ==
    /\ consumer = "running" /\ ~handling
    /\ handling' = TRUE
    /\ UNCHANGED <<producerVars, adminVars, sends, lifecycle, swallowed,
                   isConsumerConnected, consumer, consume>>

HandlerEnds ==
    /\ handling
    /\ handling' = FALSE
    /\ UNCHANGED <<producerVars, adminVars, sends, lifecycle, swallowed,
                   isConsumerConnected, consumer, consume>>

(* kafkajs stops the consumer when the broker fails it for good, and starts *)
(* it again if the error allows that; the service listens to neither.       *)
ConsumerCrashes ==
    /\ consumer = "running"
    /\ consumer' = "crashed"
    /\ UNCHANGED <<producerVars, adminVars, sends, lifecycle, swallowed,
                   isConsumerConnected, consume, handling>>

ConsumerRestarts ==
    /\ consumer = "crashed"
    /\ consumer' = "running"
    /\ UNCHANGED <<producerVars, adminVars, sends, lifecycle, swallowed,
                   isConsumerConnected, consume, handling>>

-----------------------------------------------------------------------------
(* The admin client: connect, do the work, disconnect.  When a step fails, *)
(* the rest is skipped.                                                    *)

AdminStep(a, from, to) == /\ adminOps[a] = from
                          /\ adminOps' = [adminOps EXCEPT ![a] = to]
                          /\ UNCHANGED <<producerVars, consumerVars, sends,
                                         lifecycle, swallowed>>

AdminCall(a) == /\ lifecycle = "up"
                /\ AdminStep(a, "idle", "connecting")
                /\ UNCHANGED <<admin, adminFailed>>

AdminConnected(a) == /\ AdminStep(a, "connecting", "working")
                     /\ admin' = "connected"
                     /\ UNCHANGED adminFailed

AdminWorkDone(a) == /\ AdminStep(a, "working", "disconnecting")
                    /\ admin = "connected"
                    /\ UNCHANGED <<admin, adminFailed>>

AdminStaysOpen(a) == /\ AdminStep(a, "disconnecting", "idle")   \* mutant
                     /\ UNCHANGED <<admin, adminFailed>>

AdminDisconnected(a) == /\ AdminStep(a, "disconnecting", "idle")
                        /\ admin' = "disconnected"
                        /\ UNCHANGED adminFailed

AdminFails(a) == /\ \/ AdminStep(a, "connecting", "idle")
                    \/ AdminStep(a, "working", "idle")
                    \/ AdminStep(a, "disconnecting", "idle")
                 /\ adminFailed' = TRUE
                 /\ UNCHANGED admin

-----------------------------------------------------------------------------
(* onModuleDestroy() -> disconnect(): producer, consumer and admin client, *)
(* one after the other; those whose flag is not set are passed over.       *)

AwaitAdmin == lifecycle' = "admin" /\ UNCHANGED consumerVars

AwaitNoConsumer ==   \* mutant: consumer.disconnect() is called and not awaited
    \/ /\ isConsumerConnected
       /\ lifecycle' = "admin"
       /\ consumer' = "disconnecting"
       /\ isConsumerConnected' = FALSE
       /\ UNCHANGED <<consume, handling>>
    \/ ~isConsumerConnected /\ AwaitAdmin

AwaitConsumer ==
    \/ /\ isConsumerConnected
       /\ lifecycle' = "consumer"
       /\ consumer' = "disconnecting"
       /\ UNCHANGED <<isConsumerConnected, consume, handling>>
    \/ ~isConsumerConnected /\ AwaitAdmin

OnModuleDestroy ==
    /\ lifecycle = "up"
    /\ consume \in {"idle", "done"}
    /\ \/ /\ isProducerConnected
          /\ lifecycle' = "producer"
          /\ producer' = "disconnecting"
          /\ UNCHANGED <<isProducerConnected, consumerVars>>
       \/ /\ ~isProducerConnected
          /\ AwaitConsumer
          /\ UNCHANGED producerVars
    /\ UNCHANGED <<adminVars, sends, swallowed>>

ProducerFlagKept ==   \* mutant: isProducerConnected is not reset
    /\ lifecycle = "producer"
    /\ producer' = "disconnected"
    /\ AwaitConsumer
    /\ UNCHANGED <<isProducerConnected, adminVars, sends, swallowed>>

ProducerDisconnected ==
    /\ lifecycle = "producer"
    /\ producer' = "disconnected"
    /\ isProducerConnected' = FALSE
    /\ AwaitConsumer
    /\ UNCHANGED <<adminVars, sends, swallowed>>

(* kafkajs lets the running handler finish first. *)
ConsumerDisconnected ==
    /\ lifecycle = "consumer"
    /\ ~handling
    /\ consumer' = "disconnected"
    /\ isConsumerConnected' = FALSE
    /\ lifecycle' = "admin"
    /\ UNCHANGED <<producerVars, adminVars, sends, consume, handling, swallowed>>

AdminDisconnectedAtLast ==
    /\ lifecycle = "admin"
    /\ admin' = "disconnected"
    /\ lifecycle' = "destroyed"
    /\ UNCHANGED <<producerVars, consumerVars, adminOps, adminFailed, sends, swallowed>>

DisconnectRetried ==   \* mutant: after an error disconnect() starts again
    /\ Disconnecting
    /\ swallowed' = TRUE
    /\ lifecycle' = "producer"
    /\ UNCHANGED <<producerVars, consumerVars, adminVars, sends>>

(* Any of the three may fail: the error is swallowed and the rest skipped. *)
DisconnectFails ==
    /\ Disconnecting
    /\ swallowed' = TRUE
    /\ lifecycle' = "destroyed"
    /\ UNCHANGED <<producerVars, consumerVars, adminVars, sends>>

-----------------------------------------------------------------------------
SendStep(s) == \/ ProducerConnected(s) \/ ConnectFails(s)
               \/ ProducerSend(s) \/ SendEnds(s)

ConsumeStep == ConsumerConnected \/ ConsumerRuns \/ ConsumeFails

AdminWorks(a) == \/ AdminConnected(a) \/ AdminWorkDone(a)
                 \/ AdminDisconnected(a) \/ AdminFails(a)

DisconnectStep == \/ ProducerDisconnected \/ ConsumerDisconnected
                  \/ AdminDisconnectedAtLast \/ DisconnectFails

Next == \/ OnModuleInit \/ InitConnected \/ InitFails
        \/ \E s \in Senders : SendMessage(s) \/ SendStep(s)
        \/ ConsumeMessages \/ ConsumeStep
        \/ HandleMessage \/ HandlerEnds \/ ConsumerCrashes \/ ConsumerRestarts
        \/ \E a \in Admins : AdminCall(a) \/ AdminWorks(a)
        \/ OnModuleDestroy \/ DisconnectStep

Spec == Init /\ [][Next]_vars

(* Calls to kafkajs settle: it has time-outs and bounded retries.  Handlers *)
(* return, as EventsKafkaConsumerService never awaits anything in its own.  *)
Fairness == /\ \A s \in Senders : WF_vars(SendStep(s))
            /\ WF_vars(ConsumeStep)
            /\ WF_vars(HandlerEnds)
            /\ \A a \in Admins : WF_vars(AdminWorks(a))
            /\ WF_vars(DisconnectStep)

FairSpec == Spec /\ Fairness

-----------------------------------------------------------------------------
(* Every variable has its type. *)
TypeOK ==
    /\ isProducerConnected \in BOOLEAN /\ isConsumerConnected \in BOOLEAN
    /\ producer \in {"disconnected", "connected", "disconnecting"}
    /\ consumer \in {"disconnected", "connected", "running", "crashed", "disconnecting"}
    /\ admin \in {"disconnected", "connected"}
    /\ sends \in [Senders -> {"idle", "connecting", "ready", "sending"}]
    /\ consume \in {"idle", "connecting", "subscribing", "done", "failed"}
    /\ handling \in BOOLEAN
    /\ adminOps \in [Admins -> {"idle", "connecting", "working", "disconnecting"}]
    /\ lifecycle \in Lifecycle
    /\ swallowed \in BOOLEAN /\ adminFailed \in BOOLEAN

(* Unless disconnect() is waiting for the producer, or has failed, the flag *)
(* isProducerConnected tells whether send() will be let through: senders    *)
(* that overlap with the shutdown, and reconnect, do not leave it wrong.    *)
ProducerFlagTruthful ==
    lifecycle # "producer" /\ ~swallowed
       => (isProducerConnected <=> producer = "connected")

(* As long as no admin call fails, concurrent calls share the admin client  *)
(* without ever leaving it connected behind them.                           *)
AdminClosedBehind ==
    ~adminFailed /\ (\A a \in Admins : adminOps[a] = "idle")
       => admin = "disconnected"

(* When isConsumerReady() says no, no consumer is connected and no handler  *)
(* runs; and that is how disconnect() leaves it, unless it met an error,    *)
(* whatever was handled, crashed or restarted meanwhile.                    *)
ConsumerQuiet ==
    /\ ~isConsumerConnected => consumer = "disconnected" /\ ~handling
    /\ lifecycle = "destroyed" /\ ~swallowed => ~isConsumerConnected

(* Every call of sendMessage() settles, also when it meets the shutdown.    *)
SendsSettle == \A s \in Senders : sends[s] # "idle" ~> sends[s] = "idle"

(* disconnect() returns, whatever is being sent or handled meanwhile.       *)
DisconnectReturns == Disconnecting ~> lifecycle = "destroyed"

(* "Disconnect producer and consumer": when disconnect() has returned and   *)
(* met no error, neither of them is connected.                              *)
DisconnectedAtReturn ==
    lifecycle = "destroyed" /\ ~swallowed
       => producer = "disconnected" /\ consumer = "disconnected"
=============================================================================
