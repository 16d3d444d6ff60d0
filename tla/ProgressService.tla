--------------------------- MODULE ProgressService ---------------------------
(***************************************************************************)
(* The process as a whole: the HTTP controller and the consumer of         *)
(* 'dualmatch:question' feed the event queue, the queue sends through the  *)
(* Kafka service, and Nest starts and stops them in the order of the       *)
(* modules' imports:                                                       *)
(*   start:  KafkaModule; EventsModule (queue and consumer); HTTP server   *)
(*   stop:   EventsModule (drain); KafkaModule (disconnect); HTTP server   *)
(***************************************************************************)
EXTENDS EventQueue

VARIABLES
    \* KafkaService
    isProducerConnected, isConsumerConnected, producer, consumer, admin, sends,
    consume, handling, adminOps, lifecycle, swallowed, adminFailed,
    \* the process
    listening,   \* the HTTP server accepts requests
    resolved,    \* events of the messages read since the consumer joined its
                 \* group whose offset is not committed yet
    committed    \* events of messages whose offset has been committed

Kafka == INSTANCE KafkaService WITH Senders <- Events, Admins <- {}

kafkaVars == <<isProducerConnected, isConsumerConnected, producer, consumer, admin,
               sends, consume, handling, adminOps, lifecycle, swallowed, adminFailed>>
process == <<listening, resolved, committed>>
allVars == <<vars, kafkaVars, process>>

ServiceInit == /\ Init
               /\ Kafka!Init
               /\ listening = FALSE
               /\ resolved = {} /\ committed = {}

-----------------------------------------------------------------------------
(* Start: bootstrap() -> app.listen() initialises the modules first. *)

StartKafka == /\ Kafka!OnModuleInit \/ Kafka!InitConnected
              /\ UNCHANGED <<vars, process>>

StartQueue == /\ OnModuleInit
              /\ lifecycle = "up"
              /\ UNCHANGED <<kafkaVars, process>>

StartConsumer == /\ phase = "running"
                 /\ Kafka!ConsumeMessages \/ Kafka!ConsumerConnected \/ Kafka!ConsumerRuns
                 /\ UNCHANGED <<vars, process>>

Listen == /\ phase = "running" /\ consume = "done" /\ ~listening
          /\ listening' = TRUE
          /\ UNCHANGED <<vars, kafkaVars, resolved, committed>>

-----------------------------------------------------------------------------
(* Work. *)

(* POST /events: the controller refuses a request without x-user-id. *)
IngestEvent == /\ listening
               /\ EnqueueEvent(TRUE)
               /\ UNCHANGED <<kafkaVars, process>>

(* The handler of EventsKafkaConsumerService, given a message it can use. *)
ConsumeMessage == /\ Kafka!HandleMessage
                  /\ \E hasUser \in BOOLEAN : EnqueueEvent(hasUser)
                  /\ resolved' = resolved \cup {eventCounter'}
                  /\ UNCHANGED <<listening, committed>>

HandlerReturns == /\ Kafka!HandlerEnds
                  /\ UNCHANGED <<vars, process>>

(* kafkajs, at the end of a batch of messages.  A message read again is an  *)
(* event of its own.                                                        *)
CommitOffsets == /\ consumer \in {"running", "disconnecting"} /\ ~handling
                 /\ resolved # {}
                 /\ committed' = committed \cup resolved
                 /\ resolved' = {}
                 /\ UNCHANGED <<vars, kafkaVars, listening>>

RunBatches == /\ Tick \/ \E c \in Callers : BatchSettled(c)
              /\ UNCHANGED <<kafkaVars, process>>

(* processSingleEvent() calls sendMessage() in the step in which save()    *)
(* has resolved; the send may have to connect first.                       *)
Save(c, e) == /\ \/ SaveSucceeds(c, e) /\ Kafka!SendMessage(e)
                 \/ SaveFails(c, e) /\ UNCHANGED kafkaVars
              /\ UNCHANGED process

(* mutant: sendMessage() logs an error and returns *)
SendSwallows(c, e) ==
    /\ e \in batch[c]
    /\ \/ Kafka!ProducerConnected(e) /\ UNCHANGED vars
       \/ Kafka!ProducerSend(e) /\ sends'[e] = "sending" /\ UNCHANGED vars
       \/ Kafka!ProducerSend(e) /\ sends'[e] = "idle" /\ SendSucceeds(c, e)
       \/ /\ Kafka!SendEnds(e) \/ Kafka!ConnectFails(e)
          /\ stage' = [stage EXCEPT ![e] = "published"]
          /\ batch' = [batch EXCEPT ![c] = @ \ {e}]
          /\ UNCHANGED <<inMemoryQueue, isProcessing, calls, stores, eventCounter,
                         processingInterval, retryCount, phase, anonymous>>
    /\ UNCHANGED process

Send(c, e) ==
    /\ e \in batch[c]
    /\ \/ Kafka!ProducerConnected(e) /\ UNCHANGED vars
       \/ Kafka!ProducerSend(e) /\ sends'[e] = "sending" /\ UNCHANGED vars
       \/ Kafka!ProducerSend(e) /\ sends'[e] = "idle" /\ SendFails(c, e) /\ msgs' = msgs
       \/ Kafka!ConnectFails(e) /\ SendFails(c, e) /\ msgs' = msgs
       \/ Kafka!SendEnds(e) /\ (SendSucceeds(c, e) \/ SendFails(c, e))
    /\ UNCHANGED process

BrokerTrouble == /\ \/ Kafka!ConsumerCrashes /\ UNCHANGED resolved
                    \/ Kafka!ConsumerRestarts /\ resolved' = {}
                 /\ UNCHANGED <<vars, listening, committed>>

-----------------------------------------------------------------------------
(* Shutdown on SIGTERM, and the end of the process. *)

StopQueue == /\ listening
             /\ OnModuleDestroy \/ DrainLoop
             /\ UNCHANGED <<kafkaVars, process>>

StopKafkaAtOnce ==   \* mutant: KafkaModule is destroyed without waiting
    /\ phase \in {"draining", "drained"}
    /\ Kafka!OnModuleDestroy \/ Kafka!DisconnectStep
    /\ UNCHANGED <<vars, process>>

StopKafka == /\ phase = "drained"
             /\ Kafka!OnModuleDestroy \/ Kafka!DisconnectStep
             /\ UNCHANGED <<vars, process>>

StopListening == /\ lifecycle = "destroyed" /\ listening
                 /\ listening' = FALSE
                 /\ UNCHANGED <<vars, kafkaVars, resolved, committed>>

(* A message can have arrived only if it was handed to the broker. *)
MemoryGone == /\ isProducerConnected' = FALSE /\ producer' = "disconnected"
              /\ isConsumerConnected' = FALSE /\ consumer' = "disconnected"
              /\ consume' = "idle" /\ handling' = FALSE
              /\ sends' = [e \in Events |-> "idle"]
              /\ \A e \in Events : msgs'[e] # msgs[e] => sends[e] = "sending"
              /\ lifecycle' = "created" /\ swallowed' = FALSE
              /\ listening' = FALSE /\ resolved' = {}
              /\ UNCHANGED <<admin, adminOps, adminFailed, committed>>

Exit == /\ lifecycle = "destroyed" /\ ~listening
        /\ ProcessExit
        /\ MemoryGone

(* At any time from the start of the Kafka service to the exit.  A          *)
(* bootstrap that fails ends the same way: main.ts exits, the container is  *)
(* restarted.                                                               *)
Killed == \/ (Crash \/ ProcessExit) /\ MemoryGone
          \/ /\ phase = "created" /\ lifecycle \in {"initialising", "up"}
             /\ UNCHANGED vars
             /\ MemoryGone

-----------------------------------------------------------------------------
ServiceNext ==
    \/ StartKafka \/ StartQueue \/ StartConsumer \/ Listen
    \/ IngestEvent \/ ConsumeMessage \/ HandlerReturns \/ CommitOffsets
    \/ RunBatches \/ BrokerTrouble
    \/ \E c \in Callers, e \in Events : Save(c, e) \/ Send(c, e)
    \/ StopQueue \/ StopKafka \/ StopListening \/ Exit \/ Killed

ServiceSpec == ServiceInit /\ [][ServiceNext]_allVars

(* As in EventQueue and KafkaService; closing the server ends. *)
ServiceFairness ==
    /\ WF_allVars(HandlerReturns) /\ WF_allVars(RunBatches)
    /\ \A c \in Callers, e \in Events : WF_allVars(Save(c, e) \/ Send(c, e))
    /\ WF_allVars(DrainLoop /\ StopQueue)
    /\ WF_allVars(StopKafka) /\ WF_allVars(StopListening) /\ WF_allVars(Exit)

FairServiceSpec == ServiceSpec /\ ServiceFairness

-----------------------------------------------------------------------------
(* Every variable of the process has its type, and the Kafka service's do. *)
ServiceTypeOK == /\ TypeOK
                 /\ Kafka!TypeOK
                 /\ listening \in BOOLEAN
                 /\ resolved \subseteq Events /\ committed \subseteq Events

(* The queue can send as long as somebody reads it: Nest starts the Kafka  *)
(* service before the queue and stops it after the drain, so no event      *)
(* fails, or costs a retry, for want of a connected producer until then.   *)
ProducerReadyWhileQueueRuns ==
    phase \in {"running", "draining"} => isProducerConnected /\ producer = "connected"

(* The service as a whole does with its events only what the event queue   *)
(* alone may do: all that holds of EventQueue holds of the service.        *)
ImplementsQueue == Spec

(* Every accepted event meets its end: published, dropped, or lost with    *)
(* the process; none stays unsettled for ever, in particular no send of a  *)
(* batch that overlaps with the disconnecting of the producer.             *)
EveryEventEnds ==
    \A e \in Events : stage[e] \in Unsettled ~> stage[e] \notin Unsettled

(* A shutdown that has begun comes to its end, whatever is in flight or    *)
(* fails meanwhile, once no more events arrive: the HTTP server and the    *)
(* consumer go on accepting them, and nothing bounds how long the drain    *)
(* may read what they accept.                                              *)
ShutdownCompletes == phase \in {"draining", "drained"} ~> phase = "created"

(* "Event has been accepted and queued for processing" is answered only as *)
(* long as the queue is read.                                              *)
AcceptedIsRead ==
    [][eventCounter' # eventCounter /\ resolved' = resolved
         => phase \in {"running", "draining"}]_allVars

(* "Successfully processed dualmatch:question event" is logged, and the    *)
(* offset committed, only of messages whose event can no longer be lost.   *)
CommittedIsProcessed == \A e \in committed : stage[e] # "lost"
=============================================================================
