----------------------- MODULE ProgressService_proofs -----------------------
(***************************************************************************)
(* Proofs about ProgressService: the service as a whole is an event queue, *)
(* so what is proved of EventQueue holds of it, and the queue never runs   *)
(* without a connected producer.                                           *)
(***************************************************************************)
EXTENDS ProgressService, EventQueue_proofs

-----------------------------------------------------------------------------
(* Every step of the service is a step of the event queue or leaves the    *)
(* queue alone: starting, consuming, sending, stopping and ending are      *)
(* composed of the queue's own steps.                                      *)
LEMMA ServiceStep == [ServiceNext]_allVars => [Next]_vars
<1> SUFFICES ASSUME [ServiceNext]_allVars PROVE [Next]_vars
  OBVIOUS
<1>1. CASE StartKafka
  BY <1>1 DEF StartKafka
<1>2. CASE StartQueue
  BY <1>2 DEF StartQueue, Next
<1>3. CASE StartConsumer
  BY <1>3 DEF StartConsumer
<1>4. CASE Listen
  BY <1>4 DEF Listen
<1>5. CASE IngestEvent
  BY <1>5 DEF IngestEvent, Next
<1>6. CASE ConsumeMessage
  BY <1>6 DEF ConsumeMessage, Next
<1>7. CASE HandlerReturns
  BY <1>7 DEF HandlerReturns
<1>8. CASE CommitOffsets
  BY <1>8 DEF CommitOffsets
<1>9. CASE RunBatches
  BY <1>9 DEF RunBatches, Next
<1>10. CASE BrokerTrouble
  BY <1>10 DEF BrokerTrouble
<1>11. ASSUME NEW c \in Callers, NEW e \in Events, Save(c, e) PROVE [Next]_vars
  BY <1>11 DEF Save, Next, Settle
<1>12. ASSUME NEW c \in Callers, NEW e \in Events, Send(c, e) PROVE [Next]_vars
  BY <1>12 DEF Send, Next, Settle
<1>13. CASE StopQueue
  BY <1>13 DEF StopQueue, Next
<1>14. CASE StopKafka
  BY <1>14 DEF StopKafka
<1>15. CASE StopListening
  BY <1>15 DEF StopListening
<1>16. CASE Exit
  BY <1>16 DEF Exit, Next
<1>17. CASE Killed
  BY <1>17 DEF Killed, Next
<1>18. CASE UNCHANGED allVars
  BY <1>18 DEF allVars
<1> QED
  BY <1>1, <1>2, <1>3, <1>4, <1>5, <1>6, <1>7, <1>8, <1>9, <1>10, <1>11, <1>12,
     <1>13, <1>14, <1>15, <1>16, <1>17, <1>18 DEF ServiceNext

(* The composition implements the event queue: nothing the controller, the *)
(* consumer, the Kafka service or the shutdown sequence does to an event   *)
(* is beyond what EventQueue allows.                                       *)
THEOREM ServiceImplementsQueue == ServiceSpec => ImplementsQueue
<1>1. ServiceInit => Init
  BY DEF ServiceInit
<1> QED
  BY <1>1, ServiceStep, PTL DEF ServiceSpec, ImplementsQueue, Spec

(* So in the running service, too, no event is ever in two places.         *)
THEOREM ServiceOnePlace == ServiceSpec => []OnePlace
  BY ServiceImplementsQueue, OnePlaceHolds, PTL DEF ImplementsQueue

(* And the service as a whole keeps the bounds of at-least-once delivery.  *)
THEOREM ServiceDelivery == ServiceSpec => []DeliveryBounds
  BY ServiceImplementsQueue, DeliveryBounded, PTL DEF ImplementsQueue

(* The delivery contract, in whose place EventsController and              *)
(* ConsumedEvents see the queue, holds of the whole service.               *)
THEOREM ServiceContract == ServiceSpec => ImplementsContract
  BY ServiceImplementsQueue, Refinement, PTL DEF ImplementsQueue

-----------------------------------------------------------------------------
(* Why the producer is there while the queue runs: the queue is started    *)
(* after the Kafka service and stopped before it, and between the two      *)
(* nothing disconnects the producer.                                       *)
StartedInOrder ==
    /\ phase \in {"running", "draining"} => lifecycle = "up"
    /\ lifecycle = "up" => isProducerConnected /\ producer = "connected"

LEMMA StartedInOrderStep == StartedInOrder /\ [ServiceNext]_allVars => StartedInOrder'
<1> SUFFICES ASSUME StartedInOrder, [ServiceNext]_allVars PROVE StartedInOrder'
  OBVIOUS
<1> USE DEF StartedInOrder, kafkaVars
<1>1. CASE StartKafka
  BY <1>1 DEF StartKafka, Kafka!OnModuleInit, Kafka!InitConnected, vars,
     Kafka!producerVars
<1>2. CASE StartQueue
  BY <1>2 DEF StartQueue
<1>3. CASE StartConsumer
  BY <1>3 DEF StartConsumer, Kafka!ConsumeMessages, Kafka!ConsumerConnected,
     Kafka!ConsumerRuns, Kafka!producerVars, vars
<1>4. CASE Listen
  BY <1>4 DEF Listen, vars
<1>5. CASE IngestEvent
  BY <1>5 DEF IngestEvent, EnqueueEvent
<1>6. CASE ConsumeMessage
  BY <1>6 DEF ConsumeMessage, EnqueueEvent, Kafka!HandleMessage, Kafka!producerVars
<1>7. CASE HandlerReturns
  BY <1>7 DEF HandlerReturns, Kafka!HandlerEnds, Kafka!producerVars, vars
<1>8. CASE CommitOffsets
  BY <1>8 DEF CommitOffsets, vars
<1>9. CASE RunBatches
  BY <1>9 DEF RunBatches, Tick, BatchSettled
<1>10. CASE BrokerTrouble
  BY <1>10 DEF BrokerTrouble, Kafka!ConsumerCrashes, Kafka!ConsumerRestarts,
     Kafka!producerVars, vars
<1>11. ASSUME NEW c \in Callers, NEW e \in Events, Save(c, e) PROVE StartedInOrder'
  BY <1>11 DEF Save, SaveSucceeds, SaveFails, HandleError, Kafka!SendMessage,
     Kafka!producerVars
<1>12. ASSUME NEW c \in Callers, NEW e \in Events, Send(c, e) PROVE StartedInOrder'
  <2>1. phase' = phase
    BY <1>12 DEF Send, SendSucceeds, SendFails, HandleError, vars
  <2>2. /\ lifecycle' = lifecycle
        /\ \/ UNCHANGED <<isProducerConnected, producer>>
           \/ isProducerConnected' /\ producer' = "connected"
    BY <1>12 DEF Send, Kafka!ProducerConnected, Kafka!ProducerSend, Kafka!ConnectFails,
       Kafka!SendEnds, Kafka!Ended, Kafka!producerVars
  <2> QED
    BY <2>1, <2>2
<1>13. CASE StopQueue
  BY <1>13 DEF StopQueue, OnModuleDestroy, DrainLoop, DrainStep
<1>14. CASE StopKafka
  <2>1. phase = "drained" /\ phase' = phase
    BY <1>14 DEF StopKafka, vars
  <2>2. lifecycle' # "up"
    BY <1>14 DEF StopKafka, Kafka!OnModuleDestroy, Kafka!DisconnectStep,
       Kafka!ProducerDisconnected, Kafka!ConsumerDisconnected,
       Kafka!AdminDisconnectedAtLast, Kafka!DisconnectFails, Kafka!AwaitConsumer,
       Kafka!AwaitAdmin
  <2> QED
    BY <2>1, <2>2
<1>15. CASE StopListening
  BY <1>15 DEF StopListening, vars
<1>16. CASE Exit
  BY <1>16 DEF Exit, ProcessExit, Terminate, MemoryGone
<1>17. CASE Killed
  BY <1>17 DEF Killed, Crash, ProcessExit, Terminate, MemoryGone, vars
<1>18. CASE UNCHANGED allVars
  BY <1>18 DEF allVars, vars
<1> QED
  BY <1>1, <1>2, <1>3, <1>4, <1>5, <1>6, <1>7, <1>8, <1>9, <1>10, <1>11, <1>12,
     <1>13, <1>14, <1>15, <1>16, <1>17, <1>18 DEF ServiceNext

(* From the start of the queue to the end of its drain the producer is     *)
(* connected: no event fails for want of a connection, however the timer's *)
(* batch, the drain, the consumer's trouble and crashes interleave.        *)
THEOREM ProducerReady == ServiceSpec => []ProducerReadyWhileQueueRuns
<1>1. ServiceInit => StartedInOrder
  BY DEF ServiceInit, Init, Kafka!Init, StartedInOrder
<1>2. StartedInOrder => ProducerReadyWhileQueueRuns
  BY DEF StartedInOrder, ProducerReadyWhileQueueRuns
<1> QED
  BY <1>1, <1>2, StartedInOrderStep, PTL DEF ServiceSpec

(* The flags of KafkaService keep their types: the service takes steps of  *)
(* KafkaService, and starts it anew with the process.                      *)
LEMMA KafkaTypeStep == Kafka!TypeOK /\ [ServiceNext]_allVars => Kafka!TypeOK'
<1> SUFFICES ASSUME Kafka!TypeOK, [ServiceNext]_allVars PROVE Kafka!TypeOK'
  OBVIOUS
<1>0. ASSUME UNCHANGED kafkaVars PROVE Kafka!TypeOK'
  BY <1>0 DEF Kafka!TypeOK, Kafka!Lifecycle, kafkaVars
<1> USE DEF Kafka!TypeOK, Kafka!Lifecycle, Kafka!producerVars, Kafka!consumerVars,
            Kafka!adminVars
<1>1. CASE StartKafka
  <2>1. CASE Kafka!OnModuleInit
    BY <2>1 DEF Kafka!OnModuleInit
  <2>2. CASE Kafka!InitConnected
    BY <2>2 DEF Kafka!InitConnected
  <2> QED
    BY <1>1, <2>1, <2>2 DEF StartKafka
<1>2. CASE StartConsumer
  <2>1. CASE Kafka!ConsumeMessages
    BY <2>1 DEF Kafka!ConsumeMessages
  <2>2. CASE Kafka!ConsumerConnected
    BY <2>2 DEF Kafka!ConsumerConnected
  <2>3. CASE Kafka!ConsumerRuns
    BY <2>3 DEF Kafka!ConsumerRuns
  <2> QED
    BY <1>2, <2>1, <2>2, <2>3 DEF StartConsumer
<1>3. CASE ConsumeMessage
  BY <1>3 DEF ConsumeMessage, Kafka!HandleMessage
<1>4. CASE HandlerReturns
  <2>1. handling' \in BOOLEAN
    BY <1>4 DEF HandlerReturns, Kafka!HandlerEnds
  <2>2. UNCHANGED <<isProducerConnected, isConsumerConnected, producer, consumer, admin,
                    sends, consume, adminOps, lifecycle, swallowed, adminFailed>>
    BY <1>4 DEF HandlerReturns, Kafka!HandlerEnds
  <2> QED
    BY <2>1, <2>2
<1>5. CASE BrokerTrouble
  <2>1. CASE Kafka!ConsumerCrashes
    BY <2>1 DEF Kafka!ConsumerCrashes
  <2>2. CASE Kafka!ConsumerRestarts
    BY <2>2 DEF Kafka!ConsumerRestarts
  <2> QED
    BY <1>5, <2>1, <2>2 DEF BrokerTrouble
<1>6. ASSUME NEW c \in Callers, NEW e \in Events, Save(c, e) PROVE Kafka!TypeOK'
  <2>1. CASE Kafka!SendMessage(e)
    BY <2>1 DEF Kafka!SendMessage
  <2> QED
    BY <1>6, <1>0, <2>1 DEF Save
<1>7. ASSUME NEW c \in Callers, NEW e \in Events, Send(c, e) PROVE Kafka!TypeOK'
  <2>1. CASE Kafka!ProducerConnected(e)
    BY <2>1 DEF Kafka!ProducerConnected
  <2>2. CASE Kafka!ProducerSend(e)
    <3>1. CASE producer = "connected"
      BY <2>2, <3>1 DEF Kafka!ProducerSend
    <3>2. CASE producer # "connected"
      BY <2>2, <3>2 DEF Kafka!ProducerSend, Kafka!Ended
    <3> QED
      BY <3>1, <3>2
  <2>3. CASE Kafka!ConnectFails(e)
    BY <2>3 DEF Kafka!ConnectFails, Kafka!Ended
  <2>4. CASE Kafka!SendEnds(e)
    BY <2>4 DEF Kafka!SendEnds, Kafka!Ended
  <2> QED
    BY <1>7, <2>1, <2>2, <2>3, <2>4 DEF Send
<1>8. CASE StopKafka
  <2>1. CASE Kafka!OnModuleDestroy
    BY <2>1 DEF Kafka!OnModuleDestroy, Kafka!AwaitConsumer, Kafka!AwaitAdmin
  <2>2. CASE Kafka!ProducerDisconnected
    BY <2>2 DEF Kafka!ProducerDisconnected, Kafka!AwaitConsumer, Kafka!AwaitAdmin
  <2>3. CASE Kafka!ConsumerDisconnected
    BY <2>3 DEF Kafka!ConsumerDisconnected
  <2>4. CASE Kafka!AdminDisconnectedAtLast
    BY <2>4 DEF Kafka!AdminDisconnectedAtLast
  <2>5. CASE Kafka!DisconnectFails
    BY <2>5 DEF Kafka!DisconnectFails
  <2> QED
    BY <1>8, <2>1, <2>2, <2>3, <2>4, <2>5 DEF StopKafka, Kafka!DisconnectStep
<1>9. CASE Exit \/ Killed
  <2> MemoryGone
    BY <1>9 DEF Exit, Killed
  <2> QED
    BY DEF MemoryGone
<1>10. CASE StartQueue \/ Listen \/ IngestEvent \/ CommitOffsets \/ RunBatches
               \/ StopQueue \/ StopListening \/ UNCHANGED allVars
  <2> UNCHANGED kafkaVars
    BY <1>10 DEF StartQueue, Listen, IngestEvent, CommitOffsets, RunBatches, StopQueue,
       StopListening, allVars
  <2> QED
    BY <1>0
<1> QED
  BY <1>1, <1>2, <1>3, <1>4, <1>5, <1>6, <1>7, <1>8, <1>9, <1>10 DEF ServiceNext

(* Only events that the queue has numbered are resolved and committed.     *)
ProcessTypes == /\ listening \in BOOLEAN
                /\ resolved \subseteq Events
                /\ committed \subseteq Events

LEMMA ProcessTypeStep == TypeOK /\ ProcessTypes /\ [ServiceNext]_allVars => ProcessTypes'
<1> SUFFICES ASSUME TypeOK, ProcessTypes, [ServiceNext]_allVars PROVE ProcessTypes'
  OBVIOUS
<1> USE DEF ProcessTypes
<1>1. ASSUME UNCHANGED process PROVE ProcessTypes'
  BY <1>1 DEF process
<1>2. CASE Listen \/ StopListening \/ CommitOffsets \/ BrokerTrouble
  BY <1>2 DEF Listen, StopListening, CommitOffsets, BrokerTrouble
<1>3. CASE ConsumeMessage
  <2>1. PICK hasUser \in BOOLEAN : EnqueueEvent(hasUser)
    BY <1>3 DEF ConsumeMessage
  <2>2. eventCounter < MaxEvents /\ eventCounter' = eventCounter + 1
    BY <2>1 DEF EnqueueEvent
  <2>3. eventCounter' \in Events
    BY <2>2, ConstantsAssumption DEF TypeOK, Events
  <2> QED
    BY <1>3, <2>3 DEF ConsumeMessage
<1>4. CASE Exit \/ Killed
  <2> MemoryGone
    BY <1>4 DEF Exit, Killed
  <2> QED
    BY DEF MemoryGone
<1>5. CASE StartKafka \/ StartQueue \/ StartConsumer \/ IngestEvent \/ HandlerReturns
              \/ RunBatches \/ StopQueue \/ StopKafka \/ UNCHANGED allVars
  BY <1>1, <1>5 DEF StartKafka, StartQueue, StartConsumer, IngestEvent, HandlerReturns,
     RunBatches, StopQueue, StopKafka, allVars
<1>6. ASSUME NEW c \in Callers, NEW e \in Events, Save(c, e) \/ Send(c, e)
      PROVE  ProcessTypes'
  BY <1>1, <1>6 DEF Save, Send
<1> QED
  BY <1>2, <1>3, <1>4, <1>5, <1>6 DEF ServiceNext

(* Queue, Kafka service and process have their types in the composition:   *)
(* also the flags that the end of a process resets in the middle of a call. *)
THEOREM ServiceTypes == ServiceSpec => []ServiceTypeOK
<1>1. ServiceSpec => []TypeOK
  BY ServiceImplementsQueue, TypeCorrect, PTL DEF ImplementsQueue
<1>2. ServiceInit => Kafka!TypeOK /\ ProcessTypes
  BY DEF ServiceInit, Kafka!Init, Kafka!TypeOK, Kafka!Lifecycle, ProcessTypes
<1>3. TypeOK /\ Kafka!TypeOK /\ ProcessTypes => ServiceTypeOK
  BY DEF ServiceTypeOK, ProcessTypes
<1> QED
  BY <1>1, <1>2, <1>3, KafkaTypeStep, ProcessTypeStep, PTL DEF ServiceSpec

-----------------------------------------------------------------------------
(* The order in which events are first tried, the single batch in flight   *)
(* and what the statistics tell are the queue's, and so the service's,     *)
(* whoever of controller and consumer hands in the events.                 *)
THEOREM ServiceOrder ==
  ServiceSpec => [](FirstAttemptsInOrder /\ SingleFlight /\ IdleIsSettled)
  BY ServiceImplementsQueue, FirstAttemptsOrdered, SingleFlightHolds, IdleMeansSettled, PTL
  DEF ImplementsQueue

(* Nor does any step of the service put an event further back, or leave    *)
(* the drain while events wait.                                            *)
THEOREM ServiceSteps == ServiceSpec => NeverPushedBack /\ DrainLeavesOnlyInFlight
  BY ServiceImplementsQueue, NotPushedBack, DrainLeaves, PTL DEF ImplementsQueue
=============================================================================
