------------------------- MODULE KafkaService_proofs -------------------------
(***************************************************************************)
(* Proofs about KafkaService, for any number of concurrent senders and     *)
(* admin callers.                                                          *)
(***************************************************************************)
EXTENDS KafkaService, TLAPS

(* Flag and client agree but for the time between the call of              *)
(* producer.disconnect() and its return, and for ever after it has failed. *)
LEMMA FlagStep == ProducerFlagTruthful /\ [Next]_vars => ProducerFlagTruthful'
<1> SUFFICES ASSUME ProducerFlagTruthful, [Next]_vars PROVE ProducerFlagTruthful'
  OBVIOUS
<1> USE DEF ProducerFlagTruthful, producerVars
<1>1. CASE OnModuleInit \/ InitConnected \/ InitFails
  BY <1>1 DEF OnModuleInit, InitConnected, InitFails
<1>2. ASSUME NEW s \in Senders, SendMessage(s) PROVE ProducerFlagTruthful'
  BY <1>2 DEF SendMessage
<1>3. ASSUME NEW s \in Senders, SendStep(s) PROVE ProducerFlagTruthful'
  <2>1. /\ UNCHANGED <<lifecycle, swallowed>>
        /\ UNCHANGED producerVars \/ (isProducerConnected' = TRUE /\ producer' = "connected")
    BY <1>3 DEF SendStep, ProducerConnected, ConnectFails, ProducerSend, SendEnds, Ended
  <2> QED
    BY <2>1
<1>4. CASE ConsumeMessages \/ ConsumeStep \/ HandleMessage \/ HandlerEnds
              \/ ConsumerCrashes \/ ConsumerRestarts
  BY <1>4 DEF ConsumeMessages, ConsumeStep, ConsumerConnected, ConsumerRuns, ConsumeFails,
     HandleMessage, HandlerEnds, ConsumerCrashes, ConsumerRestarts
<1>5. ASSUME NEW a \in Admins, AdminCall(a) \/ AdminWorks(a) PROVE ProducerFlagTruthful'
  BY <1>5 DEF AdminCall, AdminWorks, AdminConnected, AdminWorkDone, AdminDisconnected,
     AdminFails, AdminStep
<1>6. CASE OnModuleDestroy
  BY <1>6 DEF OnModuleDestroy, AwaitConsumer, AwaitAdmin
<1>7. CASE ProducerDisconnected
  BY <1>7 DEF ProducerDisconnected
<1>8. CASE ConsumerDisconnected \/ AdminDisconnectedAtLast
  BY <1>8 DEF ConsumerDisconnected, AdminDisconnectedAtLast
<1>9. CASE DisconnectFails
  BY <1>9 DEF DisconnectFails
<1>10. CASE UNCHANGED vars
  BY <1>10 DEF vars
<1> QED
  BY <1>1, <1>2, <1>3, <1>4, <1>5, <1>6, <1>7, <1>8, <1>9, <1>10 DEF Next, DisconnectStep

(* However many senders connect the producer again while disconnect() is   *)
(* under way, isProducerReady() tells the truth once the producer's        *)
(* disconnecting is over, unless an error was swallowed.                   *)
THEOREM FlagTruthful == Spec => []ProducerFlagTruthful
<1>1. Init => ProducerFlagTruthful
  BY DEF Init, ProducerFlagTruthful
<1> QED
  BY <1>1, FlagStep, PTL DEF Spec

-----------------------------------------------------------------------------
(* disconnect() begins when no consumeMessages() is under way, passes over  *)
(* the consumer only while its flag is unset, and resets that flag only     *)
(* when the consumer is down.                                               *)
ConsumerInv ==
    /\ ~isConsumerConnected => consumer = "disconnected" /\ ~handling
    /\ lifecycle \in {"producer", "consumer", "admin", "destroyed"}
         => consume \notin {"connecting", "subscribing"}
    /\ lifecycle = "admin" => ~isConsumerConnected
    /\ lifecycle = "destroyed" /\ ~swallowed => ~isConsumerConnected
    /\ consume = "subscribing" => isConsumerConnected

LEMMA ConsumerStep == ConsumerInv /\ [Next]_vars => ConsumerInv'
<1> SUFFICES ASSUME ConsumerInv, [Next]_vars PROVE ConsumerInv'
  OBVIOUS
<1> USE DEF ConsumerInv, consumerVars
<1>1. CASE OnModuleInit \/ InitConnected \/ InitFails
  BY <1>1 DEF OnModuleInit, InitConnected, InitFails
<1>2. ASSUME NEW s \in Senders, SendMessage(s) \/ SendStep(s) PROVE ConsumerInv'
  BY <1>2 DEF SendMessage, SendStep, ProducerConnected, ConnectFails, ProducerSend,
     SendEnds, Ended
<1>3. CASE ConsumeMessages \/ ConsumeStep
  BY <1>3 DEF ConsumeMessages, ConsumeStep, ConsumerConnected, ConsumerRuns, ConsumeFails
<1>4. CASE HandleMessage \/ HandlerEnds \/ ConsumerCrashes \/ ConsumerRestarts
  BY <1>4 DEF HandleMessage, HandlerEnds, ConsumerCrashes, ConsumerRestarts
<1>5. ASSUME NEW a \in Admins, AdminCall(a) \/ AdminWorks(a) PROVE ConsumerInv'
  BY <1>5 DEF AdminCall, AdminWorks, AdminConnected, AdminWorkDone, AdminDisconnected,
     AdminFails, AdminStep
<1>6. CASE OnModuleDestroy
  BY <1>6 DEF OnModuleDestroy, AwaitConsumer, AwaitAdmin
<1>7. CASE ProducerDisconnected
  BY <1>7 DEF ProducerDisconnected, AwaitConsumer, AwaitAdmin
<1>8. CASE ConsumerDisconnected \/ AdminDisconnectedAtLast
  BY <1>8 DEF ConsumerDisconnected, AdminDisconnectedAtLast
<1>9. CASE DisconnectFails
  BY <1>9 DEF DisconnectFails, Disconnecting
<1>10. CASE UNCHANGED vars
  BY <1>10 DEF vars
<1> QED
  BY <1>1, <1>2, <1>3, <1>4, <1>5, <1>6, <1>7, <1>8, <1>9, <1>10 DEF Next, DisconnectStep

(* While the consumer flag is unset nothing of the consumer is left, and    *)
(* that is so when disconnect() has returned without error, for any number  *)
(* of concurrent senders and admin callers.                                 *)
THEOREM ConsumerLeftQuiet == Spec => []ConsumerQuiet
<1>1. Init => ConsumerInv
  BY DEF Init, ConsumerInv
<1>2. ConsumerInv => ConsumerQuiet
  BY DEF ConsumerInv, ConsumerQuiet
<1> QED
  BY <1>1, <1>2, ConsumerStep, PTL DEF Spec

-----------------------------------------------------------------------------
(* Every variable keeps its type. *)
LEMMA TypeStep == TypeOK /\ [Next]_vars => TypeOK'
<1> SUFFICES ASSUME TypeOK, [Next]_vars PROVE TypeOK'
  OBVIOUS
<1> USE DEF TypeOK, Lifecycle, producerVars, consumerVars, adminVars
<1>1. CASE OnModuleInit
  BY <1>1 DEF OnModuleInit
<1>2. CASE InitConnected
  BY <1>2 DEF InitConnected
<1>3. CASE InitFails
  BY <1>3 DEF InitFails
<1>4. ASSUME NEW s \in Senders, SendMessage(s) PROVE TypeOK'
  BY <1>4 DEF SendMessage
<1>5. ASSUME NEW s \in Senders, SendStep(s) PROVE TypeOK'
  <2>1. CASE ProducerConnected(s)
    BY <2>1 DEF ProducerConnected
  <2>2. CASE ConnectFails(s) \/ SendEnds(s)
    BY <2>2 DEF ConnectFails, SendEnds, Ended
  <2>3. CASE ProducerSend(s)
    BY <2>3 DEF ProducerSend, Ended
  <2> QED
    BY <1>5, <2>1, <2>2, <2>3 DEF SendStep
<1>6. CASE ConsumeMessages
  BY <1>6 DEF ConsumeMessages
<1>7. CASE ConsumerConnected
  BY <1>7 DEF ConsumerConnected
<1>8. CASE ConsumerRuns \/ ConsumeFails
  BY <1>8 DEF ConsumerRuns, ConsumeFails
<1>9. CASE HandleMessage
  BY <1>9 DEF HandleMessage
<1>10. CASE HandlerEnds
  <2>1. handling' \in BOOLEAN
    BY <1>10 DEF HandlerEnds
  <2>2. /\ UNCHANGED <<isProducerConnected, producer, admin, adminOps, adminFailed>>
        /\ UNCHANGED <<isConsumerConnected, consumer, consume, sends, lifecycle, swallowed>>
    BY <1>10 DEF HandlerEnds
  <2> QED
    BY <2>1, <2>2
<1>11. CASE ConsumerCrashes \/ ConsumerRestarts
  BY <1>11 DEF ConsumerCrashes, ConsumerRestarts
<1>12. ASSUME NEW a \in Admins, AdminCall(a) \/ AdminWorks(a) PROVE TypeOK'
  <2> USE DEF AdminStep
  <2>1. CASE AdminCall(a)
    BY <2>1 DEF AdminCall
  <2>2. CASE AdminConnected(a)
    BY <2>2 DEF AdminConnected
  <2>3. CASE AdminWorkDone(a)
    BY <2>3 DEF AdminWorkDone
  <2>4. CASE AdminDisconnected(a)
    BY <2>4 DEF AdminDisconnected
  <2>5. CASE AdminFails(a)
    BY <2>5 DEF AdminFails
  <2> QED
    BY <1>12, <2>1, <2>2, <2>3, <2>4, <2>5 DEF AdminWorks
<1>13. CASE OnModuleDestroy
  BY <1>13 DEF OnModuleDestroy, AwaitConsumer, AwaitAdmin
<1>14. CASE ProducerDisconnected
  BY <1>14 DEF ProducerDisconnected, AwaitConsumer, AwaitAdmin
<1>15. CASE ConsumerDisconnected
  BY <1>15 DEF ConsumerDisconnected
<1>16. CASE AdminDisconnectedAtLast
  BY <1>16 DEF AdminDisconnectedAtLast
<1>17. CASE DisconnectFails
  BY <1>17 DEF DisconnectFails
<1>18. CASE UNCHANGED vars
  BY <1>18 DEF vars
<1> QED
  BY <1>1, <1>2, <1>3, <1>4, <1>5, <1>6, <1>7, <1>8, <1>9, <1>10, <1>11, <1>12,
     <1>13, <1>14, <1>15, <1>16, <1>17, <1>18 DEF Next, ConsumeStep, DisconnectStep

(* The flags, the clients and the calls of KafkaService have their types,  *)
(* for any number of senders and of admin callers.                         *)
THEOREM TypeCorrect == Spec => []TypeOK
<1>1. Init => TypeOK
  BY DEF Init, TypeOK, Lifecycle
<1> QED
  BY <1>1, TypeStep, PTL DEF Spec

-----------------------------------------------------------------------------
(* As long as no admin call has failed, a connected admin client is in     *)
(* somebody's use: the one whose call will disconnect it.                  *)
AdminInv == ~adminFailed /\ admin = "connected"
              => \E a \in Admins : adminOps[a] \in {"working", "disconnecting"}

LEMMA AdminsStep == TypeOK /\ AdminInv /\ [Next]_vars => AdminInv'
<1> SUFFICES ASSUME TypeOK, AdminInv, [Next]_vars PROVE AdminInv'
  OBVIOUS
<1> USE DEF AdminInv, adminVars
<1>1. CASE OnModuleInit \/ InitConnected \/ InitFails
  BY <1>1 DEF OnModuleInit, InitConnected, InitFails
<1>2. ASSUME NEW s \in Senders, SendMessage(s) \/ SendStep(s) PROVE AdminInv'
  BY <1>2 DEF SendMessage, SendStep, ProducerConnected, ConnectFails, ProducerSend,
     SendEnds, Ended
<1>3. CASE ConsumeMessages \/ ConsumeStep \/ HandleMessage \/ HandlerEnds
              \/ ConsumerCrashes \/ ConsumerRestarts
  BY <1>3 DEF ConsumeMessages, ConsumeStep, ConsumerConnected, ConsumerRuns, ConsumeFails,
     HandleMessage, HandlerEnds, ConsumerCrashes, ConsumerRestarts
<1>4. ASSUME NEW a \in Admins, AdminCall(a) \/ AdminWorks(a) PROVE AdminInv'
  <2> USE DEF TypeOK, AdminStep
  <2>1. CASE AdminCall(a)
    BY <2>1 DEF AdminCall
  <2>2. CASE AdminConnected(a)
    <3> adminOps'[a] = "working"
      BY <2>2 DEF AdminConnected
    <3> QED
      OBVIOUS
  <2>3. CASE AdminWorkDone(a)
    <3> adminOps'[a] = "disconnecting"
      BY <2>3 DEF AdminWorkDone
    <3> QED
      OBVIOUS
  <2>4. CASE AdminDisconnected(a) \/ AdminFails(a)
    BY <2>4 DEF AdminDisconnected, AdminFails
  <2> QED
    BY <1>4, <2>1, <2>2, <2>3, <2>4 DEF AdminWorks
<1>5. CASE OnModuleDestroy
  BY <1>5 DEF OnModuleDestroy
<1>6. CASE DisconnectStep
  BY <1>6 DEF DisconnectStep, ProducerDisconnected, ConsumerDisconnected,
     AdminDisconnectedAtLast, DisconnectFails
<1>7. CASE UNCHANGED vars
  BY <1>7 DEF vars
<1> QED
  BY <1>1, <1>2, <1>3, <1>4, <1>5, <1>6, <1>7 DEF Next

(* However many calls of createTopics(), listTopics() and deleteTopics()   *)
(* share the admin client, and disconnect() with them, the last one leaves *)
(* it disconnected, unless one of them has failed.                         *)
THEOREM AdminLeftClosed == Spec => []AdminClosedBehind
<1>1. Init => AdminInv
  BY DEF Init, AdminInv
<1>2. TypeOK /\ AdminInv => AdminClosedBehind
  BY DEF TypeOK, AdminInv, AdminClosedBehind
<1> QED
  BY <1>1, <1>2, TypeCorrect, AdminsStep, PTL DEF Spec
=============================================================================
