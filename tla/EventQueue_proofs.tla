-------------------------- MODULE EventQueue_proofs --------------------------
(***************************************************************************)
(* Proofs about EventQueue, for any number of events, any batch size and   *)
(* any number of retries.                                                  *)
(***************************************************************************)
EXTENDS EventQueue, TLAPS, FiniteSetTheorems

(* What the bookkeeping of processBatch() guarantees about its calls: one  *)
(* that has returned works on nothing, the drain calls it only after       *)
(* onModuleDestroy(), and until then the flag tells whether the timer's is *)
(* running.                                                                *)
CallsInv ==
    /\ \A c \in Callers : c \notin calls => batch[c] = {}
    /\ processingInterval <=> phase = "running"
    /\ phase \in {"created", "running"} => "drain" \notin calls
    /\ phase \in {"created", "running"} /\ ~isProcessing => "timer" \notin calls

(* Events with a number the counter has not reached leave no trace. *)
UnnumberedInv ==
    \A e \in Events : /\ stage[e] = "absent" <=> e > eventCounter
                      /\ stage[e] = "absent" => /\ retryCount[e] = 0
                                                /\ docs[e] = 0
                                                /\ msgs[e] = 0
                                                /\ e \notin anonymous

IInv == TypeOK /\ OnePlace /\ CallsInv /\ UnnumberedInv

-----------------------------------------------------------------------------
(* push() keeps what is in the queue and puts the new event behind it. *)
LEMMA PushFacts ==
    ASSUME NEW S, NEW q \in Seq(S), NEW e \in S
    PROVE  /\ Append(q, e) \in Seq(S)
           /\ Len(q) \in Nat
           /\ Len(Append(q, e)) = Len(q) + 1
           /\ \A i \in 1..Len(q) : Append(q, e)[i] = q[i]
           /\ Append(q, e)[Len(q) + 1] = e
  OBVIOUS

(* splice() takes the first BatchLen events and leaves the others in order. *)
LEMMA SpliceFacts ==
    ASSUME TypeOK
    PROVE  /\ BatchLen \in 0..Len(inMemoryQueue)
           /\ BatchLen <= BATCH_SIZE
           /\ NextBatch \subseteq Events
           /\ Rest \in Seq(Events)
           /\ Len(Rest) = Len(inMemoryQueue) - BatchLen
           /\ \A i \in 1..Len(Rest) : Rest[i] = inMemoryQueue[BatchLen + i]
<1>1. inMemoryQueue \in Seq(Events) /\ Len(inMemoryQueue) \in Nat
  BY DEF TypeOK
<1>2. BatchLen \in 0..Len(inMemoryQueue) /\ BatchLen <= BATCH_SIZE
  BY <1>1, ConstantsAssumption DEF BatchLen
<1>3. NextBatch \subseteq Events
  BY <1>1, <1>2 DEF NextBatch
<1>4. /\ Rest \in Seq(Events)
      /\ Len(Rest) = Len(inMemoryQueue) - BatchLen
      /\ \A i \in 1..Len(Rest) : Rest[i] = inMemoryQueue[BatchLen + i]
  <2>1. Rest = SubSeq(inMemoryQueue, BatchLen + 1, Len(inMemoryQueue))
    BY DEF Rest
  <2> HIDE DEF Events
  <2>2. QED  BY <1>1, <1>2, <2>1
<1>5. QED  BY <1>2, <1>3, <1>4

(* Pushing an event that is not in the queue keeps queue and stages in step. *)
LEMMA QueueAfterPush ==
    ASSUME TypeOK, QueueHasNoDuplicates, QueueHoldsQueued,
           NEW e \in Events, stage[e] # "queued",
           inMemoryQueue' = Append(inMemoryQueue, e),
           stage' = [stage EXCEPT ![e] = "queued"]
    PROVE  QueueHasNoDuplicates' /\ QueueHoldsQueued'
<1>1. /\ Len(inMemoryQueue) \in Nat
      /\ Len(inMemoryQueue') = Len(inMemoryQueue) + 1
      /\ \A i \in 1..Len(inMemoryQueue) : inMemoryQueue'[i] = inMemoryQueue[i]
      /\ inMemoryQueue'[Len(inMemoryQueue) + 1] = e
  BY PushFacts DEF TypeOK
<1>2. \A i \in 1..Len(inMemoryQueue) : inMemoryQueue[i] # e
  BY DEF QueueHoldsQueued, Queued
<1>3. QueueHasNoDuplicates'
  BY <1>1, <1>2 DEF QueueHasNoDuplicates
<1>4. Queued' = Queued \cup {e}
  <2>1. \A i \in 1..Len(inMemoryQueue') :
           inMemoryQueue'[i] \in Queued \cup {e}
    BY <1>1 DEF Queued
  <2>2. \A f \in Queued \cup {e} : f \in Queued'
    BY <1>1 DEF Queued
  <2>3. QED  BY <2>1, <2>2 DEF Queued
<1>5. QueueHoldsQueued'
  BY <1>4 DEF QueueHoldsQueued, TypeOK
<1>6. QED  BY <1>3, <1>5

(* Taking a batch off the queue keeps queue and stages in step. *)
LEMMA QueueAfterSplice ==
    ASSUME TypeOK, QueueHasNoDuplicates, QueueHoldsQueued,
           inMemoryQueue' = Rest,
           stage' = [e \in Events |-> IF e \in NextBatch THEN "saving"
                                                        ELSE stage[e]]
    PROVE  /\ QueueHasNoDuplicates'
           /\ QueueHoldsQueued'
           /\ NextBatch \subseteq Queued
           /\ \A e \in NextBatch : stage[e] = "queued"
<1>1. /\ BatchLen \in 0..Len(inMemoryQueue)
      /\ NextBatch \subseteq Events
      /\ Len(inMemoryQueue) \in Nat
      /\ Len(inMemoryQueue') = Len(inMemoryQueue) - BatchLen
      /\ \A i \in 1..Len(inMemoryQueue') :
            inMemoryQueue'[i] = inMemoryQueue[BatchLen + i]
  BY SpliceFacts DEF TypeOK
<1>2. QueueHasNoDuplicates'
  BY <1>1 DEF QueueHasNoDuplicates
<1>3. NextBatch \subseteq Queued
  BY <1>1 DEF NextBatch, Queued
<1>4. \A e \in NextBatch : stage[e] = "queued"
  BY <1>1, <1>3 DEF QueueHoldsQueued
<1>5. Queued' = Queued \ NextBatch
  <2>1. ASSUME NEW e \in Queued'  PROVE e \in Queued \ NextBatch
    <3>1. PICK i \in 1..Len(inMemoryQueue') : e = inMemoryQueue'[i]
      BY <2>1 DEF Queued
    <3>2. /\ BatchLen + i \in 1..Len(inMemoryQueue)
          /\ e = inMemoryQueue[BatchLen + i]
      BY <1>1, <3>1
    <3>3. e \in Queued
      BY <3>2 DEF Queued
    <3>4. ASSUME NEW k \in 1..BatchLen, e = inMemoryQueue[k]  PROVE FALSE
      <4>1. k \in 1..Len(inMemoryQueue) /\ k # BatchLen + i
        BY <1>1
      <4>2. QED  BY <3>2, <3>4, <4>1 DEF QueueHasNoDuplicates
    <3>5. QED  BY <3>3, <3>4 DEF NextBatch
  <2>2. ASSUME NEW e \in Queued \ NextBatch  PROVE e \in Queued'
    <3>1. PICK i \in 1..Len(inMemoryQueue) : e = inMemoryQueue[i]
      BY DEF Queued
    <3>2. i > BatchLen
      BY <1>1, <3>1, <2>2 DEF NextBatch
    <3>3. /\ i - BatchLen \in 1..Len(inMemoryQueue')
          /\ e = inMemoryQueue'[i - BatchLen]
      BY <1>1, <3>1, <3>2
    <3>4. QED  BY <3>3 DEF Queued
  <2>3. QED  BY <2>1, <2>2
<1>6. QueueHoldsQueued'
  BY <1>5 DEF QueueHoldsQueued
<1>7. QED  BY <1>2, <1>3, <1>4, <1>6

-----------------------------------------------------------------------------
(* Type correctness. *)
THEOREM TypeCorrect == Spec => []TypeOK
<1>1. Init => TypeOK
  <2> SUFFICES ASSUME Init  PROVE TypeOK
    OBVIOUS
  <2>1. inMemoryQueue \in Seq(Events) /\ eventCounter \in 0..MaxEvents
    BY ConstantsAssumption DEF Init
  <2>2. /\ retryCount \in [Events -> 0..MAX_RETRIES]
        /\ docs \in [Events -> Nat]
        /\ msgs \in [Events -> Nat]
    BY ConstantsAssumption DEF Init
  <2>3. stage \in [Events -> Stages] /\ batch \in [Callers -> SUBSET Events]
    BY DEF Init, Stages
  <2>4. QED  BY <2>1, <2>2, <2>3 DEF Init, TypeOK, Phases
<1>2. TypeOK /\ [Next]_vars => TypeOK'
  <2> SUFFICES ASSUME TypeOK, [Next]_vars  PROVE TypeOK'
    OBVIOUS
  <2>1. CASE OnModuleInit
    BY <2>1 DEF TypeOK, OnModuleInit, work, stores, Phases
  <2>2. ASSUME NEW hasUser \in BOOLEAN, EnqueueEvent(hasUser)  PROVE TypeOK'
    <3>1. eventCounter + 1 \in Events /\ eventCounter' = eventCounter + 1
      BY <2>2, ConstantsAssumption DEF TypeOK, EnqueueEvent, Events
    <3>2. inMemoryQueue' \in Seq(Events)
      BY <2>2, <3>1, PushFacts DEF TypeOK, EnqueueEvent, PushNew
    <3>3. eventCounter' \in 0..MaxEvents
      BY <3>1 DEF Events
    <3>4. stage' \in [Events -> Stages] /\ anonymous' \in SUBSET Events
      BY <2>2, <3>1 DEF TypeOK, EnqueueEvent, Stages
    <3>5. QED  BY <2>2, <3>2, <3>3, <3>4 DEF TypeOK, EnqueueEvent, stores
  <2>3. ASSUME NEW c \in Callers, ProcessBatch(c)
        PROVE  /\ inMemoryQueue' \in Seq(Events)
               /\ isProcessing' \in BOOLEAN
               /\ stage' \in [Events -> Stages]
               /\ batch' \in [Callers -> SUBSET Events]
               /\ calls' \in SUBSET Callers
    BY <2>3, SpliceFacts DEF TypeOK, ProcessBatch, Stages
  <2>4. CASE Tick
    BY <2>4, <2>3 DEF TypeOK, Tick, stores, Callers
  <2>5. ASSUME NEW c \in Callers, NEW e \in Events, HandleError(c, e)
        PROVE  /\ inMemoryQueue' \in Seq(Events)
               /\ stage' \in [Events -> Stages]
               /\ batch' \in [Callers -> SUBSET Events]
               /\ retryCount' \in [Events -> 0..MAX_RETRIES]
    <3>1. batch' \in [Callers -> SUBSET Events]
      BY <2>5 DEF TypeOK, HandleError
    <3>2. CASE Requeue(e)
      <4>1. inMemoryQueue' \in Seq(Events)
        BY <3>2, PushFacts DEF TypeOK, Requeue
      <4>2. retryCount' \in [Events -> 0..MAX_RETRIES]
        BY <3>2, ConstantsAssumption DEF TypeOK, Requeue
      <4>3. stage' \in [Events -> Stages]
        BY <3>2 DEF TypeOK, Requeue, Stages
      <4>4. QED  BY <3>1, <4>1, <4>2, <4>3
    <3>3. CASE Drop(e)
      BY <3>1, <3>3 DEF TypeOK, Drop, Stages
    <3>4. QED  BY <2>5, <3>2, <3>3 DEF HandleError
  <2>6. ASSUME NEW c \in Callers, NEW e \in Events, Settle(c, e)
        PROVE  TypeOK'
    <3>1. CASE SaveSucceeds(c, e)
      BY <3>1 DEF TypeOK, SaveSucceeds, Stored, Stages
    <3>2. CASE SendSucceeds(c, e)
      BY <3>2 DEF TypeOK, SendSucceeds, Announced, Stages
    <3>3. CASE SaveFails(c, e)
      <4>1. docs' \in [Events -> Nat] /\ msgs' \in [Events -> Nat]
        <5>1. CASE Stored(e)
          BY <3>3, <5>1 DEF TypeOK, SaveFails, Stored
        <5>2. CASE UNCHANGED docs
          BY <3>3, <5>2 DEF TypeOK, SaveFails
        <5>3. QED  BY <3>3, <5>1, <5>2 DEF SaveFails
      <4>2. HandleError(c, e)
        BY <3>3 DEF SaveFails
      <4>3. QED  BY <4>1, <4>2, <2>5 DEF TypeOK, HandleError
    <3>4. CASE SendFails(c, e)
      <4>1. docs' \in [Events -> Nat] /\ msgs' \in [Events -> Nat]
        <5>1. CASE Announced(e)
          BY <3>4, <5>1 DEF TypeOK, SendFails, Announced
        <5>2. CASE UNCHANGED msgs
          BY <3>4, <5>2 DEF TypeOK, SendFails
        <5>3. QED  BY <3>4, <5>1, <5>2 DEF SendFails
      <4>2. HandleError(c, e)
        BY <3>4 DEF SendFails
      <4>3. QED  BY <4>1, <4>2, <2>5 DEF TypeOK, HandleError
    <3>5. QED  BY <2>6, <3>1, <3>2, <3>3, <3>4 DEF Settle
  <2>7. ASSUME NEW c \in Callers, BatchSettled(c)  PROVE TypeOK'
    BY <2>7 DEF TypeOK, BatchSettled, stores
  <2>8. ASSUME DrainStep
        PROVE  /\ inMemoryQueue' \in Seq(Events)
               /\ isProcessing' \in BOOLEAN
               /\ stage' \in [Events -> Stages]
               /\ batch' \in [Callers -> SUBSET Events]
               /\ calls' \in SUBSET Callers
               /\ phase' \in Phases
    BY <2>8, <2>3 DEF TypeOK, DrainStep, Callers, Phases, work
  <2>9. CASE OnModuleDestroy
    BY <2>9, <2>8 DEF TypeOK, OnModuleDestroy, stores
  <2>10. CASE DrainLoop
    BY <2>10, <2>8 DEF TypeOK, DrainLoop, stores
  <2>11. ASSUME Terminate  PROVE TypeOK'
    <3>1. docs' \in [Events -> Nat] /\ msgs' \in [Events -> Nat]
      BY <2>11 DEF TypeOK, Terminate
    <3>2. inMemoryQueue' \in Seq(Events)
      BY <2>11 DEF Terminate
    <3>3. QED  BY <2>11, <3>1, <3>2 DEF TypeOK, Terminate, Phases, Stages
  <2>12. CASE UNCHANGED vars
    BY <2>12 DEF TypeOK, vars, work, stores
  <2>13. QED
    BY <2>1, <2>2, <2>4, <2>6, <2>7, <2>9, <2>10, <2>11, <2>12
       DEF Next, Crash, ProcessExit
<1>3. QED  BY <1>1, <1>2, PTL DEF Spec

-----------------------------------------------------------------------------
(* The bookkeeping of the calls is kept by every step. *)
LEMMA CallsStep ==
    ASSUME TypeOK, CallsInv, [Next]_vars
    PROVE  CallsInv'
<1>1. CASE OnModuleInit
  BY <1>1 DEF CallsInv, OnModuleInit, work, stores
<1>2. ASSUME NEW hasUser \in BOOLEAN, EnqueueEvent(hasUser)  PROVE CallsInv'
  BY <1>2 DEF CallsInv, EnqueueEvent
<1>3. CASE Tick
  BY <1>3 DEF TypeOK, CallsInv, Tick, TickGuard, ProcessBatch, Callers
<1>4. ASSUME NEW c \in Callers, NEW e \in Events, Settle(c, e)  PROVE CallsInv'
  <2>1. /\ UNCHANGED <<isProcessing, calls, processingInterval, phase>>
        /\ \A d \in Callers : batch'[d] \subseteq batch[d]
    BY <1>4 DEF TypeOK, Settle, SaveSucceeds, SendSucceeds, SaveFails, SendFails,
                HandleError
  <2>2. QED  BY <2>1 DEF CallsInv
<1>5. ASSUME NEW c \in Callers, BatchSettled(c)  PROVE CallsInv'
  BY <1>5 DEF CallsInv, BatchSettled, Callers
<1>6. CASE OnModuleDestroy
  BY <1>6 DEF TypeOK, CallsInv, OnModuleDestroy, DrainStep, ProcessBatch, Callers, work
<1>7. CASE DrainLoop
  BY <1>7 DEF TypeOK, CallsInv, DrainLoop, DrainStep, ProcessBatch, Callers, work
<1>8. CASE Terminate
  BY <1>8 DEF CallsInv, Terminate
<1>9. CASE UNCHANGED vars
  BY <1>9 DEF CallsInv, vars, work
<1>10. QED
  BY <1>1, <1>2, <1>3, <1>4, <1>5, <1>6, <1>7, <1>8, <1>9
     DEF Next, Crash, ProcessExit

(* processBatch() moves the head of the queue to an idle caller's batch. *)
LEMMA OnePlaceAfterProcessBatch ==
    ASSUME TypeOK, OnePlace, NEW c \in Callers, batch[c] = {}, ProcessBatch(c)
    PROVE  OnePlace'
<1>1. /\ QueueHasNoDuplicates' /\ QueueHoldsQueued'
      /\ \A e \in NextBatch : stage[e] = "queued"
  BY QueueAfterSplice DEF OnePlace, ProcessBatch
<1>2. NextBatch \subseteq Events
  BY SpliceFacts
<1>3. InFlight' = InFlight \cup NextBatch /\ InFlight \cap NextBatch = {}
  BY <1>1, <1>2 DEF TypeOK, ProcessBatch, InFlight, InFlightStages
<1>4. /\ batch'[c] = NextBatch
      /\ \A d \in Callers : d # c => batch'[d] = batch[d]
  BY DEF TypeOK, ProcessBatch
<1>5. BatchesHoldFlying' /\ BatchesDisjoint'
  BY <1>3, <1>4 DEF OnePlace, BatchesHoldFlying, BatchesDisjoint, Callers
<1>6. QED  BY <1>1, <1>5 DEF OnePlace

(* An event whose processing ends leaves the batch it is in. *)
LEMMA OnePlaceAfterLeaving ==
    ASSUME TypeOK, OnePlace, NEW c \in Callers, NEW e \in batch[c],
           batch' = [batch EXCEPT ![c] = @ \ {e}],
           NEW s \in Stages \ InFlightStages,
           stage' = [stage EXCEPT ![e] = s]
    PROVE  BatchesHoldFlying' /\ BatchesDisjoint'
<1>1. e \in Events /\ e \in InFlight
  BY DEF TypeOK, OnePlace, BatchesHoldFlying, Callers
<1>2. InFlight' = InFlight \ {e}
  BY <1>1 DEF TypeOK, InFlight, InFlightStages
<1>3. \A d \in Callers : d # c => e \notin batch[d] /\ batch'[d] = batch[d]
  BY DEF TypeOK, OnePlace, BatchesDisjoint, Callers
<1>4. batch'[c] = batch[c] \ {e}
  BY DEF TypeOK
<1>5. QED
  BY <1>2, <1>3, <1>4 DEF OnePlace, BatchesHoldFlying, BatchesDisjoint, Callers

(* Every step keeps each event in one place. *)
LEMMA OnePlaceStep ==
    ASSUME TypeOK, OnePlace, CallsInv, UnnumberedInv, [Next]_vars
    PROVE  OnePlace'
<1> USE DEF OnePlace
<1>1. CASE OnModuleInit
  BY <1>1 DEF OnModuleInit, work, QueueHasNoDuplicates, QueueHoldsQueued, Queued,
              BatchesHoldFlying, BatchesDisjoint, InFlight
<1>2. ASSUME NEW hasUser \in BOOLEAN, EnqueueEvent(hasUser)  PROVE OnePlace'
  <2> DEFINE e == eventCounter + 1
  <2>1. e \in Events
    BY <1>2, ConstantsAssumption DEF TypeOK, EnqueueEvent, Events
  <2>2. stage[e] = "absent"
    BY <2>1 DEF UnnumberedInv, TypeOK
  <2>3. /\ inMemoryQueue' = Append(inMemoryQueue, e)
        /\ stage' = [stage EXCEPT ![e] = "queued"]
        /\ batch' = batch
    BY <1>2 DEF EnqueueEvent, PushNew
  <2> HIDE DEF e
  <2>4. QueueHasNoDuplicates' /\ QueueHoldsQueued'
    BY <2>1, <2>2, <2>3, QueueAfterPush
  <2>5. InFlight' = InFlight
    BY <2>1, <2>2, <2>3 DEF TypeOK, InFlight, InFlightStages
  <2>6. QED  BY <2>3, <2>4, <2>5 DEF BatchesHoldFlying, BatchesDisjoint
<1>3. CASE Tick
  <2>1. batch["timer"] = {}
    BY <1>3 DEF Tick, TickGuard, CallsInv, Callers
  <2>2. QED  BY <1>3, <2>1, OnePlaceAfterProcessBatch DEF Tick, Callers
<1>4. ASSUME NEW c \in Callers, NEW e \in Events, Settle(c, e)  PROVE OnePlace'
  <2>1. e \in batch[c] /\ stage[e] \in InFlightStages
    BY <1>4 DEF Settle, SaveSucceeds, SendSucceeds, SaveFails, SendFails,
                InFlightStages
  <2>2. CASE SaveSucceeds(c, e)
    <3>1. InFlight' = InFlight
      BY <2>1, <2>2 DEF TypeOK, SaveSucceeds, InFlight, InFlightStages
    <3>2. QueueHoldsQueued'
      BY <2>1, <2>2 DEF TypeOK, SaveSucceeds, QueueHoldsQueued, Queued,
                        InFlightStages
    <3>3. QED
      BY <2>2, <3>1, <3>2 DEF SaveSucceeds, QueueHasNoDuplicates,
                              BatchesHoldFlying, BatchesDisjoint
  <2>3. CASE SendSucceeds(c, e)
    <3>1. BatchesHoldFlying' /\ BatchesDisjoint'
      BY <2>1, <2>3, OnePlaceAfterLeaving DEF SendSucceeds, Stages, InFlightStages
    <3>2. QueueHoldsQueued'
      BY <2>1, <2>3 DEF TypeOK, SendSucceeds, QueueHoldsQueued, Queued,
                        InFlightStages
    <3>3. QED  BY <2>3, <3>1, <3>2 DEF SendSucceeds, QueueHasNoDuplicates
  <2>4. CASE HandleError(c, e)
    <3>1. batch' = [batch EXCEPT ![c] = @ \ {e}]
      BY <2>4 DEF HandleError
    <3>2. CASE Requeue(e)
      <4>1. BatchesHoldFlying' /\ BatchesDisjoint'
        BY <2>1, <3>1, <3>2, OnePlaceAfterLeaving
           DEF Requeue, Stages, InFlightStages
      <4>2. QueueHasNoDuplicates' /\ QueueHoldsQueued'
        BY <2>1, <3>2, QueueAfterPush DEF Requeue, InFlightStages
      <4>3. QED  BY <4>1, <4>2
    <3>3. CASE Drop(e)
      <4>1. BatchesHoldFlying' /\ BatchesDisjoint'
        BY <2>1, <3>1, <3>3, OnePlaceAfterLeaving
           DEF Drop, Stages, InFlightStages
      <4>2. QueueHoldsQueued'
        BY <2>1, <3>3 DEF TypeOK, Drop, QueueHoldsQueued, Queued, InFlightStages
      <4>3. QED  BY <3>3, <4>1, <4>2 DEF Drop, QueueHasNoDuplicates
    <3>4. QED  BY <2>4, <3>2, <3>3 DEF HandleError
  <2>5. QED  BY <1>4, <2>2, <2>3, <2>4 DEF Settle, SaveFails, SendFails
<1>5. ASSUME NEW c \in Callers, BatchSettled(c)  PROVE OnePlace'
  BY <1>5 DEF BatchSettled, QueueHasNoDuplicates, QueueHoldsQueued, Queued,
              BatchesHoldFlying, BatchesDisjoint, InFlight
<1>6. ASSUME DrainStep, "drain" \notin calls  PROVE OnePlace'
  <2>1. CASE UNCHANGED work
    BY <2>1 DEF work, QueueHasNoDuplicates, QueueHoldsQueued, Queued,
                BatchesHoldFlying, BatchesDisjoint, InFlight
  <2>2. CASE ProcessBatch("drain")
    BY <1>6, <2>2, OnePlaceAfterProcessBatch DEF CallsInv, Callers
  <2>3. QED  BY <1>6, <2>1, <2>2 DEF DrainStep
<1>7. CASE OnModuleDestroy
  BY <1>6, <1>7 DEF OnModuleDestroy, CallsInv
<1>8. CASE DrainLoop
  BY <1>6, <1>8 DEF DrainLoop
<1>9. CASE Terminate
  <2>1. Len(inMemoryQueue') = 0 /\ Queued' = {}
    BY <1>9 DEF Terminate, Queued
  <2>2. \A e \in Events : stage'[e] \notin Unsettled
    BY <1>9 DEF Terminate, Unsettled, InFlightStages
  <2>3. QueueHasNoDuplicates' /\ QueueHoldsQueued'
    BY <2>1, <2>2 DEF QueueHasNoDuplicates, QueueHoldsQueued, Unsettled
  <2>4. InFlight' = {}
    BY <2>2 DEF InFlight, Unsettled
  <2>5. QED
    BY <1>9, <2>3, <2>4 DEF Terminate, BatchesHoldFlying, BatchesDisjoint, Callers
<1>10. CASE UNCHANGED vars
  BY <1>10 DEF vars, work, QueueHasNoDuplicates, QueueHoldsQueued, Queued,
               BatchesHoldFlying, BatchesDisjoint, InFlight
<1>11. QED
  BY <1>1, <1>2, <1>3, <1>4, <1>5, <1>7, <1>8, <1>9, <1>10
     DEF Next, Crash, ProcessExit

-----------------------------------------------------------------------------
(* Only enqueueEvent() gives a number to an event. *)
LEMMA UnnumberedStep ==
    ASSUME TypeOK, OnePlace, UnnumberedInv, [Next]_vars
    PROVE  UnnumberedInv'
<1>1. CASE OnModuleInit
  BY <1>1 DEF UnnumberedInv, OnModuleInit, work, stores
<1>2. ASSUME NEW hasUser \in BOOLEAN, EnqueueEvent(hasUser)  PROVE UnnumberedInv'
  <2> SUFFICES ASSUME NEW f \in Events
               PROVE  /\ stage'[f] = "absent" <=> f > eventCounter'
                      /\ stage'[f] = "absent" => /\ retryCount'[f] = 0
                                                 /\ docs'[f] = 0
                                                 /\ msgs'[f] = 0
                                                 /\ f \notin anonymous'
    BY DEF UnnumberedInv
  <2>1. /\ eventCounter \in Nat /\ f \in Nat
        /\ eventCounter' = eventCounter + 1
        /\ stage' = [stage EXCEPT ![eventCounter + 1] = "queued"]
        /\ anonymous' \subseteq anonymous \cup {eventCounter + 1}
        /\ UNCHANGED <<retryCount, docs, msgs>>
    BY <1>2, ConstantsAssumption DEF TypeOK, EnqueueEvent, stores, Events
  <2>2. CASE f = eventCounter + 1
    BY <2>1, <2>2 DEF TypeOK
  <2>3. CASE f # eventCounter + 1
    <3>1. stage'[f] = stage[f] /\ (f > eventCounter' <=> f > eventCounter)
      BY <2>1, <2>3 DEF TypeOK
    <3>2. QED  BY <2>1, <2>3, <3>1 DEF UnnumberedInv
  <2>4. QED  BY <2>2, <2>3
<1>3. ASSUME NEW c \in Callers, ProcessBatch(c)
      PROVE  \A e \in Events : stage'[e] = "absent" <=> stage[e] = "absent"
  BY <1>3, QueueAfterSplice DEF OnePlace, ProcessBatch
<1>4. CASE Tick
  BY <1>3, <1>4 DEF UnnumberedInv, Tick, stores, Callers
<1>5. ASSUME NEW c \in Callers, NEW e \in Events, Settle(c, e)
      PROVE  UnnumberedInv'
  <2>1. stage[e] \in InFlightStages
    BY <1>5 DEF Settle, SaveSucceeds, SendSucceeds, SaveFails, SendFails,
                InFlightStages
  <2>2. stage'[e] # "absent" /\ UNCHANGED <<eventCounter, anonymous>>
    BY <1>5 DEF TypeOK, Settle, SaveSucceeds, SendSucceeds, SaveFails, SendFails,
                HandleError, Requeue, Drop
  <2>3. \A f \in Events : f # e =>
           /\ stage'[f] = stage[f]
           /\ retryCount'[f] = retryCount[f]
           /\ docs'[f] = docs[f]
           /\ msgs'[f] = msgs[f]
    BY <1>5 DEF TypeOK, Settle, SaveSucceeds, SendSucceeds, SaveFails, SendFails,
                HandleError, Requeue, Drop, Stored, Announced
  <2>4. QED  BY <2>1, <2>2, <2>3 DEF UnnumberedInv, InFlightStages
<1>6. ASSUME NEW c \in Callers, BatchSettled(c)  PROVE UnnumberedInv'
  BY <1>6 DEF UnnumberedInv, BatchSettled, stores
<1>7. CASE OnModuleDestroy
  BY <1>3, <1>7 DEF UnnumberedInv, OnModuleDestroy, DrainStep, work, stores, Callers
<1>8. CASE DrainLoop
  BY <1>3, <1>8 DEF UnnumberedInv, DrainLoop, DrainStep, work, stores, Callers
<1>9. CASE Terminate
  BY <1>9 DEF UnnumberedInv, Terminate, Unsettled, InFlightStages, InFlight
<1>10. CASE UNCHANGED vars
  BY <1>10 DEF UnnumberedInv, vars, work, stores
<1>11. QED
  BY <1>1, <1>2, <1>4, <1>5, <1>6, <1>7, <1>8, <1>9, <1>10
     DEF Next, Crash, ProcessExit

(* The inductive invariant. *)
THEOREM Invariance == Spec => []IInv
<1>1. Init => OnePlace /\ CallsInv /\ UnnumberedInv
  <2> SUFFICES ASSUME Init  PROVE OnePlace /\ CallsInv /\ UnnumberedInv
    OBVIOUS
  <2>1. Len(inMemoryQueue) = 0 /\ Queued = {}
    BY DEF Init, Queued
  <2>2. InFlight = {}
    BY DEF Init, InFlight, InFlightStages
  <2>3. OnePlace
    BY <2>1, <2>2 DEF Init, OnePlace, QueueHasNoDuplicates, QueueHoldsQueued,
                      BatchesHoldFlying, BatchesDisjoint, Callers
  <2>4. QED  BY <2>3 DEF Init, CallsInv, UnnumberedInv, Events
<1>2. TypeOK /\ OnePlace /\ CallsInv /\ UnnumberedInv /\ [Next]_vars
        => OnePlace' /\ CallsInv' /\ UnnumberedInv'
  BY OnePlaceStep, CallsStep, UnnumberedStep
<1>3. QED  BY <1>1, <1>2, TypeCorrect, PTL DEF Spec, IInv

(* No event is ever in two places, also when the batches of the timer and *)
(* of the shutdown drain overlap.                                         *)
THEOREM OnePlaceHolds == Spec => []OnePlace
BY Invariance, PTL DEF IInv

-----------------------------------------------------------------------------
(* Delivery. *)

(* What DeliveryBounds says of one event. *)
Delivery(e) ==
    /\ msgs[e] <= docs[e]
    /\ docs[e] <= retryCount[e] + 1
    /\ stage[e] = "queued"  => docs[e] <= retryCount[e]
    /\ stage[e] = "saving"  => docs[e] <= retryCount[e]
    /\ stage[e] = "sending" => msgs[e] < docs[e]
    /\ stage[e] = "published" => msgs[e] >= 1
    /\ stage[e] = "dropped" => retryCount[e] = MAX_RETRIES
    /\ e \in anonymous => docs[e] = 0

LEMMA DeliveryByEvent == DeliveryBounds <=> \A e \in Events : Delivery(e)
BY DEF DeliveryBounds, Delivery

(* An event none of whose own state changes stays within its bounds. *)
LEMMA DeliveryFrame ==
    ASSUME NEW e \in Events, Delivery(e),
           stage'[e] = stage[e], retryCount'[e] = retryCount[e],
           docs'[e] = docs[e], msgs'[e] = msgs[e],
           e \in anonymous' => e \in anonymous
    PROVE  Delivery(e)'
BY DEF Delivery

LEMMA DeliveryStep ==
    ASSUME IInv, DeliveryBounds, [Next]_vars, NEW f \in Events
    PROVE  Delivery(f)'
<1> USE DEF IInv
<1>0. /\ Delivery(f)
      /\ retryCount[f] \in 0..MAX_RETRIES /\ docs[f] \in Nat /\ msgs[f] \in Nat
  BY DeliveryByEvent DEF TypeOK
<1>1. CASE OnModuleInit
  BY <1>0, <1>1, DeliveryFrame DEF OnModuleInit, work, stores
<1>2. ASSUME NEW hasUser \in BOOLEAN, EnqueueEvent(hasUser)  PROVE Delivery(f)'
  <2>1. CASE f = eventCounter + 1
    <3>1. docs[f] = 0 /\ msgs[f] = 0 /\ retryCount[f] = 0
      BY <2>1, ConstantsAssumption DEF UnnumberedInv, TypeOK
    <3>2. stage'[f] = "queued" /\ UNCHANGED <<docs, msgs, retryCount>>
      BY <1>2, <2>1 DEF EnqueueEvent, stores, TypeOK
    <3>3. QED  BY <3>1, <3>2 DEF Delivery
  <2>2. CASE f # eventCounter + 1
    BY <1>0, <1>2, <2>2, DeliveryFrame DEF EnqueueEvent, stores, TypeOK
  <2>3. QED  BY <2>1, <2>2
<1>3. ASSUME NEW c \in Callers, ProcessBatch(c), UNCHANGED <<stores, retryCount, anonymous>>
      PROVE  Delivery(f)'
  <2>1. f \in NextBatch => stage[f] = "queued"
    BY <1>3, QueueAfterSplice DEF OnePlace, ProcessBatch
  <2>2. QED  BY <1>0, <1>3, <2>1 DEF ProcessBatch, Delivery, stores
<1>4. CASE Tick
  BY <1>3, <1>4 DEF Tick, Callers
<1>5. ASSUME NEW c \in Callers, NEW e \in Events, Settle(c, e), e # f
      PROVE  Delivery(f)'
  <2>1. /\ stage'[f] = stage[f] /\ retryCount'[f] = retryCount[f]
        /\ docs'[f] = docs[f] /\ msgs'[f] = msgs[f] /\ anonymous' = anonymous
    BY <1>5 DEF TypeOK, Settle, SaveSucceeds, SendSucceeds, SaveFails, SendFails,
                HandleError, Requeue, Drop, Stored, Announced
  <2>2. QED  BY <1>0, <2>1, DeliveryFrame
<1>6. ASSUME NEW c \in Callers, Settle(c, f)  PROVE Delivery(f)'
  <2>1. CASE SaveSucceeds(c, f)
    BY <1>0, <2>1 DEF TypeOK, SaveSucceeds, Stored, Delivery
  <2>2. CASE SendSucceeds(c, f)
    BY <1>0, <2>2 DEF TypeOK, SendSucceeds, Announced, Delivery
  <2>3. ASSUME HandleError(c, f), docs[f] <= retryCount[f] + 1,
               docs'[f] \in Nat, msgs'[f] \in Nat,
               docs'[f] <= retryCount[f] + 1, msgs'[f] <= docs'[f],
               f \in anonymous => docs'[f] = 0
        PROVE  Delivery(f)'
    <3>1. CASE Requeue(f)
      BY <1>0, <2>3, <3>1, ConstantsAssumption
         DEF TypeOK, HandleError, Requeue, Delivery
    <3>2. CASE Drop(f)
      BY <1>0, <2>3, <3>2, ConstantsAssumption DEF TypeOK, HandleError, Drop, Delivery
    <3>3. QED  BY <2>3, <3>1, <3>2 DEF HandleError
  <2>4. CASE SaveFails(c, f)
    <3>1. \/ f \notin anonymous /\ docs'[f] = docs[f] + 1
          \/ docs'[f] = docs[f]
      BY <2>4 DEF TypeOK, SaveFails, Stored
    <3>2. msgs' = msgs /\ HandleError(c, f) /\ stage[f] = "saving"
      BY <2>4 DEF SaveFails
    <3>3. QED  BY <1>0, <2>3, <3>1, <3>2 DEF Delivery
  <2>5. CASE SendFails(c, f)
    <3>1. msgs'[f] = msgs[f] + 1 \/ msgs'[f] = msgs[f]
      BY <2>5 DEF TypeOK, SendFails, Announced
    <3>2. docs' = docs /\ HandleError(c, f) /\ stage[f] = "sending"
      BY <2>5 DEF SendFails
    <3>3. QED  BY <1>0, <2>3, <3>1, <3>2 DEF Delivery
  <2>6. QED  BY <1>6, <2>1, <2>2, <2>4, <2>5 DEF Settle
<1>7. ASSUME NEW c \in Callers, BatchSettled(c)  PROVE Delivery(f)'
  BY <1>0, <1>7, DeliveryFrame DEF BatchSettled, stores
<1>8. ASSUME DrainStep, UNCHANGED <<stores, retryCount, anonymous>>
      PROVE  Delivery(f)'
  <2>1. CASE UNCHANGED work
    BY <1>0, <1>8, <2>1, DeliveryFrame DEF work, stores
  <2>2. CASE ProcessBatch("drain")
    BY <1>3, <1>8, <2>2 DEF Callers
  <2>3. QED  BY <1>8, <2>1, <2>2 DEF DrainStep
<1>9. CASE OnModuleDestroy
  BY <1>8, <1>9 DEF OnModuleDestroy
<1>10. CASE DrainLoop
  BY <1>8, <1>10 DEF DrainLoop
<1>11. CASE Terminate
  <2>1. PICK landed \in SUBSET InFlight :
           /\ docs'[f] = IF f \in landed \ anonymous /\ stage[f] = "saving"
                         THEN docs[f] + 1 ELSE docs[f]
           /\ msgs'[f] = IF f \in landed /\ stage[f] = "sending"
                         THEN msgs[f] + 1 ELSE msgs[f]
    BY <1>11 DEF Terminate
  <2>2. /\ stage'[f] = IF stage[f] \in Unsettled THEN "lost" ELSE stage[f]
        /\ UNCHANGED <<retryCount, anonymous>>
    BY <1>11 DEF Terminate
  <2>3. QED  BY <1>0, <2>1, <2>2 DEF Delivery, Unsettled, InFlightStages
<1>12. CASE UNCHANGED vars
  BY <1>0, <1>12, DeliveryFrame DEF vars, work, stores
<1>13. QED
  BY <1>1, <1>2, <1>4, <1>5, <1>6, <1>7, <1>9, <1>10, <1>11, <1>12
     DEF Next, Crash, ProcessExit

(* A message always names a stored document, an attempt leaves at most one *)
(* document, published events are in both stores, and only an event whose  *)
(* retries are used up is dropped: for any sizes, whatever fails.          *)
THEOREM DeliveryBounded == Spec => []DeliveryBounds
<1>1. Init => DeliveryBounds
  BY ConstantsAssumption DEF Init, DeliveryBounds
<1>2. IInv /\ DeliveryBounds /\ [Next]_vars => DeliveryBounds'
  <2> SUFFICES ASSUME IInv, DeliveryBounds, [Next]_vars  PROVE DeliveryBounds'
    OBVIOUS
  <2>1. \A e \in Events : Delivery(e)'
    BY DeliveryStep
  <2>2. QED  BY <2>1 DEF Delivery, DeliveryBounds
<1>3. QED  BY <1>1, <1>2, Invariance, PTL DEF Spec

-----------------------------------------------------------------------------
(***************************************************************************)
(* The order in which the queue works, what a step may never do, and that  *)
(* the queue implements DeliveryContract.                                  *)
(***************************************************************************)

(* The queue after a step: what was pushed or what splice() has left, or   *)
(* unchanged.                                                              *)
QueueGrows(e) == /\ stage[e] # "queued"
                 /\ inMemoryQueue' = Append(inMemoryQueue, e)

LEMMA QueueStep ==
    ASSUME IInv, [Next]_vars
    PROVE  \/ UNCHANGED inMemoryQueue
           \/ inMemoryQueue' = <<>>
           \/ inMemoryQueue' = Rest
           \/ \E e \in Events : QueueGrows(e)
<1>1. ASSUME NEW hasUser \in BOOLEAN, EnqueueEvent(hasUser)
      PROVE  \E e \in Events : QueueGrows(e)
  <2>1. eventCounter + 1 \in Events
    BY <1>1, ConstantsAssumption DEF IInv, TypeOK, EnqueueEvent, Events
  <2>2. stage[eventCounter + 1] = "absent"
    BY <2>1 DEF IInv, UnnumberedInv, TypeOK
  <2>3. QED  BY <1>1, <2>1, <2>2 DEF EnqueueEvent, PushNew, QueueGrows
<1>2. ASSUME NEW c \in Callers, NEW e \in Events, Settle(c, e)
      PROVE  UNCHANGED inMemoryQueue \/ QueueGrows(e)
  BY <1>2 DEF Settle, SaveSucceeds, SendSucceeds, SaveFails, SendFails,
              HandleError, Requeue, Drop, QueueGrows
<1>3. QED
  BY <1>1, <1>2
     DEF Next, OnModuleInit, Tick, BatchSettled, OnModuleDestroy, DrainLoop,
         DrainStep, ProcessBatch, Crash, ProcessExit, Terminate, vars, work

(* Nobody overtakes an event that waits in the queue. *)
THEOREM NotPushedBack == Spec => NeverPushedBack
<1> DEFINE Step == \A i \in 1..Len(inMemoryQueue), j \in 1..Len(inMemoryQueue') :
                      inMemoryQueue[i] = inMemoryQueue'[j] => j <= i
<1>1. IInv /\ [Next]_vars => [Step]_vars
  <2> SUFFICES ASSUME IInv, [Next]_vars  PROVE Step
    OBVIOUS
  <2>1. /\ inMemoryQueue \in Seq(Events) /\ Len(inMemoryQueue) \in Nat
        /\ QueueHasNoDuplicates
    BY DEF IInv, TypeOK, OnePlace
  <2>2. CASE UNCHANGED inMemoryQueue
    BY <2>1, <2>2 DEF QueueHasNoDuplicates
  <2>3. CASE inMemoryQueue' = <<>>
    BY <2>3
  <2>4. CASE inMemoryQueue' = Rest
    <3> SUFFICES ASSUME NEW i \in 1..Len(inMemoryQueue), NEW j \in 1..Len(Rest),
                        inMemoryQueue[i] = Rest[j]
                 PROVE  j <= i
      BY <2>4
    <3>1. /\ BatchLen \in Nat /\ Len(Rest) = Len(inMemoryQueue) - BatchLen
          /\ Rest[j] = inMemoryQueue[BatchLen + j]
      BY SpliceFacts DEF IInv
    <3>2. BatchLen + j \in 1..Len(inMemoryQueue)
      BY <2>1, <3>1
    <3>3. i = BatchLen + j
      BY <3>1, <3>2 DEF IInv, OnePlace, QueueHasNoDuplicates
    <3>4. QED  BY <3>1, <3>3
  <2>5. ASSUME NEW e \in Events, QueueGrows(e)  PROVE Step
    <3> SUFFICES ASSUME NEW i \in 1..Len(inMemoryQueue),
                        NEW j \in 1..Len(inMemoryQueue'),
                        inMemoryQueue[i] = inMemoryQueue'[j]
                 PROVE  j <= i
      OBVIOUS
    <3>1. /\ Len(inMemoryQueue') = Len(inMemoryQueue) + 1
          /\ \A k \in 1..Len(inMemoryQueue) : inMemoryQueue'[k] = inMemoryQueue[k]
          /\ inMemoryQueue'[Len(inMemoryQueue) + 1] = e
      BY <2>1, <2>5, PushFacts DEF QueueGrows
    <3>2. inMemoryQueue[i] # e
      BY <2>5 DEF QueueGrows, IInv, OnePlace, QueueHoldsQueued, Queued
    <3>3. j \in 1..Len(inMemoryQueue)
      BY <2>1, <3>1, <3>2
    <3>4. QED  BY <2>1, <3>1, <3>3 DEF QueueHasNoDuplicates
  <2>6. QED  BY <2>2, <2>3, <2>4, <2>5, QueueStep
<1>2. QED  BY <1>1, Invariance, PTL DEF Spec, NeverPushedBack

(* When the drain returns, what is not settled is in flight in a batch of *)
(* the timer.                                                             *)
THEOREM DrainLeaves == Spec => DrainLeavesOnlyInFlight
<1> DEFINE Step == phase # "drained" /\ phase' = "drained"
                     => \A e \in Events : stage'[e] \in Unsettled
                                             => e \in batch'["timer"]
<1>1. IInv /\ [Next]_vars => [Step]_vars
  <2> SUFFICES ASSUME IInv, [Next]_vars, phase # "drained", phase' = "drained",
                      NEW e \in Events, stage'[e] \in Unsettled
               PROVE  e \in batch'["timer"]
    OBVIOUS
  <2>1. OnModuleDestroy \/ DrainLoop
    BY DEF Next, OnModuleInit, EnqueueEvent, Tick, Settle, SaveSucceeds, SaveFails,
           SendSucceeds, SendFails, HandleError, BatchSettled, Crash, ProcessExit,
           Terminate, vars
  <2>2. /\ inMemoryQueue = <<>> /\ "drain" \notin calls
        /\ UNCHANGED work
    BY <2>1 DEF OnModuleDestroy, DrainLoop, DrainStep, IInv, CallsInv
  <2>3. batch["drain"] = {} /\ Queued = {}
    BY <2>2 DEF IInv, CallsInv, Callers, Queued
  <2>4. stage[e] # "queued"
    BY <2>3 DEF IInv, OnePlace, QueueHoldsQueued
  <2>5. e \in InFlight
    BY <2>2, <2>4 DEF work, InFlight, Unsettled
  <2>6. QED  BY <2>2, <2>3, <2>5 DEF work, IInv, OnePlace, BatchesHoldFlying
<1>2. QED  BY <1>1, Invariance, PTL DEF Spec, DrainLeavesOnlyInFlight

(* The queue implements the delivery contract. *)
THEOREM Refinement == Spec => ImplementsContract
<1> USE DEF Contract!Pending
<1>1. Init => Contract!Init
  BY DEF Init, Contract!Init, contractStatus
<1>2. IInv /\ [Next]_vars => [Contract!Next]_(Contract!contractVars)
  <2> SUFFICES ASSUME IInv, [Next]_vars
               PROVE  Contract!Next \/ UNCHANGED Contract!contractVars
    OBVIOUS
  <2> USE DEF IInv
  <2>1. ASSUME \A e \in Events : contractStatus'[e] = contractStatus[e],
               UNCHANGED <<retryCount, docs, msgs>>
        PROVE  UNCHANGED Contract!contractVars
    BY <2>1 DEF Contract!contractVars, contractStatus
  <2>2. ASSUME UNCHANGED <<stage, retryCount, docs, msgs>>
        PROVE  UNCHANGED Contract!contractVars
    BY <2>2 DEF Contract!contractVars, contractStatus
  <2>3. ASSUME NEW c \in Callers, ProcessBatch(c), UNCHANGED <<retryCount, docs, msgs>>
        PROVE  UNCHANGED Contract!contractVars
    <3>1. \A e \in NextBatch : stage[e] = "queued"
      BY <2>3, QueueAfterSplice DEF OnePlace, ProcessBatch
    <3>2. QED  BY <2>1, <2>3, <3>1 DEF ProcessBatch, contractStatus
  <2>4. ASSUME NEW hasUser \in BOOLEAN, EnqueueEvent(hasUser)  PROVE Contract!Next
    <3> DEFINE e == eventCounter + 1
    <3>1. e \in Events
      BY <2>4, ConstantsAssumption DEF TypeOK, EnqueueEvent, Events
    <3>2. stage[e] = "absent"
      BY <3>1 DEF UnnumberedInv, TypeOK
    <3>3. /\ stage' = [stage EXCEPT ![e] = "queued"]
          /\ UNCHANGED <<retryCount, docs, msgs>>
      BY <2>4 DEF EnqueueEvent, stores
    <3> HIDE DEF e
    <3>4. contractStatus' = [contractStatus EXCEPT ![e] = "accepted"]
      BY <3>1, <3>3 DEF contractStatus, TypeOK
    <3>5. Contract!Accept(e)
      BY <3>1, <3>2, <3>3, <3>4 DEF Contract!Accept, contractStatus
    <3>6. QED  BY <3>1, <3>5 DEF Contract!Next
  <2>5. ASSUME NEW c \in Callers, NEW e \in Events, Settle(c, e)  PROVE Contract!Next
    <3> SUFFICES \/ Contract!Store(e) \/ Contract!Publish(e) \/ Contract!Fail(e)
      BY DEF Contract!Next
    <3>1. CASE SaveSucceeds(c, e)
      <4>1. contractStatus' = [contractStatus EXCEPT ![e] = "stored"]
        BY <3>1 DEF SaveSucceeds, contractStatus, TypeOK
      <4>2. QED
        BY <3>1, <4>1 DEF SaveSucceeds, Stored, Contract!Store, contractStatus
    <3>2. CASE SendSucceeds(c, e)
      <4>1. contractStatus' = [contractStatus EXCEPT ![e] = "published"]
        BY <3>2 DEF SendSucceeds, contractStatus, TypeOK
      <4>2. QED
        BY <3>2, <4>1 DEF SendSucceeds, Announced, Contract!Publish, contractStatus
    <3>3. ASSUME HandleError(c, e)  PROVE Contract!TryAgain(e) \/ Contract!GiveUp(e)
      <4>1. CASE Requeue(e)
        <5>1. contractStatus' = [contractStatus EXCEPT ![e] = "accepted"]
          BY <4>1 DEF Requeue, contractStatus, TypeOK
        <5>2. QED  BY <4>1, <5>1 DEF Requeue, Contract!TryAgain
      <4>2. CASE Drop(e)
        <5>1. contractStatus' = [contractStatus EXCEPT ![e] = "dropped"]
          BY <4>2 DEF Drop, contractStatus, TypeOK
        <5>2. retryCount[e] = MAX_RETRIES
          BY <4>2, ConstantsAssumption DEF Drop, TypeOK
        <5>3. QED  BY <4>2, <5>1, <5>2 DEF Drop, Contract!GiveUp
      <4>3. QED  BY <3>3, <4>1, <4>2 DEF HandleError
    <3>4. CASE SaveFails(c, e)
      <4>1. contractStatus[e] = "accepted"
        BY <3>4 DEF SaveFails, contractStatus
      <4>2. \E landed \in SUBSET {e} : Contract!SilentWrites(landed)
        <5>1. CASE Stored(e)
          <6>1. Contract!SilentWrites({e})
            BY <3>4, <4>1, <5>1
               DEF SaveFails, Stored, TypeOK, Contract!SilentWrites
          <6>2. QED  BY <6>1
        <5>2. CASE UNCHANGED docs
          <6>1. Contract!SilentWrites({})
            BY <3>4, <5>2 DEF SaveFails, TypeOK, Contract!SilentWrites
          <6>2. QED  BY <6>1
        <5>3. QED  BY <3>4, <5>1, <5>2 DEF SaveFails
      <4>3. QED  BY <3>3, <3>4, <4>1, <4>2 DEF SaveFails, Contract!Fail
    <3>5. CASE SendFails(c, e)
      <4>1. contractStatus[e] = "stored"
        BY <3>5 DEF SendFails, contractStatus
      <4>2. \E landed \in SUBSET {e} : Contract!SilentWrites(landed)
        <5>1. CASE Announced(e)
          <6>1. Contract!SilentWrites({e})
            BY <3>5, <4>1, <5>1
               DEF SendFails, Announced, TypeOK, Contract!SilentWrites
          <6>2. QED  BY <6>1
        <5>2. CASE UNCHANGED msgs
          <6>1. Contract!SilentWrites({})
            BY <3>5, <5>2 DEF SendFails, TypeOK, Contract!SilentWrites
          <6>2. QED  BY <6>1
        <5>3. QED  BY <3>5, <5>1, <5>2 DEF SendFails
      <4>3. QED  BY <3>3, <3>5, <4>1, <4>2 DEF SendFails, Contract!Fail
    <3>6. QED  BY <2>5, <3>1, <3>2, <3>4, <3>5 DEF Settle
  <2>6. ASSUME Terminate  PROVE Contract!LoseAll
    <3>1. contractStatus' = [e \in Events |-> IF contractStatus[e] \in Contract!Pending
                                              THEN "lost" ELSE contractStatus[e]]
      BY <2>6 DEF Terminate, contractStatus, TypeOK, Unsettled, InFlightStages, Stages
    <3>2. PICK landed \in SUBSET InFlight :
             /\ docs' = [e \in Events |->
                   IF e \in landed \ anonymous /\ stage[e] = "saving"
                   THEN docs[e] + 1 ELSE docs[e]]
             /\ msgs' = [e \in Events |->
                   IF e \in landed /\ stage[e] = "sending"
                   THEN msgs[e] + 1 ELSE msgs[e]]
      BY <2>6 DEF Terminate
    <3> DEFINE written == {e \in landed : stage[e] = "sending" \/ e \notin anonymous}
    <3>3. \A e \in written : e \in Events /\ stage[e] \in {"saving", "sending"}
      BY DEF InFlight, InFlightStages
    <3>4. \A e \in Events :
             /\ e \in landed \ anonymous /\ stage[e] = "saving"
                  <=> e \in written /\ contractStatus[e] = "accepted"
             /\ e \in landed /\ stage[e] = "sending"
                  <=> e \in written /\ contractStatus[e] = "stored"
      BY <3>3 DEF contractStatus, TypeOK, Stages
    <3>5. Contract!SilentWrites(written)
      BY <3>2, <3>4 DEF Contract!SilentWrites
    <3>6. written \in SUBSET Events
      BY <3>3
    <3>7. QED  BY <2>6, <3>1, <3>5, <3>6 DEF Terminate, Contract!LoseAll
  <2>7. ASSUME DrainStep, UNCHANGED <<retryCount, docs, msgs>>
        PROVE  UNCHANGED Contract!contractVars
    BY <2>2, <2>3, <2>7 DEF DrainStep, work, Callers
  <2>8. QED
    BY <2>2, <2>3, <2>4, <2>5, <2>6, <2>7
       DEF Next, OnModuleInit, Tick, BatchSettled, OnModuleDestroy, DrainLoop, Crash,
           ProcessExit, Callers, Contract!Next, vars, work, stores
<1>3. QED  BY <1>1, <1>2, Invariance, PTL DEF Spec, ImplementsContract, Contract!Spec

-----------------------------------------------------------------------------
(* First attempts are made in the order of acceptance. *)

(* Neither a success nor a failure of an attempt changes which events wait *)
(* for their first one; a retry goes behind them.                          *)
LEMMA UntriedFrame ==
    ASSUME TypeOK, FirstAttemptsInOrder,
           \A f \in Events : /\ f \in Untried' <=> f \in Untried
                             /\ stage'[f] = "absent" <=> stage[f] = "absent",
           NEW e \in Events, e \notin Untried,
           \/ UNCHANGED inMemoryQueue
           \/ inMemoryQueue' = Append(inMemoryQueue, e)
    PROVE  FirstAttemptsInOrder'
<1>1. \A d, f \in Events : d \in Untried' /\ stage'[f] # "absent" /\ f \notin Untried' => f < d
  BY DEF FirstAttemptsInOrder
<1>2. ASSUME NEW i \in 1..Len(inMemoryQueue'), NEW j \in 1..Len(inMemoryQueue'),
             i < j, inMemoryQueue'[i] \in Untried', inMemoryQueue'[j] \in Untried'
      PROVE  inMemoryQueue'[i] < inMemoryQueue'[j]
  <2>1. inMemoryQueue \in Seq(Events) /\ Len(inMemoryQueue) \in Nat
    BY DEF TypeOK
  <2>2. inMemoryQueue' \in Seq(Events)
    BY <2>1, PushFacts
  <2>3. inMemoryQueue'[i] \in Events /\ inMemoryQueue'[j] \in Events
    BY <2>2
  <2>4. inMemoryQueue'[i] \in Untried /\ inMemoryQueue'[j] \in Untried
    BY <1>2, <2>3
  <2>5. /\ i \in 1..Len(inMemoryQueue) /\ inMemoryQueue'[i] = inMemoryQueue[i]
        /\ j \in 1..Len(inMemoryQueue) /\ inMemoryQueue'[j] = inMemoryQueue[j]
    BY <2>1, <2>4, PushFacts
  <2>6. QED  BY <1>2, <2>4, <2>5 DEF FirstAttemptsInOrder
<1>3. QED  BY <1>1, <1>2 DEF FirstAttemptsInOrder, Untried

(* splice() takes the oldest events of those that were never tried. *)
LEMMA OrderAfterSplice ==
    ASSUME IInv, FirstAttemptsInOrder, NEW c \in Callers, ProcessBatch(c),
           UNCHANGED retryCount
    PROVE  FirstAttemptsInOrder'
<1> USE DEF IInv, OnePlace
<1>1. /\ BatchLen \in 0..Len(inMemoryQueue)
      /\ Len(inMemoryQueue) \in Nat
      /\ Len(inMemoryQueue') = Len(inMemoryQueue) - BatchLen
      /\ \A i \in 1..Len(inMemoryQueue') :
            inMemoryQueue'[i] = inMemoryQueue[BatchLen + i]
  <2>1. inMemoryQueue' = Rest
    BY DEF ProcessBatch
  <2>2. inMemoryQueue \in Seq(Events)
    BY DEF TypeOK
  <2>3. Len(inMemoryQueue) \in Nat
    BY <2>2
  <2>4. TypeOK
    OBVIOUS
  <2>5. QED  BY ONLY <2>1, <2>3, <2>4, SpliceFacts
<1>2. QueueHoldsQueued' /\ \A e \in NextBatch : stage[e] = "queued"
  BY QueueAfterSplice DEF ProcessBatch
<1>3. \A f \in Events : /\ stage'[f] = IF f \in NextBatch THEN "saving" ELSE stage[f]
                        /\ f \in Untried' => f \in Untried
  BY DEF ProcessBatch, Untried
<1>4. ASSUME NEW d \in Events, NEW f \in Events,
             d \in Untried', stage'[f] # "absent", f \notin Untried'
      PROVE  f < d
  <2>1. d \in Untried
    BY <1>3, <1>4
  <2>2. CASE f \notin Untried
    BY <1>2, <1>3, <1>4, <2>1, <2>2 DEF FirstAttemptsInOrder
  <2>3. CASE f \in Untried
    <3>1. f \in NextBatch
      BY <1>3, <1>4, <2>3 DEF Untried
    <3>2. PICK i \in 1..BatchLen : f = inMemoryQueue[i]
      BY <3>1 DEF NextBatch
    <3>3. d \in Queued'
      BY <1>2, <1>4 DEF QueueHoldsQueued, Untried
    <3>4. PICK k \in 1..Len(inMemoryQueue') : d = inMemoryQueue'[k]
      BY <3>3 DEF Queued
    <3>5. /\ i \in 1..Len(inMemoryQueue) /\ BatchLen + k \in 1..Len(inMemoryQueue)
          /\ i < BatchLen + k /\ d = inMemoryQueue[BatchLen + k]
      BY <1>1, <3>4
    <3>6. QED  BY <2>1, <2>3, <3>2, <3>5 DEF FirstAttemptsInOrder
  <2>4. QED  BY <2>2, <2>3
<1>5. ASSUME NEW i \in 1..Len(inMemoryQueue'), NEW j \in 1..Len(inMemoryQueue'),
             i < j, inMemoryQueue'[i] \in Untried', inMemoryQueue'[j] \in Untried'
      PROVE  inMemoryQueue'[i] < inMemoryQueue'[j]
  <2>1. /\ BatchLen + i \in 1..Len(inMemoryQueue)
        /\ BatchLen + j \in 1..Len(inMemoryQueue)
        /\ BatchLen + i < BatchLen + j
        /\ inMemoryQueue'[i] = inMemoryQueue[BatchLen + i]
        /\ inMemoryQueue'[j] = inMemoryQueue[BatchLen + j]
    BY <1>1, <1>5
  <2>2. inMemoryQueue'[i] \in Events /\ inMemoryQueue'[j] \in Events
    <3>1. inMemoryQueue \in Seq(Events)
      BY DEF TypeOK
    <3>2. QED  BY ONLY <2>1, <3>1
  <2>3. inMemoryQueue'[i] \in Untried /\ inMemoryQueue'[j] \in Untried
    BY <1>3, <1>5, <2>2
  <2>4. QED  BY ONLY <2>1, <2>3, FirstAttemptsInOrder DEF FirstAttemptsInOrder
<1>6. QED  BY <1>4, <1>5 DEF FirstAttemptsInOrder, Untried

(* Whatever fails and is queued again, events are tried for the first time *)
(* in the order in which they were accepted.                               *)
THEOREM FirstAttemptsOrdered == Spec => []FirstAttemptsInOrder
<1>1. Init => FirstAttemptsInOrder
  <2> SUFFICES ASSUME Init  PROVE FirstAttemptsInOrder
    OBVIOUS
  <2>1. Len(inMemoryQueue) = 0
    BY DEF Init
  <2>2. QED  BY <2>1 DEF Init, FirstAttemptsInOrder, Untried
<1>2. IInv /\ FirstAttemptsInOrder /\ [Next]_vars => FirstAttemptsInOrder'
  <2> SUFFICES ASSUME IInv, FirstAttemptsInOrder, [Next]_vars
               PROVE  FirstAttemptsInOrder'
    OBVIOUS
  <2>0. TypeOK
    BY DEF IInv
  <2>1. ASSUME UNCHANGED <<inMemoryQueue, stage, retryCount>>
        PROVE  FirstAttemptsInOrder'
    BY <2>1 DEF FirstAttemptsInOrder, Untried
  <2>2. ASSUME NEW hasUser \in BOOLEAN, EnqueueEvent(hasUser)
        PROVE  FirstAttemptsInOrder'
    <3> DEFINE e == eventCounter + 1
    <3>1. e \in Events /\ eventCounter \in Nat
      BY <2>0, <2>2, ConstantsAssumption DEF TypeOK, EnqueueEvent, Events
    <3>2. \A f \in Events : stage[f] # "absent" => f < e
      BY <3>1 DEF IInv, UnnumberedInv, Events
    <3>3. /\ inMemoryQueue' = Append(inMemoryQueue, e)
          /\ stage' = [stage EXCEPT ![e] = "queued"]
          /\ UNCHANGED retryCount
      BY <2>2 DEF EnqueueEvent, PushNew
    <3> HIDE DEF e
    <3>4. \A f \in Events : f # e => /\ stage'[f] = stage[f]
                                     /\ f \in Untried' <=> f \in Untried
      BY <2>0, <3>3 DEF TypeOK, Untried
    <3>5. stage[e] = "absent" /\ retryCount[e] = 0
      BY <2>0, <3>1 DEF IInv, UnnumberedInv, TypeOK, e
    <3>6. e \in Untried'
      BY <2>0, <3>1, <3>3, <3>5 DEF TypeOK, Untried
    <3>7. ASSUME NEW d \in Events, NEW f \in Events,
                 d \in Untried', stage'[f] # "absent", f \notin Untried'
          PROVE  f < d
      <4>1. f # e /\ f \notin Untried /\ stage[f] # "absent"
        BY <3>4, <3>6, <3>7
      <4>2. QED  BY <3>2, <3>4, <3>7, <4>1 DEF FirstAttemptsInOrder
    <3>8. ASSUME NEW i \in 1..Len(inMemoryQueue'), NEW j \in 1..Len(inMemoryQueue'),
                 i < j, inMemoryQueue'[i] \in Untried', inMemoryQueue'[j] \in Untried'
          PROVE  inMemoryQueue'[i] < inMemoryQueue'[j]
      <4>1. /\ inMemoryQueue \in Seq(Events) /\ Len(inMemoryQueue) \in Nat
            /\ Len(inMemoryQueue') = Len(inMemoryQueue) + 1
            /\ \A k \in 1..Len(inMemoryQueue) :
                  inMemoryQueue'[k] = inMemoryQueue[k] /\ inMemoryQueue[k] \in Events
            /\ inMemoryQueue'[Len(inMemoryQueue) + 1] = e
        BY <2>0, <3>1, <3>3, PushFacts DEF TypeOK
      <4>2. i \in 1..Len(inMemoryQueue)
        BY <3>8, <4>1
      <4>3. inMemoryQueue[i] \in Queued
        BY <4>2 DEF Queued
      <4>4. stage[inMemoryQueue[i]] = "queued"
        BY <4>1, <4>2, <4>3 DEF IInv, OnePlace, QueueHoldsQueued
      <4>5. inMemoryQueue[i] # e /\ inMemoryQueue[i] < e
        BY <3>2, <3>5, <4>1, <4>2, <4>4
      <4>6. CASE j = Len(inMemoryQueue) + 1
        BY <4>1, <4>2, <4>5, <4>6
      <4>7. CASE j \in 1..Len(inMemoryQueue)
        <5>1. inMemoryQueue[j] # e
          BY <3>5, <4>1, <4>7 DEF IInv, OnePlace, QueueHoldsQueued, Queued
        <5>2. QED
          BY <3>4, <3>8, <4>1, <4>2, <4>5, <4>7, <5>1 DEF FirstAttemptsInOrder
      <4>8. QED  BY <4>1, <4>6, <4>7
    <3>9. QED  BY <3>7, <3>8 DEF FirstAttemptsInOrder, Untried
  <2>3. ASSUME NEW c \in Callers, NEW e \in Events, Settle(c, e)
        PROVE  FirstAttemptsInOrder'
    <3>1. stage[e] \in InFlightStages
      BY <2>3 DEF Settle, SaveSucceeds, SendSucceeds, SaveFails, SendFails,
                  InFlightStages
    <3>2. \A f \in Events : f # e => /\ stage'[f] = stage[f]
                                     /\ retryCount'[f] = retryCount[f]
      BY <2>0, <2>3 DEF TypeOK, Settle, SaveSucceeds, SendSucceeds, SaveFails,
                        SendFails, HandleError, Requeue, Drop
    <3>3. /\ stage'[e] # "absent"
          /\ stage'[e] = "queued" => retryCount'[e] # 0
      BY <2>0, <2>3, ConstantsAssumption
         DEF TypeOK, Settle, SaveSucceeds, SendSucceeds, SaveFails, SendFails,
             HandleError, Requeue, Drop
    <3>4. \/ UNCHANGED inMemoryQueue
          \/ inMemoryQueue' = Append(inMemoryQueue, e)
      BY <2>3 DEF Settle, SaveSucceeds, SendSucceeds, SaveFails, SendFails,
                  HandleError, Requeue, Drop
    <3>5. e \notin Untried /\ e \notin Untried' /\ stage[e] # "absent"
      BY <3>1, <3>3 DEF Untried, InFlightStages
    <3>6. \A f \in Events : /\ f \in Untried' <=> f \in Untried
                            /\ stage'[f] = "absent" <=> stage[f] = "absent"
      BY <3>2, <3>3, <3>5 DEF Untried
    <3>7. QED  BY <2>0, <3>4, <3>5, <3>6, UntriedFrame
  <2>4. ASSUME DrainStep, UNCHANGED retryCount  PROVE FirstAttemptsInOrder'
    BY <2>1, <2>4, OrderAfterSplice DEF DrainStep, work, Callers
  <2>5. CASE Terminate
    <3>1. Len(inMemoryQueue') = 0 /\ \A f \in Events : f \notin Untried'
      BY <2>5 DEF Terminate, Untried, Unsettled
    <3>2. QED  BY <3>1 DEF FirstAttemptsInOrder, Untried
  <2>6. CASE Tick
    BY <2>6, OrderAfterSplice DEF Tick, Callers
  <2>7. QED
    BY <2>1, <2>2, <2>3, <2>4, <2>5, <2>6
       DEF Next, OnModuleInit, BatchSettled, OnModuleDestroy, DrainLoop, Crash,
           ProcessExit, vars, work
<1>3. QED  BY <1>1, <1>2, Invariance, PTL DEF Spec

-----------------------------------------------------------------------------
(* One batch at a time. *)

LEMMA NextBatchSize ==
    ASSUME TypeOK
    PROVE  Cardinality(NextBatch) <= BATCH_SIZE
<1> DEFINE f == [i \in 1..BatchLen |-> inMemoryQueue[i]]
<1>1. BatchLen \in Nat /\ BatchLen <= BATCH_SIZE
  BY SpliceFacts DEF TypeOK
<1>2. f \in Surjection(1..BatchLen, NextBatch)
  BY DEF NextBatch, Surjection
<1>3. IsFiniteSet(1..BatchLen) /\ Cardinality(1..BatchLen) = BatchLen
  BY <1>1, FS_Interval
<1>4. IsFiniteSet(NextBatch) /\ Cardinality(NextBatch) <= Cardinality(1..BatchLen)
  <2> HIDE DEF f
  <2>1. QED  BY <1>2, <1>3, FS_Surjection
<1>5. Cardinality(NextBatch) \in Nat
  BY <1>4, FS_CardinalityType
<1>6. QED  BY <1>1, <1>3, <1>4, <1>5, ConstantsAssumption

BatchSizeInv == \A c \in Callers : Cardinality(batch[c]) <= BATCH_SIZE

LEMMA BatchSizeStep ==
    ASSUME TypeOK, BatchSizeInv, [Next]_vars
    PROVE  BatchSizeInv'
<1>1. \A c \in Callers : IsFiniteSet(batch[c]) /\ Cardinality(batch[c]) \in Nat
  <2>1. IsFiniteSet(Events)
    BY ConstantsAssumption, FS_Interval DEF Events
  <2>2. \A c \in Callers : batch[c] \in SUBSET Events
    BY DEF TypeOK
  <2>3. QED  BY <2>1, <2>2, FS_Subset, FS_CardinalityType
<1>2. ASSUME \A c \in Callers : \/ batch'[c] \subseteq batch[c]
                                \/ batch'[c] = NextBatch
      PROVE  BatchSizeInv'
  <2> SUFFICES ASSUME NEW c \in Callers  PROVE Cardinality(batch'[c]) <= BATCH_SIZE
    BY DEF BatchSizeInv
  <2>1. CASE batch'[c] = NextBatch
    BY <2>1, NextBatchSize
  <2>2. CASE batch'[c] \subseteq batch[c]
    <3>1. /\ IsFiniteSet(batch'[c])
          /\ Cardinality(batch'[c]) <= Cardinality(batch[c])
      BY <1>1, <2>2, FS_Subset
    <3>2. Cardinality(batch'[c]) \in Nat
      BY <3>1, FS_CardinalityType
    <3>3. QED  BY <1>1, <3>1, <3>2, ConstantsAssumption DEF BatchSizeInv
  <2>3. QED  BY <1>2, <2>1, <2>2
<1>3. \A c \in Callers : \/ batch'[c] \subseteq batch[c]
                         \/ batch'[c] = NextBatch
  <2>1. ASSUME NEW c \in Callers, NEW e \in Events, Settle(c, e), NEW d \in Callers
        PROVE  batch'[d] \subseteq batch[d]
    BY <2>1 DEF TypeOK, Settle, SaveSucceeds, SendSucceeds, SaveFails, SendFails,
                HandleError
  <2>2. ASSUME NEW c \in Callers, ProcessBatch(c), NEW d \in Callers
        PROVE  batch'[d] = batch[d] \/ batch'[d] = NextBatch
    BY <2>2 DEF TypeOK, ProcessBatch
  <2>3. QED
    BY <2>1, <2>2
       DEF Next, OnModuleInit, EnqueueEvent, Tick, BatchSettled, OnModuleDestroy,
           DrainLoop, DrainStep, Crash, ProcessExit, Terminate, Callers, vars, work
<1>4. QED  BY <1>2, <1>3

(* Until shutdown the flag isProcessing keeps at most one batch in flight, *)
(* and no batch is ever larger than BATCH_SIZE.                            *)
THEOREM SingleFlightHolds == Spec => []SingleFlight
<1>1. Init => BatchSizeInv
  BY FS_EmptySet, ConstantsAssumption DEF Init, BatchSizeInv
<1>2. TypeOK /\ BatchSizeInv /\ [Next]_vars => BatchSizeInv'
  BY BatchSizeStep
<1>3. IInv /\ BatchSizeInv => SingleFlight
  BY DEF IInv, CallsInv, OnePlace, BatchesHoldFlying, BatchSizeInv, SingleFlight,
         Callers
<1>4. QED  BY <1>1, <1>2, <1>3, TypeCorrect, Invariance, PTL DEF Spec

(* Until shutdown, statistics that show an empty and idle queue mean that   *)
(* every accepted event is published, dropped or lost with an earlier       *)
(* process, for any number of events, batch size and retry limit.           *)
THEOREM IdleMeansSettled == Spec => []IdleIsSettled
<1>1. TypeOK /\ OnePlace /\ SingleFlight => IdleIsSettled
  <2> SUFFICES ASSUME TypeOK, OnePlace, SingleFlight,
                      phase \in {"created", "running"}, Idle,
                      NEW e \in Events
               PROVE  stage[e] \notin Unsettled
    BY DEF IdleIsSettled
  <2>1. Queued = {}
    BY DEF TypeOK, Idle, QueueStats, Queued
  <2>2. stage[e] # "queued"
    BY <2>1 DEF OnePlace, QueueHoldsQueued
  <2>3. InFlight = {}
    BY DEF SingleFlight, Idle, QueueStats
  <2> QED
    BY <2>2, <2>3 DEF InFlight, Unsettled
<1> QED
  BY <1>1, TypeCorrect, OnePlaceHolds, SingleFlightHolds, PTL
=============================================================================
