----------------------------- MODULE EventQueue -----------------------------
(***************************************************************************)
(* EventQueueService (src/events/event-queue.service.ts): the in-memory    *)
(* queue between the producers of events (the HTTP controller and the      *)
(* Kafka consumer) and the two stores an event must reach, MongoDB and the *)
(* Kafka topic 'events'.                                                   *)
(*                                                                         *)
(* The service runs on one event loop, so a step is the code between two   *)
(* awaits.  Two callers run processBatch(): the interval timer, which does *)
(* not await it, and the shutdown drain, which does; the calls of the two  *)
(* can overlap.                                                            *)
(*                                                                         *)
(* Event n is the event for which ++eventCounter yielded n; as its id also *)
(* carries Date.now(), the model numbers on when the process restarts.     *)
(***************************************************************************)
EXTENDS Naturals, Sequences, FiniteSets

CONSTANTS MaxEvents,   \* bound: how many events are ever accepted
          BATCH_SIZE,  \* how many events one processBatch() takes
          MAX_RETRIES  \* how often a failed event is queued again

ASSUME ConstantsAssumption == /\ MaxEvents \in Nat
                              /\ BATCH_SIZE \in Nat \ {0}
                              /\ MAX_RETRIES \in Nat

Events  == 1..MaxEvents
Callers == {"timer", "drain"}
Phases  == {"created", "running", "draining", "drained"}
Stages  == {"absent",                       \* not accepted yet
            "queued",                       \* in inMemoryQueue
            "saving",                       \* awaiting eventDocument.save()
            "sending",                      \* awaiting kafkaService.sendMessage()
            "published", "dropped", "lost"} \* settled

VARIABLES
    inMemoryQueue,       \* the queue, oldest first
    eventCounter,
    isProcessing,
    processingInterval,  \* whether the interval timer is set
    retryCount,          \* the retryCount field of each QueuedEvent
    stage,               \* how far processing of each event is
    batch,               \* per caller, its unsettled processSingleEvent() calls
    calls,               \* the callers whose processBatch() awaits allSettled
    phase,               \* lifecycle of the service in the Nest application
    anonymous,           \* events that carry no userId, which the schema requires
    docs,                \* MongoDB documents written for each event
    msgs                 \* how many of them were announced on Kafka

stores   == <<docs, msgs>>
work     == <<inMemoryQueue, isProcessing, stage, batch, calls>>
vars     == <<work, stores, eventCounter, processingInterval, retryCount, phase,
              anonymous>>

InFlightStages == {"saving", "sending"}
Unsettled      == {"queued"} \cup InFlightStages
InFlight       == {e \in Events : stage[e] \in InFlightStages}
Queued         == {inMemoryQueue[i] : i \in 1..Len(inMemoryQueue)}

-----------------------------------------------------------------------------
(* A freshly constructed service: the fields' initialisers. *)

Init == /\ inMemoryQueue = <<>>
        /\ eventCounter = 0
        /\ isProcessing = FALSE
        /\ processingInterval = FALSE
        /\ retryCount = [e \in Events |-> 0]
        /\ stage = [e \in Events |-> "absent"]
        /\ batch = [c \in Callers |-> {}]
        /\ calls = {}
        /\ phase = "created"
        /\ anonymous = {}
        /\ docs = [e \in Events |-> 0]
        /\ msgs = [e \in Events |-> 0]

(* onModuleInit() -> startProcessing() *)
OnModuleInit == /\ phase = "created"
                /\ phase' = "running"
                /\ processingInterval' = TRUE
                /\ UNCHANGED <<work, stores, eventCounter, retryCount, anonymous>>

(* enqueueEvent(): nothing refuses an event, not even after the drain.  Only *)
(* an event read from Kafka may lack the userId.                             *)
UnshiftNew(e) == inMemoryQueue' = <<e>> \o inMemoryQueue  \* mutant: unshift()

PushNew(e) == inMemoryQueue' = Append(inMemoryQueue, e)

EnqueueEvent(hasUser) ==
    /\ phase # "created"
    /\ eventCounter < MaxEvents
    /\ LET e == eventCounter + 1
       IN /\ eventCounter' = e
          /\ PushNew(e)
          /\ stage' = [stage EXCEPT ![e] = "queued"]
          /\ anonymous' = IF hasUser THEN anonymous ELSE anonymous \cup {e}
    /\ UNCHANGED <<isProcessing, processingInterval, retryCount, batch, calls,
                   phase, stores>>

-----------------------------------------------------------------------------
(* processBatch() up to its await: splice the head off the queue and start *)
(* processSingleEvent() for each of its events, up to the await of save(). *)

BatchLen == IF Len(inMemoryQueue) < BATCH_SIZE THEN Len(inMemoryQueue)
                                               ELSE BATCH_SIZE
NextBatch == {inMemoryQueue[i] : i \in 1..BatchLen}
SliceRest == inMemoryQueue                              \* mutant: slice()
Rest == SubSeq(inMemoryQueue, BatchLen + 1, Len(inMemoryQueue))

(* mutant: events are published before they were saved *)
ProcessBatchUnsaved(c) ==
    /\ isProcessing' = TRUE
    /\ calls' = calls \cup {c}
    /\ batch' = [batch EXCEPT ![c] = NextBatch]
    /\ inMemoryQueue' = Rest
    /\ stage' = [e \in Events |-> IF e \in NextBatch THEN "sending" ELSE stage[e]]

ProcessBatch(c) ==
    /\ isProcessing' = TRUE
    /\ calls' = calls \cup {c}
    /\ batch' = [batch EXCEPT ![c] = NextBatch]
    /\ inMemoryQueue' = Rest
    /\ stage' = [e \in Events |-> IF e \in NextBatch THEN "saving" ELSE stage[e]]

(* The timer callback. *)
TickAnyway == processingInterval /\ inMemoryQueue # <<>>  \* mutant: no isProcessing

TickGuard == processingInterval /\ ~isProcessing /\ inMemoryQueue # <<>>

Tick == /\ TickGuard
        /\ ProcessBatch("timer")
        /\ UNCHANGED <<eventCounter, processingInterval, retryCount, phase,
                       anonymous, stores>>

-----------------------------------------------------------------------------
(* processSingleEvent(), from await to await. *)

Stored(e)    == docs' = [docs EXCEPT ![e] = @ + 1]
Announced(e) == msgs' = [msgs EXCEPT ![e] = @ + 1]

SaveSucceeds(c, e) ==
    /\ e \in batch[c]
    /\ stage[e] = "saving"
    /\ e \notin anonymous
    /\ stage' = [stage EXCEPT ![e] = "sending"]
    /\ Stored(e)
    /\ UNCHANGED <<inMemoryQueue, isProcessing, batch, calls, msgs, eventCounter,
                   processingInterval, retryCount, phase, anonymous>>

SendSucceeds(c, e) ==
    /\ e \in batch[c]
    /\ stage[e] = "sending"
    /\ stage' = [stage EXCEPT ![e] = "published"]
    /\ batch' = [batch EXCEPT ![c] = @ \ {e}]
    /\ Announced(e)
    /\ UNCHANGED <<inMemoryQueue, isProcessing, calls, docs, eventCounter,
                   processingInterval, retryCount, phase, anonymous>>

(* The catch block. *)
(* mutant: one retry too many *)
RequeueOnceMore(e) == /\ retryCount[e] <= MAX_RETRIES
                      /\ retryCount' = [retryCount EXCEPT ![e] = @ + 1]
                      /\ inMemoryQueue' = Append(inMemoryQueue, e)
                      /\ stage' = [stage EXCEPT ![e] = "queued"]

(* mutant: the failed event goes back to the head of the queue *)
RequeueFirst(e) == /\ retryCount[e] < MAX_RETRIES
                   /\ retryCount' = [retryCount EXCEPT ![e] = @ + 1]
                   /\ inMemoryQueue' = <<e>> \o inMemoryQueue
                   /\ stage' = [stage EXCEPT ![e] = "queued"]

(* mutant: retryCount++ forgotten *)
RequeueUncounted(e) == /\ retryCount[e] < MAX_RETRIES
                       /\ UNCHANGED retryCount
                       /\ inMemoryQueue' = Append(inMemoryQueue, e)
                       /\ stage' = [stage EXCEPT ![e] = "queued"]

Requeue(e) == /\ retryCount[e] < MAX_RETRIES
              /\ retryCount' = [retryCount EXCEPT ![e] = @ + 1]
              /\ inMemoryQueue' = Append(inMemoryQueue, e)
              /\ stage' = [stage EXCEPT ![e] = "queued"]

Drop(e) == /\ ~(retryCount[e] < MAX_RETRIES)
           /\ stage' = [stage EXCEPT ![e] = "dropped"]
           /\ UNCHANGED <<retryCount, inMemoryQueue>>

HandleError(c, e) ==
    /\ batch' = [batch EXCEPT ![c] = @ \ {e}]
    /\ Requeue(e) \/ Drop(e)
    /\ UNCHANGED <<isProcessing, calls, eventCounter, processingInterval, phase,
                   anonymous>>

(* A failed call may have written nevertheless: its answer timed out or was *)
(* lost with the connection.                                                *)
SaveFails(c, e) ==
    /\ e \in batch[c]
    /\ stage[e] = "saving"
    /\ \/ e \notin anonymous /\ Stored(e)
       \/ UNCHANGED docs
    /\ HandleError(c, e)
    /\ UNCHANGED msgs

SendFails(c, e) ==
    /\ e \in batch[c]
    /\ stage[e] = "sending"
    /\ Announced(e) \/ UNCHANGED msgs
    /\ HandleError(c, e)
    /\ UNCHANGED docs

(* Promise.allSettled() resolves and the finally block runs. *)
FinallyForgotten(c) ==       \* mutant: isProcessing stays set
    /\ c \in calls
    /\ batch[c] = {}
    /\ calls' = calls \ {c}
    /\ UNCHANGED <<isProcessing, inMemoryQueue, stage, batch, stores, eventCounter,
                   processingInterval, retryCount, phase, anonymous>>

SettledIfProcessing(c) ==    \* mutant: a call waits for the flag of another
    /\ c \in calls
    /\ batch[c] = {}
    /\ isProcessing
    /\ isProcessing' = FALSE
    /\ calls' = calls \ {c}
    /\ UNCHANGED <<inMemoryQueue, stage, batch, stores, eventCounter,
                   processingInterval, retryCount, phase, anonymous>>

BatchSettled(c) ==
    /\ c \in calls
    /\ batch[c] = {}
    /\ isProcessing' = FALSE
    /\ calls' = calls \ {c}
    /\ UNCHANGED <<inMemoryQueue, stage, batch, stores, eventCounter,
                   processingInterval, retryCount, phase, anonymous>>

-----------------------------------------------------------------------------
(* Shutdown: onModuleDestroy() -> stopProcessing(), processRemainingEvents(). *)

(* The head of the while loop: the next batch, or return. *)
DrainOneBatch == \/ /\ inMemoryQueue # <<>>   \* mutant: if instead of while
                    /\ phase = "running"
                    /\ phase' = "draining"
                    /\ ProcessBatch("drain")
                 \/ /\ inMemoryQueue = <<>> \/ phase = "draining"
                    /\ phase' = "drained"
                    /\ UNCHANGED work

DrainStep == \/ /\ inMemoryQueue # <<>>
                /\ phase' = "draining"
                /\ ProcessBatch("drain")
             \/ /\ inMemoryQueue = <<>>
                /\ phase' = "drained"
                /\ UNCHANGED work

OnModuleDestroy == /\ phase = "running"
                   /\ processingInterval' = FALSE
                   /\ DrainStep
                   /\ UNCHANGED <<eventCounter, retryCount, anonymous, stores>>

DrainLoop == /\ phase = "draining"
             /\ "drain" \notin calls
             /\ DrainStep
             /\ UNCHANGED <<eventCounter, processingInterval, retryCount,
                            anonymous, stores>>

(* The process ends and with it all that is in memory; of the writes in     *)
(* flight some have reached their store.  The container is restarted.       *)
Terminate ==
    /\ phase' = "created"
    /\ inMemoryQueue' = <<>>
    /\ isProcessing' = FALSE
    /\ processingInterval' = FALSE
    /\ batch' = [c \in Callers |-> {}]
    /\ calls' = {}
    /\ stage' = [e \in Events |-> IF stage[e] \in Unsettled
                                  THEN "lost" ELSE stage[e]]
    /\ \E landed \in SUBSET InFlight :
          /\ docs' = [e \in Events |->
                IF e \in landed \ anonymous /\ stage[e] = "saving"
                THEN docs[e] + 1 ELSE docs[e]]
          /\ msgs' = [e \in Events |->
                IF e \in landed /\ stage[e] = "sending"
                THEN msgs[e] + 1 ELSE msgs[e]]
    /\ UNCHANGED <<eventCounter, retryCount, anonymous>>

Crash == phase \in {"running", "draining"} /\ Terminate

(* After the other modules were destroyed, Nest re-raises the signal. *)
ProcessExit == phase = "drained" /\ Terminate

(* getQueueStats(), which GET /events/stats returns. *)
QueueStats == [total |-> Len(inMemoryQueue), isProcessing |-> isProcessing]

-----------------------------------------------------------------------------
Settle(c, e) == \/ SaveSucceeds(c, e) \/ SaveFails(c, e)
                \/ SendSucceeds(c, e) \/ SendFails(c, e)

Next == \/ OnModuleInit
        \/ \E hasUser \in BOOLEAN : EnqueueEvent(hasUser)
        \/ Tick
        \/ \E c \in Callers, e \in Events : Settle(c, e)
        \/ \E c \in Callers : BatchSettled(c)
        \/ OnModuleDestroy
        \/ DrainLoop
        \/ Crash
        \/ ProcessExit

Spec == Init /\ [][Next]_vars

(* setInterval() fires again and again; save() and sendMessage() settle, as *)
(* their drivers have time-outs and bounded retries; promise continuations  *)
(* run; a signalled process exits.  Nothing makes an event arrive, the      *)
(* service start, be shut down or crash.                                    *)
Fairness == /\ WF_vars(Tick)
            /\ \A c \in Callers, e \in Events : WF_vars(Settle(c, e))
            /\ \A c \in Callers : WF_vars(BatchSettled(c))
            /\ WF_vars(DrainLoop)
            /\ WF_vars(ProcessExit)

FairSpec == Spec /\ Fairness

-----------------------------------------------------------------------------
(* Every variable has its type. *)
TypeOK == /\ inMemoryQueue \in Seq(Events)
          /\ eventCounter \in 0..MaxEvents
          /\ isProcessing \in BOOLEAN
          /\ processingInterval \in BOOLEAN
          /\ retryCount \in [Events -> 0..MAX_RETRIES]
          /\ stage \in [Events -> Stages]
          /\ batch \in [Callers -> SUBSET Events]
          /\ calls \in SUBSET Callers
          /\ phase \in Phases
          /\ anonymous \in SUBSET Events
          /\ docs \in [Events -> Nat]
          /\ msgs \in [Events -> Nat]

(* An event is never in two places: it is in the queue at most once, and   *)
(* while it waits there no processSingleEvent() call handles it; an event  *)
(* being handled belongs to exactly one processBatch() call, also when the *)
(* batches of the timer and of the drain overlap.                          *)
QueueHasNoDuplicates ==
    \A i, j \in 1..Len(inMemoryQueue) :
       inMemoryQueue[i] = inMemoryQueue[j] => i = j

QueueHoldsQueued  == \A e \in Events : e \in Queued <=> stage[e] = "queued"
BatchesHoldFlying == batch["timer"] \cup batch["drain"] = InFlight
BatchesDisjoint   == batch["timer"] \cap batch["drain"] = {}

OnePlace == /\ QueueHasNoDuplicates
            /\ QueueHoldsQueued
            /\ BatchesHoldFlying
            /\ BatchesDisjoint

(* At-least-once delivery, and how much "more than once" it can mean: a    *)
(* message on 'events' always names a document that exists, no attempt     *)
(* leaves more than one document, and an event counted as published has    *)
(* both.  An event without a userId never gets into either store.          *)
DeliveryBounds ==
    \A e \in Events :
       /\ msgs[e] <= docs[e]
       /\ docs[e] <= retryCount[e] + 1
       /\ stage[e] = "queued"  => docs[e] <= retryCount[e]
       /\ stage[e] = "saving"  => docs[e] <= retryCount[e]
       /\ stage[e] = "sending" => msgs[e] < docs[e]
       /\ stage[e] = "published" => msgs[e] >= 1
       /\ stage[e] = "dropped" => retryCount[e] = MAX_RETRIES
       /\ e \in anonymous => docs[e] = 0

(* First attempts are made in the order of acceptance, whatever fails and  *)
(* is queued again in between: an event still waiting for its first attempt*)
(* was accepted after every event that has been taken off the queue.       *)
Untried == {e \in Events : stage[e] = "queued" /\ retryCount[e] = 0}

FirstAttemptsInOrder ==
    /\ \A e \in Untried, f \in Events \ Untried : stage[f] # "absent" => f < e
    /\ \A i, j \in 1..Len(inMemoryQueue) :
          /\ i < j
          /\ inMemoryQueue[i] \in Untried
          /\ inMemoryQueue[j] \in Untried
          => inMemoryQueue[i] < inMemoryQueue[j]

(* Until shutdown the flag isProcessing serialises the batches: nothing is *)
(* in flight while it is false and never more than one batch.  No call     *)
(* ever works on more than BATCH_SIZE events.                              *)
SingleFlight ==
    /\ phase \in {"created", "running"} => batch["drain"] = {}
    /\ phase \in {"created", "running"} /\ ~isProcessing => InFlight = {}
    /\ \A c \in Callers : Cardinality(batch[c]) <= BATCH_SIZE

(* Until shutdown an operator can rely on GET /events/stats: when it shows *)
(* an empty queue that is not processing, every accepted event is settled. *)
Idle == QueueStats.total = 0 /\ ~QueueStats.isProcessing

IdleIsSettled ==
    phase \in {"created", "running"} /\ Idle
       => \A e \in Events : stage[e] \notin Unsettled

(* Nobody overtakes an event in the queue, not even events that are queued *)
(* again: while it waits, its place never moves towards the tail.          *)
NeverPushedBack ==
    [][\A i \in 1..Len(inMemoryQueue), j \in 1..Len(inMemoryQueue') :
          inMemoryQueue[i] = inMemoryQueue'[j] => j <= i]_vars

(* When the drain returns, the only accepted events that are not settled   *)
(* are those which a batch of the timer still had in flight.               *)
DrainLeavesOnlyInFlight ==
    [][phase # "drained" /\ phase' = "drained"
         => \A e \in Events : stage'[e] \in Unsettled => e \in batch'["timer"]]_vars

(* As long as the service keeps running, every queued event is settled:    *)
(* published, or dropped after MAX_RETRIES retries.  No failing event, and *)
(* no event that can never be saved, blocks those behind it.               *)
EventuallySettled ==
    \A e \in Events : stage[e] = "queued" ~>
       stage[e] \in {"published", "dropped"} \/ phase # "running"

(* The drain returns, or the process crashes, once no more events arrive.  *)
DrainTerminates == phase = "draining" ~> phase # "draining"

(* The queue implements the delivery contract; which of the two stores an  *)
(* attempt has reached is all that the contract sees of its progress.      *)
contractStatus == [e \in Events |->
                     CASE stage[e] \in {"queued", "saving"} -> "accepted"
                       [] stage[e] = "sending"              -> "stored"
                       [] OTHER                             -> stage[e]]

Contract == INSTANCE DeliveryContract WITH MaxRetries <- MAX_RETRIES,
                                           failures   <- retryCount,
                                           status     <- contractStatus

ImplementsContract == Contract!Spec

(* Claimed by the comment and the log line of processRemainingEvents():    *)
(* when the drain returns, all events accepted so far are settled.         *)
DrainLeavesNothing ==
    [][phase # "drained" /\ phase' = "drained"
         => \A e \in Events : stage'[e] \notin Unsettled]_vars
=============================================================================
