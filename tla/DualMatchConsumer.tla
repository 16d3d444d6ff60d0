-------------------------- MODULE DualMatchConsumer --------------------------
(***************************************************************************)
(* EventsKafkaConsumerService (src/events/events-kafka-consumer.service.ts)*)
(* reading one partition of the topic 'dualmatch:question' through         *)
(* KafkaService.consumeMessages(), and handing the messages to             *)
(* EventsService.processEvent().                                           *)
(*                                                                         *)
(* kafkajs is external: it hands out the messages of a partition one after *)
(* the other, starts from the committed offset of the group or, when there *)
(* is none, from the end of the log (fromBeginning is false), commits what *)
(* has been handled at the end of a batch, and after a rebalance goes back *)
(* to the committed offset.                                                *)
(***************************************************************************)
EXTENDS Integers, Sequences

CONSTANTS MaxMessages,   \* bound: length of the partition's log
          MaxInterrupts  \* bound: crashes and rebalances

ASSUME BoundsAssumption == MaxMessages \in Nat /\ MaxInterrupts \in Nat

(* The messages, as far as the handler tells them apart: with a userId,    *)
(* without one, with a value JSON.parse() or the code after it throws on,  *)
(* and with no value at all.                                               *)
Kinds == {"complete", "anonymous", "malformed", "empty"}
Usable == {"complete", "anonymous"}

NoOffset == -1   \* the group has not committed anything

VARIABLES
    log,          \* the partition
    consuming,    \* startConsumers() has succeeded in this process
    position,     \* offset of the next message for the handler
    resolved,     \* the offset kafkajs would commit now, if any
    committed,    \* the group's offset
    enqueued,     \* per offset, how often its message was given to processEvent()
    skipped,      \* offsets below which the group started without a commit
    interrupts    \* how many crashes and rebalances there were

vars == <<log, consuming, position, resolved, committed, enqueued, skipped,
          interrupts>>

Offsets == 0..(MaxMessages - 1)
Kind(o) == log[o + 1]

Init == /\ log = <<>>
        /\ consuming = FALSE
        /\ position = 0
        /\ resolved = NoOffset
        /\ committed = NoOffset
        /\ enqueued = [o \in Offsets |-> 0]
        /\ skipped = {}
        /\ interrupts = 0

(* Some other service writes to the topic. *)
Produce(kind) == /\ Len(log) < MaxMessages
                 /\ log' = Append(log, kind)
                 /\ UNCHANGED <<consuming, position, resolved, committed, enqueued,
                                skipped, interrupts>>

-----------------------------------------------------------------------------
(* Where kafkajs starts to read when it is assigned the partition. *)
LatestOffset == Len(log)              \* mutant: a commit is not looked for
BehindCommit ==                       \* mutant: after the committed offset
    IF committed = NoOffset THEN Len(log) ELSE committed + 1
StartOffset == IF committed = NoOffset THEN Len(log) ELSE committed

Assigned == /\ position' = StartOffset
            /\ resolved' = NoOffset
            /\ skipped' = IF committed = NoOffset
                          THEN skipped \cup {o \in Offsets : o < Len(log)}
                          ELSE skipped

(* onModuleInit() -> startConsumers() -> consumeDualMatchQuestions().  When *)
(* that fails so does the bootstrap, and the restarted process tries again. *)
StartConsumers == /\ ~consuming
                  /\ consuming' = TRUE
                  /\ Assigned
                  /\ UNCHANGED <<log, committed, enqueued, interrupts>>

-----------------------------------------------------------------------------
(* The handler: it gives usable messages to processEvent(), passes over     *)
(* empty ones, and swallows what it throws; so kafkajs always resolves the  *)
(* message.  There is no await before the event is in the queue.            *)

ToProcessEvent(o) ==
    enqueued' = IF Kind(o) \in Usable THEN [enqueued EXCEPT ![o] = @ + 1]
                                      ELSE enqueued

EachMessageRethrows ==   \* mutant: both catch blocks throw "to stop consuming and retry"
    /\ consuming /\ position < Len(log)
    /\ Kind(position) # "malformed"
    /\ ToProcessEvent(position)
    /\ position' = position + 1
    /\ resolved' = position + 1
    /\ UNCHANGED <<log, consuming, committed, skipped, interrupts>>

EachMessageUnresolved == \* mutant: an error behind processEvent() is thrown on
    /\ consuming /\ position < Len(log)
    /\ ToProcessEvent(position)
    /\ \/ position' = position + 1 /\ resolved' = position + 1
       \/ Kind(position) = "anonymous" /\ UNCHANGED <<position, resolved>>
    /\ UNCHANGED <<log, consuming, committed, skipped, interrupts>>

EachMessage ==
    /\ consuming /\ position < Len(log)
    /\ ToProcessEvent(position)
    /\ position' = position + 1
    /\ resolved' = position + 1
    /\ UNCHANGED <<log, consuming, committed, skipped, interrupts>>

-----------------------------------------------------------------------------
(* kafkajs at the end of a batch. *)
Commit == /\ consuming
          /\ resolved # NoOffset
          /\ resolved # committed
          /\ committed' = resolved
          /\ UNCHANGED <<log, consuming, position, resolved, enqueued, skipped, interrupts>>

Interrupted == interrupts < MaxInterrupts /\ interrupts' = interrupts + 1

Rebalance == /\ consuming
             /\ Interrupted
             /\ Assigned
             /\ UNCHANGED <<log, consuming, committed, enqueued>>

(* The process ends, planned or not, before or after a commit. *)
Crash == /\ consuming
         /\ Interrupted
         /\ consuming' = FALSE
         /\ UNCHANGED <<log, position, resolved, committed, enqueued, skipped>>

Next == \/ \E kind \in Kinds : Produce(kind)
        \/ StartConsumers \/ EachMessage \/ Commit \/ Rebalance \/ Crash

Spec == Init /\ [][Next]_vars

(* The container is restarted, kafkajs keeps fetching and committing. *)
Fairness == WF_vars(StartConsumers) /\ WF_vars(EachMessage) /\ WF_vars(Commit)

FairSpec == Spec /\ Fairness

-----------------------------------------------------------------------------
(* Every variable has its type. *)
TypeOK == /\ log \in Seq(Kinds) /\ Len(log) <= MaxMessages
          /\ consuming \in BOOLEAN
          /\ position \in 0..MaxMessages
          /\ resolved \in NoOffset..MaxMessages
          /\ committed \in NoOffset..MaxMessages
          /\ enqueued \in [Offsets -> Nat]
          /\ skipped \in SUBSET Offsets
          /\ interrupts \in 0..MaxInterrupts

(* At least once: a usable message that the group has read past, or would  *)
(* not read again after a restart, has been given to processEvent() - but  *)
(* for those which were in the log when the group started without commit.  *)
NothingPassedOver ==
    \A o \in Offsets :
       /\ o < Len(log)
       /\ Kind(o) \in Usable
       /\ o < committed \/ (consuming /\ o < position)
       /\ o \notin skipped
       => enqueued[o] >= 1

(* The price of it: every crash or rebalance may repeat a message once,    *)
(* and nothing else does; what cannot be used is never queued.             *)
RepeatsBounded ==
    \A o \in Offsets : /\ enqueued[o] <= interrupts + 1
                       /\ enqueued[o] > 0 => Kind(o) \in Usable

(* No message blocks the partition, in particular none that the handler    *)
(* cannot parse: every offset is committed, but for those which were in    *)
(* the log when the group started without a commit.                        *)
PartitionAdvances ==
    \A o \in Offsets : o < Len(log) ~> o < committed \/ o \in skipped
=============================================================================
