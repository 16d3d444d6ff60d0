------------------------ MODULE ConsumedEvents_proofs ------------------------
(***************************************************************************)
(* Proofs about the consumer of 'dualmatch:question': DualMatchConsumer by *)
(* itself first, and then ConsumedEvents, where it feeds a queue that      *)
(* retries, drops and loses events.                                        *)
(***************************************************************************)
EXTENDS ConsumedEvents, FiniteSetTheorems, TLAPS

(* The offsets stay inside the log; what kafkajs would commit is where the *)
(* handler has got to.                                                     *)
OffsetsInv == /\ position <= Len(log)
              /\ committed <= Len(log)
              /\ consuming /\ resolved # NoOffset => resolved = position

LEMMA LogFacts ==
    ASSUME TypeOK
    PROVE  /\ Len(log) \in Nat
           /\ \A o \in Offsets : o < Len(log) => Kind(o) \in Kinds
BY BoundsAssumption DEF TypeOK, Offsets, Kind

LEMMA StartOffsetFacts ==
    ASSUME TypeOK, OffsetsInv
    PROVE  /\ StartOffset \in 0..Len(log)
           /\ committed # NoOffset => StartOffset = committed
           /\ committed = NoOffset => StartOffset = Len(log)
BY LogFacts DEF TypeOK, OffsetsInv, StartOffset, NoOffset

LEMMA ProduceFacts ==
    ASSUME TypeOK, NEW kind \in Kinds, Produce(kind)
    PROVE  /\ log' \in Seq(Kinds)
           /\ Len(log') = Len(log) + 1
           /\ Len(log') <= MaxMessages
           /\ \A o \in Offsets : o < Len(log) => log'[o + 1] = log[o + 1]
BY LogFacts, BoundsAssumption DEF TypeOK, Produce, Offsets

LEMMA OffsetsStep == TypeOK /\ OffsetsInv /\ [Next]_vars => TypeOK' /\ OffsetsInv'
<1> SUFFICES ASSUME TypeOK, OffsetsInv, [Next]_vars PROVE TypeOK' /\ OffsetsInv'
  OBVIOUS
<1> USE BoundsAssumption DEF NoOffset
<1>1. ASSUME NEW kind \in Kinds, Produce(kind) PROVE TypeOK' /\ OffsetsInv'
  <2>1. UNCHANGED <<consuming, position, resolved, committed, enqueued, skipped, interrupts>>
    BY <1>1 DEF Produce
  <2> QED
    BY <1>1, <2>1, ProduceFacts, LogFacts DEF TypeOK, OffsetsInv
<1>2. CASE StartConsumers
  BY <1>2, StartOffsetFacts, LogFacts
     DEF StartConsumers, Assigned, TypeOK, OffsetsInv
<1>3. CASE EachMessage
  <2>1. /\ position \in Offsets /\ position + 1 \in 0..Len(log)
        /\ position + 1 \in 0..MaxMessages
    BY <1>3, LogFacts DEF EachMessage, TypeOK, Offsets
  <2>2. enqueued' \in [Offsets -> Nat]
    BY <1>3, <2>1 DEF EachMessage, ToProcessEvent, TypeOK
  <2> QED
    BY <1>3, <2>1, <2>2 DEF EachMessage, TypeOK, OffsetsInv
<1>4. CASE Commit
  BY <1>4, LogFacts DEF Commit, TypeOK, OffsetsInv
<1>5. CASE Rebalance
  <2>1. interrupts' \in 0..MaxInterrupts
    BY <1>5 DEF Rebalance, Interrupted, TypeOK
  <2> QED
    BY <1>5, <2>1, StartOffsetFacts, LogFacts
       DEF Rebalance, Assigned, TypeOK, OffsetsInv
<1>6. CASE Crash
  <2>1. interrupts' \in 0..MaxInterrupts
    BY <1>6 DEF Crash, Interrupted, TypeOK
  <2>2. /\ UNCHANGED <<log, position, resolved, committed, enqueued, skipped>>
        /\ consuming' = FALSE
    BY <1>6 DEF Crash
  <2>3. TypeOK'
    BY <2>1, <2>2 DEF TypeOK
  <2>4. OffsetsInv'
    BY <2>2 DEF OffsetsInv
  <2> QED
    BY <2>3, <2>4
<1>7. CASE UNCHANGED vars
  BY <1>7 DEF vars, TypeOK, OffsetsInv
<1> QED
  BY <1>1, <1>2, <1>3, <1>4, <1>5, <1>6, <1>7 DEF Next

LEMMA OffsetsInit == Init => TypeOK /\ OffsetsInv
<1> SUFFICES ASSUME Init PROVE TypeOK /\ OffsetsInv
  OBVIOUS
<1>1. log \in Seq(Kinds) /\ Len(log) = 0
  BY DEF Init
<1>2. enqueued \in [Offsets -> Nat] /\ skipped \in SUBSET Offsets
  BY DEF Init
<1>3. consuming = FALSE /\ position = 0 /\ resolved = -1 /\ committed = -1 /\ interrupts = 0
  BY DEF Init, NoOffset
<1>4. TypeOK
  <2>1. consuming \in BOOLEAN
    BY <1>3
  <2>2. /\ position \in 0..MaxMessages /\ interrupts \in 0..MaxInterrupts
        /\ resolved \in NoOffset..MaxMessages /\ committed \in NoOffset..MaxMessages
        /\ Len(log) <= MaxMessages
    BY <1>1, <1>3, BoundsAssumption DEF NoOffset
  <2> QED
    BY <1>1, <1>2, <2>1, <2>2 DEF TypeOK
<1>5. OffsetsInv
  BY <1>1, <1>3 DEF OffsetsInv, NoOffset
<1> QED
  BY <1>4, <1>5

(* Every variable has its type, and no offset is outside the log. *)
THEOREM TypeCorrect == Spec => [](TypeOK /\ OffsetsInv)
BY OffsetsInit, OffsetsStep, PTL DEF Spec

-----------------------------------------------------------------------------
(* At least once: NothingPassedOver is inductive together with the offsets. *)
LEMMA NothingPassedStep ==
    TypeOK /\ OffsetsInv /\ NothingPassedOver /\ [Next]_vars => NothingPassedOver'
<1> SUFFICES ASSUME TypeOK, OffsetsInv, NothingPassedOver, [Next]_vars,
                    NEW o \in Offsets,
                    o < Len(log'), log'[o + 1] \in Usable,
                    o < committed' \/ (consuming' /\ o < position'),
                    o \notin skipped'
             PROVE  enqueued'[o] >= 1
  BY DEF NothingPassedOver, Kind
<1>0. Len(log) \in Nat /\ position \in Nat /\ committed \in Int /\ o \in Nat
      /\ enqueued \in [Offsets -> Nat]
  BY LogFacts, BoundsAssumption DEF TypeOK, Offsets, NoOffset
<1>1. ASSUME NEW kind \in Kinds, Produce(kind) PROVE enqueued'[o] >= 1
  <2>1. UNCHANGED <<consuming, position, committed, enqueued, skipped>>
    BY <1>1 DEF Produce
  <2>2. o < Len(log)
    BY <1>0, <2>1 DEF OffsetsInv
  <2>3. Kind(o) \in Usable
    BY <1>1, <2>2, ProduceFacts DEF Kind
  <2> QED
    BY <2>1, <2>2, <2>3 DEF NothingPassedOver
<1>2. CASE StartConsumers \/ Rebalance
  <2>1. /\ UNCHANGED <<log, committed, enqueued>>
        /\ position' = StartOffset
        /\ skipped' = IF committed = NoOffset
                      THEN skipped \cup {p \in Offsets : p < Len(log)} ELSE skipped
    BY <1>2 DEF StartConsumers, Rebalance, Assigned
  <2>2. committed # NoOffset
    BY <2>1
  <2>3. o < committed
    BY <2>1, <2>2, StartOffsetFacts
  <2> QED
    BY <2>1, <2>2, <2>3 DEF NothingPassedOver, Kind
<1>3. CASE EachMessage
  <2>1. /\ UNCHANGED <<log, consuming, committed, skipped>>
        /\ consuming /\ position' = position + 1 /\ position \in Offsets
        /\ enqueued' = IF Kind(position) \in Usable
                       THEN [enqueued EXCEPT ![position] = @ + 1] ELSE enqueued
    BY <1>0, <1>3, BoundsAssumption DEF EachMessage, ToProcessEvent, TypeOK, Offsets
  <2>2. CASE o = position
    BY <1>0, <2>1, <2>2 DEF Kind
  <2>3. CASE o # position
    <3>1. o < committed \/ (consuming /\ o < position)
      BY <1>0, <2>1, <2>3
    <3>2. enqueued'[o] = enqueued[o]
      BY <1>0, <2>1, <2>3
    <3> QED
      BY <2>1, <3>1, <3>2 DEF NothingPassedOver, Kind
  <2> QED
    BY <2>2, <2>3
<1>4. CASE Commit
  <2>1. /\ UNCHANGED <<log, consuming, position, enqueued, skipped>>
        /\ consuming /\ committed' = position
    BY <1>4 DEF Commit, OffsetsInv
  <2> QED
    BY <2>1 DEF NothingPassedOver, Kind
<1>5. CASE Crash
  BY <1>5 DEF Crash, NothingPassedOver, Kind
<1>6. CASE UNCHANGED vars
  BY <1>6 DEF vars, NothingPassedOver, Kind
<1> QED
  BY <1>1, <1>2, <1>3, <1>4, <1>5, <1>6 DEF Next

(* A usable message that the group has read past, or would not read again, *)
(* was given to processEvent(), whatever crashed or was rebalanced when.   *)
THEOREM AtLeastOnce == Spec => []NothingPassedOver
<1>1. Init => NothingPassedOver
  BY DEF Init, NothingPassedOver
<1> QED
  BY <1>1, NothingPassedStep, TypeCorrect, PTL DEF Spec

-----------------------------------------------------------------------------
(* What the process at hand has read counts on top of the interruptions.   *)
Reads(o) == IF consuming /\ o < position THEN interrupts + 1 ELSE interrupts

RepeatsInv ==
    \A o \in Offsets : /\ enqueued[o] <= Reads(o)
                       /\ enqueued[o] > 0 => o < Len(log) /\ Kind(o) \in Usable

LEMMA RepeatsStep ==
    TypeOK /\ OffsetsInv /\ RepeatsInv /\ [Next]_vars => RepeatsInv'
<1> SUFFICES ASSUME TypeOK, OffsetsInv, RepeatsInv, [Next]_vars, NEW o \in Offsets
             PROVE  /\ enqueued'[o] <= Reads(o)'
                    /\ enqueued'[o] > 0 => o < Len(log') /\ Kind(o)' \in Usable
  BY DEF RepeatsInv
<1> DEFINE Goal == /\ enqueued'[o] <= Reads(o)'
                   /\ enqueued'[o] > 0 => o < Len(log') /\ Kind(o)' \in Usable
<1>0. /\ Len(log) \in Nat /\ position \in Nat /\ o \in Nat /\ interrupts \in Nat
      /\ enqueued \in [Offsets -> Nat] /\ enqueued[o] \in Nat
  BY LogFacts, BoundsAssumption DEF TypeOK, Offsets
<1>a. /\ enqueued[o] <= Reads(o)
      /\ enqueued[o] > 0 => o < Len(log) /\ Kind(o) \in Usable
  BY DEF RepeatsInv
<1>1. ASSUME NEW kind \in Kinds, Produce(kind) PROVE Goal
  <2>1. UNCHANGED <<consuming, position, enqueued, interrupts>>
    BY <1>1 DEF Produce
  <2> QED
    BY <1>0, <1>1, <1>a, <2>1, ProduceFacts DEF Reads, Kind
<1>2. CASE StartConsumers
  <2>1. UNCHANGED <<log, enqueued, interrupts>> /\ ~consuming
    BY <1>2 DEF StartConsumers
  <2> QED
    BY <1>0, <1>a, <2>1 DEF Reads, Kind
<1>3. CASE EachMessage
  <2>1. /\ UNCHANGED <<log, consuming, interrupts>>
        /\ consuming /\ position < Len(log) /\ position' = position + 1
        /\ position \in Offsets
        /\ enqueued' = IF Kind(position) \in Usable
                       THEN [enqueued EXCEPT ![position] = @ + 1] ELSE enqueued
    BY <1>0, <1>3, BoundsAssumption DEF EachMessage, ToProcessEvent, TypeOK, Offsets
  <2>2. CASE o = position
    BY <1>0, <1>a, <2>1, <2>2 DEF Reads, Kind
  <2>3. CASE o # position
    BY <1>0, <1>a, <2>1, <2>3 DEF Reads, Kind
  <2> QED
    BY <2>2, <2>3
<1>4. CASE Commit
  BY <1>a, <1>4 DEF Commit, Reads, Kind
<1>5. CASE Rebalance \/ Crash
  <2>1. UNCHANGED <<log, enqueued>> /\ interrupts' = interrupts + 1
    BY <1>5 DEF Rebalance, Crash, Interrupted
  <2> QED
    BY <1>0, <1>a, <2>1 DEF Reads, Kind
<1>6. CASE UNCHANGED vars
  BY <1>a, <1>6 DEF vars, Reads, Kind
<1> QED
  BY <1>1, <1>2, <1>3, <1>4, <1>5, <1>6 DEF Next

(* Nothing but a crash or a rebalance repeats a message, and each at most  *)
(* once; a message that cannot be used is never queued.                    *)
THEOREM BoundedRepeats == Spec => []RepeatsBounded
<1>1. Init => RepeatsInv
  BY DEF Init, RepeatsInv, Reads
<1>2. TypeOK /\ RepeatsInv => RepeatsBounded
  BY BoundsAssumption DEF TypeOK, RepeatsInv, Reads, RepeatsBounded
<1> QED
  BY <1>1, <1>2, RepeatsStep, TypeCorrect, PTL DEF Spec

-----------------------------------------------------------------------------
(***************************************************************************)
(* The consumer with the queue behind it.                                  *)
(***************************************************************************)

(* Every step is a step of the consumer, or leaves it alone. *)
LEMMA ConsumerPart == ConsumedSpec => Spec
<1>1. ConsumedInit => Init
  BY DEF ConsumedInit
<1>2. [ConsumedNext]_consumedVars => [Next]_vars
  <2>1. CASE Log
    BY <2>1 DEF Log, Next
  <2>2. CASE Consume
    BY <2>2 DEF Consume, Next
  <2>3. ASSUME NEW e \in Events, Process(e) PROVE [Next]_vars
    BY <2>3 DEF Process
  <2>4. CASE ProcessEnds
    BY <2>4 DEF ProcessEnds, Next
  <2>5. CASE UNCHANGED consumedVars
    BY <2>5 DEF consumedVars
  <2> QED
    BY <2>1, <2>2, <2>3, <2>4, <2>5 DEF ConsumedNext
<1> QED
  BY <1>1, <1>2, PTL DEF ConsumedSpec, Spec

(* Usable messages are handed over at least once, and repeated only by      *)
(* crashes and rebalances, whatever becomes of their events.                *)
THEOREM ComposedAtLeastOnce == ConsumedSpec => []NothingPassedOver /\ []RepeatsBounded
BY ConsumerPart, AtLeastOnce, BoundedRepeats, PTL

-----------------------------------------------------------------------------
(* Every accepted event names a message of the log. *)
OriginInv == /\ origin \in Seq(Offsets)
             /\ \A e \in Accepted : origin[e] < Len(log)

LEMMA OriginStep ==
    TypeOK /\ OffsetsInv /\ OriginInv /\ [ConsumedNext]_consumedVars => OriginInv'
<1> SUFFICES ASSUME TypeOK, OffsetsInv, OriginInv, [ConsumedNext]_consumedVars
             PROVE  OriginInv'
  OBVIOUS
<1>0. Len(origin) \in Nat /\ Len(log) \in Nat
  BY LogFacts DEF OriginInv
<1>1. CASE Consume
  <2>1. /\ UNCHANGED log /\ position \in Offsets /\ position < Len(log)
        /\ origin' = origin \/ origin' = Append(origin, position)
    BY <1>1, LogFacts, BoundsAssumption DEF Consume, EachMessage, TypeOK, Offsets
  <2>2. CASE origin' = origin
    BY <2>1, <2>2 DEF OriginInv, Accepted
  <2>3. CASE origin' = Append(origin, position)
    <3>1. /\ origin' \in Seq(Offsets) /\ Len(origin') = Len(origin) + 1
          /\ \A e \in 1..Len(origin) : origin'[e] = origin[e]
          /\ origin'[Len(origin) + 1] = position
      BY <2>1, <2>3, <1>0 DEF OriginInv
    <3>2. ASSUME NEW e \in 1..Len(origin') PROVE origin'[e] < Len(log')
      BY <1>0, <2>1, <3>1, <3>2 DEF OriginInv, Accepted
    <3> QED
      BY <3>1, <3>2 DEF OriginInv, Accepted
  <2> QED
    BY <2>1, <2>2, <2>3
<1>2. ASSUME NEW kind \in Kinds, Produce(kind), UNCHANGED origin PROVE OriginInv'
  <2>1. Len(log') = Len(log) + 1
    BY <1>2, ProduceFacts
  <2>2. ASSUME NEW e \in 1..Len(origin) PROVE origin[e] < Len(log')
    <3>1. origin[e] \in Int /\ origin[e] < Len(log)
      BY BoundsAssumption DEF OriginInv, Accepted, Offsets
    <3> QED
      BY <1>0, <2>1, <3>1
  <2> QED
    BY <1>2, <2>2 DEF OriginInv, Accepted
<1>3. CASE UNCHANGED <<origin, log>>
  BY <1>3 DEF OriginInv, Accepted
<1>4. Log => UNCHANGED <<origin, log>> \/ (\E kind \in Kinds : Produce(kind) /\ UNCHANGED origin)
  BY DEF Log, StartConsumers, Commit, Rebalance
<1>5. \A e \in Events : Process(e) => UNCHANGED <<origin, log>>
  BY DEF Process, vars
<1>6. ProcessEnds \/ UNCHANGED consumedVars => UNCHANGED <<origin, log>>
  BY DEF ProcessEnds, Crash, consumedVars, vars
<1> QED
  BY <1>1, <1>2, <1>3, <1>4, <1>5, <1>6 DEF ConsumedNext

(* No event is accepted that came of no message.                            *)
THEOREM OriginsExist == ConsumedSpec => []OriginInv
<1>1. ConsumedInit => OriginInv
  BY DEF ConsumedInit, OriginInv, Accepted
<1>2. ConsumedSpec => [](TypeOK /\ OffsetsInv)
  BY ConsumerPart, TypeCorrect, PTL
<1> QED
  BY <1>1, <1>2, OriginStep, PTL DEF ConsumedSpec

-----------------------------------------------------------------------------
(* What is not accepted yet has left no trace; what is accepted came of a   *)
(* usable message, and without a userId nothing of it was ever saved.       *)
StoresTyped == status \in [Events -> Delivery!Status] /\ docs \in [Events -> Nat]

Unsaved(e) == e \notin Accepted => status[e] = "absent" /\ docs[e] = 0
Named(e)   == e \in Accepted => /\ Kind(origin[e]) \in Usable
                                /\ Kind(origin[e]) = "anonymous" => docs[e] = 0

SavedInv == StoresTyped /\ \A e \in Events : Unsaved(e) /\ Named(e)

(* A step of the contract leaves events alone that are not accepted.        *)
LEMMA ContractStep ==
    ASSUME SavedInv, UNCHANGED <<log, origin>>, NoneSaved,
           Delivery!LoseAll
           \/ \E e \in Events : Delivery!Store(e) \/ Delivery!Publish(e) \/ Delivery!Fail(e)
    PROVE  SavedInv'
<1>1. /\ StoresTyped'
      /\ \A e \in Events : status[e] = "absent" => status'[e] = "absent" /\ docs'[e] = docs[e]
  <2>1. CASE Delivery!LoseAll
    BY <2>1 DEF SavedInv, StoresTyped, Delivery!LoseAll, Delivery!SilentWrites,
       Delivery!Pending, Delivery!Settled, Delivery!Status
  <2>2. ASSUME NEW e \in Events, Delivery!Store(e)
        PROVE  /\ StoresTyped'
               /\ \A f \in Events : status[f] = "absent"
                                    => status'[f] = "absent" /\ docs'[f] = docs[f]
    BY <2>2 DEF SavedInv, StoresTyped, Delivery!Store, Delivery!Pending,
       Delivery!Settled, Delivery!Status
  <2>3. ASSUME NEW e \in Events, Delivery!Publish(e)
        PROVE  /\ StoresTyped'
               /\ \A f \in Events : status[f] = "absent"
                                    => status'[f] = "absent" /\ docs'[f] = docs[f]
    BY <2>3 DEF SavedInv, StoresTyped, Delivery!Publish, Delivery!Pending,
       Delivery!Settled, Delivery!Status
  <2>4. ASSUME NEW e \in Events, Delivery!Fail(e)
        PROVE  /\ StoresTyped'
               /\ \A f \in Events : status[f] = "absent"
                                    => status'[f] = "absent" /\ docs'[f] = docs[f]
    BY <2>4 DEF SavedInv, StoresTyped, Delivery!Fail, Delivery!SilentWrites,
       Delivery!TryAgain, Delivery!GiveUp, Delivery!Pending, Delivery!Settled, Delivery!Status
  <2> QED
    BY <2>1, <2>2, <2>3, <2>4
<1>2. ASSUME NEW e \in Events PROVE Unsaved(e)' /\ Named(e)'
  BY <1>1 DEF SavedInv, Unsaved, Named, Accepted, NoneSaved, Anonymous, Kind
<1> QED
  BY <1>1, <1>2 DEF SavedInv

LEMMA SavedStep ==
    TypeOK /\ OffsetsInv /\ OriginInv /\ SavedInv /\ [ConsumedNext]_consumedVars => SavedInv'
<1> SUFFICES ASSUME TypeOK, OffsetsInv, OriginInv, SavedInv, [ConsumedNext]_consumedVars
             PROVE  SavedInv'
  OBVIOUS
<1>0. Len(origin) \in Nat
  BY DEF OriginInv
<1>1. CASE Consume
  <2>1. UNCHANGED log
    BY <1>1 DEF Consume, EachMessage
  <2>2. CASE UNCHANGED <<origin, deliveryVars>>
    BY <2>1, <2>2 DEF SavedInv, StoresTyped, Unsaved, Named, Accepted, Kind, deliveryVars
  <2>3. CASE /\ Kind(position) \in Usable
             /\ origin' = Append(origin, position)
             /\ Delivery!Accept(Len(origin) + 1)
    <3> DEFINE new == Len(origin) + 1
    <3>1. /\ Len(origin') = new /\ origin'[new] = position
          /\ \A e \in 1..Len(origin) : origin'[e] = origin[e]
      <4>1. position \in Offsets
        BY <1>1, LogFacts, BoundsAssumption DEF Consume, EachMessage, TypeOK, Offsets
      <4> QED
        BY <2>3, <4>1 DEF OriginInv
    <3>2. docs' = docs /\ status' = [status EXCEPT ![new] = "accepted"]
      BY <2>3 DEF Delivery!Accept
    <3>3. StoresTyped'
      BY <3>2 DEF SavedInv, StoresTyped, Delivery!Status, Delivery!Pending
    <3>4. ASSUME NEW e \in Events PROVE Unsaved(e)' /\ Named(e)'
      <4>1. e \in Nat /\ Unsaved(e) /\ Named(e)
        BY BoundsAssumption DEF SavedInv, Events
      <4>2. CASE e = new
        BY <1>0, <2>1, <2>3, <3>1, <3>2, <4>1, <4>2 DEF Unsaved, Named, Accepted, Kind
      <4>3. CASE e # new
        <5>1. status'[e] = status[e] /\ docs'[e] = docs[e]
          BY <3>2, <4>3 DEF SavedInv, StoresTyped
        <5>2. e \in Accepted' <=> e \in Accepted
          BY <1>0, <3>1, <4>1, <4>3 DEF Accepted
        <5>3. e \in Accepted => Kind(origin[e])' = Kind(origin[e])
          BY <2>1, <3>1 DEF Accepted, Kind
        <5> QED
          BY <4>1, <5>1, <5>2, <5>3 DEF Unsaved, Named
      <4> QED
        BY <4>2, <4>3
    <3> QED
      BY <3>3, <3>4 DEF SavedInv
  <2> QED
    BY <1>1, <2>2, <2>3 DEF Consume
<1>2. ASSUME NEW kind \in Kinds, Produce(kind), UNCHANGED <<origin, deliveryVars>>
      PROVE  SavedInv'
  <2>1. ASSUME NEW e \in Accepted PROVE Kind(origin[e])' = Kind(origin[e])
    BY <1>2, <2>1, <1>0, ProduceFacts DEF OriginInv, Accepted, Kind
  <2> QED
    BY <1>2, <2>1 DEF SavedInv, StoresTyped, Unsaved, Named, Accepted, deliveryVars
<1>3. CASE UNCHANGED <<log, origin, deliveryVars>>
  BY <1>3 DEF SavedInv, StoresTyped, Unsaved, Named, Accepted, Kind, deliveryVars
<1>4. Log => \/ UNCHANGED <<log, origin, deliveryVars>>
             \/ \E kind \in Kinds : Produce(kind) /\ UNCHANGED <<origin, deliveryVars>>
  BY DEF Log, StartConsumers, Commit, Rebalance
<1>5. ASSUME NEW e \in Events, Process(e) PROVE SavedInv'
  <2>1. UNCHANGED <<log, origin>> /\ NoneSaved
    BY <1>5 DEF Process, vars
  <2> QED
    BY <1>5, <2>1, ContractStep DEF Process
<1>6. CASE ProcessEnds
  BY <1>6, ContractStep DEF ProcessEnds, Crash
<1>7. UNCHANGED consumedVars => UNCHANGED <<log, origin, deliveryVars>>
  BY DEF consumedVars, vars
<1> QED
  BY <1>1, <1>2, <1>3, <1>4, <1>5, <1>6, <1>7 DEF ConsumedNext

(* A document exists only of an accepted event whose message had a userId,  *)
(* whatever is read again, retried, lost or written without an answer.      *)
SavedAreComplete ==
    \A e \in Events : docs[e] > 0 => e \in Accepted /\ Kind(origin[e]) = "complete"

(* Nothing without a userId is ever saved, in any run. *)
THEOREM OnlyCompleteSaved == ConsumedSpec => []SavedAreComplete
<1>1. ConsumedInit => SavedInv
  BY DEF ConsumedInit, Delivery!Init, Delivery!Status, SavedInv, StoresTyped,
         Unsaved, Named, Accepted
<1>2. SavedInv => SavedAreComplete
  <2> SUFFICES ASSUME SavedInv, NEW e \in Events, docs[e] > 0
               PROVE  e \in Accepted /\ Kind(origin[e]) = "complete"
    BY DEF SavedAreComplete
  <2>1. docs[e] # 0
    OBVIOUS
  <2>2. e \in Accepted
    BY <2>1 DEF SavedInv, Unsaved
  <2>3. Kind(origin[e]) \in Usable /\ Kind(origin[e]) # "anonymous"
    BY <2>1, <2>2 DEF SavedInv, Named
  <2> QED
    BY <2>2, <2>3 DEF Usable
<1>3. ConsumedSpec => [](TypeOK /\ OffsetsInv)
  BY ConsumerPart, TypeCorrect, PTL
<1> QED
  BY <1>1, <1>2, <1>3, OriginsExist, SavedStep, PTL DEF ConsumedSpec

-----------------------------------------------------------------------------
(* Every call of processEvent() for a message has made one event of it, and *)
(* every event comes of such a call.                                        *)
EnqueuedCounts == \A o \in Offsets : Cardinality(EventsOf(o)) = enqueued[o]

LEMMA EventsOfFacts ==
  ASSUME OriginInv, NEW o PROVE IsFiniteSet(EventsOf(o)) /\ Cardinality(EventsOf(o)) \in Nat
<1>1. IsFiniteSet(Accepted)
  BY FS_Interval DEF OriginInv, Accepted
<1>2. EventsOf(o) \in SUBSET Accepted
  BY DEF EventsOf
<1> QED
  BY <1>1, <1>2, FS_Subset, FS_CardinalityType

LEMMA EnqueuedStep ==
    TypeOK /\ OriginInv /\ EnqueuedCounts /\ [ConsumedNext]_consumedVars => EnqueuedCounts'
<1> SUFFICES ASSUME TypeOK, OriginInv, EnqueuedCounts, [ConsumedNext]_consumedVars
             PROVE  EnqueuedCounts'
  OBVIOUS
<1>1. CASE UNCHANGED <<origin, enqueued>>
  BY <1>1 DEF EnqueuedCounts, EventsOf, Accepted
<1>2. CASE Consume
  <2>1. CASE Kind(position) \notin Usable
    BY <1>1, <1>2, <2>1 DEF Consume, EachMessage, ToProcessEvent
  <2>2. CASE Kind(position) \in Usable
    <3> DEFINE new == Len(origin) + 1
    <3>1. position \in Offsets /\ Len(origin) \in Nat
      BY <1>2, LogFacts, BoundsAssumption DEF Consume, EachMessage, TypeOK, Offsets, OriginInv
    <3>2. /\ origin' = Append(origin, position)
          /\ enqueued' = [enqueued EXCEPT ![position] = @ + 1]
      BY <1>2, <2>2 DEF Consume, EachMessage, ToProcessEvent
    <3>3. /\ Len(origin') = new /\ origin'[new] = position
          /\ \A e \in 1..Len(origin) : origin'[e] = origin[e]
      BY <3>1, <3>2 DEF OriginInv
    <3>4. Accepted' = Accepted \cup {new} /\ new \notin Accepted
      BY <3>1, <3>3 DEF Accepted
    <3>5. ASSUME NEW o \in Offsets PROVE Cardinality(EventsOf(o)') = enqueued'[o]
      <4>1. CASE o = position
        <5>1. EventsOf(o)' = EventsOf(o) \cup {new} /\ new \notin EventsOf(o)
          BY <3>3, <3>4, <4>1 DEF EventsOf, Accepted
        <5>2. Cardinality(EventsOf(o)') = Cardinality(EventsOf(o)) + 1
          BY <5>1, EventsOfFacts, FS_AddElement
        <5> QED
          BY <3>2, <4>1, <5>2 DEF EnqueuedCounts, TypeOK
      <4>2. CASE o # position
        <5>1. EventsOf(o)' = EventsOf(o)
          BY <3>3, <3>4, <4>2 DEF EventsOf, Accepted
        <5> QED
          BY <3>2, <4>2, <5>1 DEF EnqueuedCounts, TypeOK
      <4> QED
        BY <4>1, <4>2
    <3> QED
      BY <3>5 DEF EnqueuedCounts
  <2> QED
    BY <2>1, <2>2
<1>3. Log => UNCHANGED <<origin, enqueued>>
  BY DEF Log, Produce, StartConsumers, Commit, Rebalance
<1>4. \A e \in Events : Process(e) => UNCHANGED <<origin, enqueued>>
  BY DEF Process, vars
<1>5. ProcessEnds \/ UNCHANGED consumedVars => UNCHANGED <<origin, enqueued>>
  BY DEF ProcessEnds, Crash, consumedVars, vars
<1> QED
  BY <1>1, <1>2, <1>3, <1>4, <1>5 DEF ConsumedNext

-----------------------------------------------------------------------------
(* Between two interruptions the handler reads no message twice: after each *)
(* of them the log can make as many new events as it is long.               *)
EventsInv == Len(origin) <= MaxMessages * interrupts + (IF consuming THEN position ELSE 0)

LEMMA ProductFacts ==
  /\ \A m, i \in Nat : m * i \in Nat /\ m * (i + 1) = m * i + m
  /\ \A i, j, m \in Nat : i <= j => i * m <= j * m
OBVIOUS

LEMMA EventsStep == TypeOK /\ OriginInv /\ EventsInv /\ [ConsumedNext]_consumedVars => EventsInv'
<1> SUFFICES ASSUME TypeOK, OriginInv, EventsInv, [ConsumedNext]_consumedVars
             PROVE  EventsInv'
  OBVIOUS
<1>0. /\ Len(origin) \in Nat /\ position \in Nat /\ interrupts \in Nat
      /\ position <= MaxMessages /\ MaxMessages \in Nat
  BY BoundsAssumption DEF OriginInv, TypeOK
<1>1. /\ MaxMessages * interrupts \in Nat
      /\ MaxMessages * (interrupts + 1) = MaxMessages * interrupts + MaxMessages
  BY <1>0, ProductFacts
<1>2. CASE Consume
  <2>1. consuming /\ consuming' = consuming /\ position' = position + 1
        /\ interrupts' = interrupts
    BY <1>2 DEF Consume, EachMessage
  <2>2. Len(origin') <= Len(origin) + 1
    <3>1. position \in Offsets
      BY <1>2, LogFacts, BoundsAssumption DEF Consume, EachMessage, TypeOK, Offsets
    <3> QED
      BY <1>0, <1>2, <3>1 DEF Consume, OriginInv
  <2>3. Len(origin') \in Nat
    BY <1>0, <1>2 DEF Consume
  <2> QED
    BY <1>0, <1>1, <2>1, <2>2, <2>3 DEF EventsInv
<1>3. CASE Log
  <2>1. origin' = origin
    BY <1>3 DEF Log
  <2>2. CASE \E kind \in Kinds : Produce(kind)
    BY <2>1, <2>2 DEF Produce, EventsInv
  <2>3. CASE StartConsumers
    <3>1. ~consuming /\ consuming' = TRUE /\ interrupts' = interrupts /\ position' \in Nat
      BY <2>3, LogFacts DEF StartConsumers, Assigned, StartOffset, TypeOK, NoOffset
    <3> QED
      BY <1>0, <1>1, <2>1, <3>1 DEF EventsInv
  <2>4. CASE Commit
    BY <2>1, <2>4 DEF Commit, EventsInv
  <2>5. CASE Rebalance
    <3>1. /\ consuming /\ consuming' = consuming /\ interrupts' = interrupts + 1
          /\ position' \in Nat
      BY <2>5, LogFacts DEF Rebalance, Interrupted, Assigned, StartOffset, TypeOK, NoOffset
    <3> QED
      BY <1>0, <1>1, <2>1, <3>1 DEF EventsInv
  <2> QED
    BY <1>3, <2>2, <2>3, <2>4, <2>5 DEF Log
<1>4. CASE ProcessEnds
  <2>1. /\ consuming /\ consuming' = FALSE /\ interrupts' = interrupts + 1
        /\ origin' = origin
    BY <1>4 DEF ProcessEnds, Crash, Interrupted
  <2> QED
    BY <1>0, <1>1, <2>1 DEF EventsInv
<1>5. CASE \/ \E e \in Events : Process(e)
           \/ UNCHANGED consumedVars
  BY <1>5 DEF Process, consumedVars, vars, EventsInv
<1> QED
  BY <1>2, <1>3, <1>4, <1>5 DEF ConsumedNext

(* So there are never more events than Events has numbers for: the bound    *)
(* keeps nothing from happening that the log and the interruptions allow.   *)
EventsSuffice == Len(origin) \in {0} \cup Events

LEMMA EventsCounted == TypeOK /\ OriginInv /\ EventsInv => EventsSuffice
<1> SUFFICES ASSUME TypeOK, OriginInv, EventsInv PROVE EventsSuffice
  OBVIOUS
<1>1. /\ Len(origin) \in Nat /\ position \in 0..MaxMessages /\ interrupts \in 0..MaxInterrupts
      /\ MaxMessages \in Nat /\ MaxInterrupts \in Nat
  BY BoundsAssumption DEF OriginInv, TypeOK
<1>2. /\ MaxMessages * interrupts \in Nat
      /\ Len(origin) <= MaxMessages * interrupts + MaxMessages
  BY <1>1, ProductFacts DEF EventsInv
<1>3. /\ MaxMessages * interrupts + MaxMessages = (interrupts + 1) * MaxMessages
      /\ (interrupts + 1) * MaxMessages <= (MaxInterrupts + 1) * MaxMessages
  BY <1>1, ProductFacts
<1>4. /\ MaxMessages * (MaxInterrupts + 1) \in Nat
      /\ Len(origin) <= MaxMessages * (MaxInterrupts + 1)
  BY <1>1, <1>2, <1>3
<1> QED
  BY <1>1, <1>4 DEF EventsSuffice, Events

-----------------------------------------------------------------------------
(* The queue behind the consumer keeps the delivery contract: what is       *)
(* handed over is accepted under an id of its own, and log and consumer     *)
(* change nothing of what was accepted.                                     *)
LEMMA DeliveryStep ==
    OriginInv /\ EventsSuffice' /\ [ConsumedNext]_consumedVars
       => [Delivery!Next]_Delivery!contractVars
<1> SUFFICES ASSUME OriginInv, EventsSuffice', [ConsumedNext]_consumedVars
             PROVE  [Delivery!Next]_Delivery!contractVars
  OBVIOUS
<1>1. CASE Log
  BY <1>1 DEF Log, deliveryVars, Delivery!contractVars
<1>2. CASE Consume
  <2>1. CASE UNCHANGED <<origin, deliveryVars>>
    BY <2>1 DEF deliveryVars, Delivery!contractVars
  <2>2. CASE origin' = Append(origin, position) /\ Delivery!Accept(Len(origin) + 1)
    <3>1. Len(origin) \in Nat /\ Len(origin') = Len(origin) + 1
      BY <2>2 DEF OriginInv
    <3>2. Len(origin) + 1 \in Events
      BY <3>1 DEF EventsSuffice
    <3> QED
      BY <2>2, <3>2 DEF Delivery!Next
  <2> QED
    BY <1>2, <2>1, <2>2 DEF Consume
<1>3. ASSUME NEW e \in Events, Process(e) PROVE Delivery!Next
  BY <1>3 DEF Process, Delivery!Next
<1>4. CASE ProcessEnds
  BY <1>4 DEF ProcessEnds, Delivery!Next
<1>5. CASE UNCHANGED consumedVars
  BY <1>5 DEF consumedVars, deliveryVars, Delivery!contractVars
<1> QED
  BY <1>1, <1>2, <1>3, <1>4, <1>5 DEF ConsumedNext

(* Messages, repetitions and crashes included, do to the events nothing but *)
(* what the delivery contract allows, and Events has numbers enough.        *)
THEOREM ConsumedDelivers == ConsumedSpec => Delivery!Spec /\ []EventsSuffice
<1>1. ConsumedInit => EventsInv /\ Delivery!Init
  BY BoundsAssumption DEF ConsumedInit, Init, EventsInv
<1>2. ConsumedSpec => [](TypeOK /\ OffsetsInv)
  BY ConsumerPart, TypeCorrect, PTL
<1>3. ConsumedSpec => []EventsSuffice
  BY <1>1, <1>2, OriginsExist, EventsStep, EventsCounted, PTL DEF ConsumedSpec
<1> QED
  BY <1>1, <1>3, OriginsExist, DeliveryStep, PTL DEF ConsumedSpec, Delivery!Spec

-----------------------------------------------------------------------------
(* So what is proved of the contract holds of the events of the topic.      *)
Contract == INSTANCE DeliveryContract_proofs

LEMMA SameContract == Delivery!Spec => Contract!Spec
<1>1. Delivery!Init => Contract!Init
  BY DEF Delivery!Init, Contract!Init
<1>2. [Delivery!Next]_Delivery!contractVars => [Contract!Next]_Contract!contractVars
  BY DEF Delivery!contractVars, Contract!contractVars, Delivery!Next, Contract!Next,
     Delivery!Accept, Contract!Accept, Delivery!Store, Contract!Store,
     Delivery!Publish, Contract!Publish, Delivery!Fail, Contract!Fail,
     Delivery!LoseAll, Contract!LoseAll, Delivery!SilentWrites, Contract!SilentWrites,
     Delivery!TryAgain, Contract!TryAgain, Delivery!GiveUp, Contract!GiveUp,
     Delivery!Pending, Contract!Pending
<1> QED
  BY <1>1, <1>2, PTL DEF Delivery!Spec, Contract!Spec

LEMMA ContractKept == ConsumedSpec => []Contract!ContractInv
  BY ConsumedDelivers, SameContract, Contract!ContractKept, RetriesAssumption, PTL

(* Log, consumer and contract have their types together: in particular no   *)
(* event is ever accepted beyond those that Events has numbers for.         *)
THEOREM ConsumedTypes == ConsumedSpec => []ConsumedTypeOK
<1>1. TypeOK /\ OriginInv /\ EventsSuffice /\ Contract!ContractInv => ConsumedTypeOK
  BY DEF ConsumedTypeOK, OriginInv, EventsSuffice, Contract!ContractInv,
     Contract!ContractTypes, Contract!Status, Contract!Pending, Contract!Settled,
     Delivery!Status, Delivery!Pending, Delivery!Settled
<1>2. ConsumedSpec => [](TypeOK /\ OffsetsInv)
  BY ConsumerPart, TypeCorrect, PTL
<1> QED
  BY <1>1, <1>2, OriginsExist, ConsumedDelivers, ContractKept, PTL

-----------------------------------------------------------------------------
(* Every event of a message leaves at most one document per attempt.        *)
LEMMA DocumentsBounded ==
    ASSUME TypeOK, OriginInv, EventsSuffice, EnqueuedCounts, RepeatsBounded,
           Contract!ContractInv, SavedAreComplete
    PROVE  DocumentsPerMessage
<1> SUFFICES ASSUME NEW o \in Offsets
             PROVE  /\ Cardinality(DocumentsOf(o)) <= (interrupts + 1) * (MaxRetries + 1)
                    /\ DocumentsOf(o) # {} => Kind(o) = "complete"
                    /\ AnnouncementsOf(o) \subseteq DocumentsOf(o)
  BY DEF DocumentsPerMessage
<1>1. \A e \in EventsOf(o) : e \in Events /\ e \in Accepted /\ origin[e] = o
  <2>1. Len(origin) \in Nat
    BY DEF OriginInv
  <2>2. MaxMessages * (MaxInterrupts + 1) \in Nat
    BY BoundsAssumption
  <2> QED
    BY <2>1, <2>2 DEF EventsOf, Accepted, EventsSuffice, Events
<1>2. \A e \in EventsOf(o) : /\ docs[e] \in Nat /\ msgs[e] \in Nat
                             /\ docs[e] <= MaxRetries + 1
                             /\ msgs[e] <= docs[e]
  BY <1>1, RetriesAssumption
  DEF Contract!ContractInv, Contract!ContractTypes, Contract!Stores
<1>3. DocumentsOf(o) \in SUBSET (EventsOf(o) \X (1..(MaxRetries + 1)))
  BY <1>2, RetriesAssumption DEF DocumentsOf
<1>4. /\ IsFiniteSet(1..(MaxRetries + 1))
      /\ Cardinality(1..(MaxRetries + 1)) = MaxRetries + 1
  BY RetriesAssumption, FS_Interval
<1>5. /\ IsFiniteSet(EventsOf(o) \X (1..(MaxRetries + 1)))
      /\ Cardinality(EventsOf(o) \X (1..(MaxRetries + 1)))
           = Cardinality(EventsOf(o)) * (MaxRetries + 1)
  BY <1>4, EventsOfFacts, FS_Product
<1>6. Cardinality(DocumentsOf(o)) <= Cardinality(EventsOf(o)) * (MaxRetries + 1)
  BY <1>3, <1>5, FS_Subset
<1>7. /\ Cardinality(EventsOf(o)) \in Nat /\ interrupts + 1 \in Nat
      /\ Cardinality(EventsOf(o)) <= interrupts + 1
  BY EventsOfFacts DEF EnqueuedCounts, RepeatsBounded, TypeOK
<1>8. Cardinality(EventsOf(o)) * (MaxRetries + 1) <= (interrupts + 1) * (MaxRetries + 1)
  BY <1>7, RetriesAssumption, ProductFacts
<1>9. Cardinality(DocumentsOf(o)) \in Nat
  BY <1>3, <1>5, FS_Subset, FS_CardinalityType
<1>10. Cardinality(DocumentsOf(o)) <= (interrupts + 1) * (MaxRetries + 1)
  <2>1. /\ Cardinality(EventsOf(o)) * (MaxRetries + 1) \in Nat
        /\ (interrupts + 1) * (MaxRetries + 1) \in Nat
    BY <1>7, RetriesAssumption, ProductFacts
  <2> QED
    BY <1>6, <1>8, <1>9, <2>1
<1>11. DocumentsOf(o) # {} => Kind(o) = "complete"
  <2> SUFFICES ASSUME NEW e \in EventsOf(o), 1..docs[e] # {} PROVE Kind(o) = "complete"
    BY DEF DocumentsOf
  <2>1. docs[e] > 0
    BY <1>2
  <2> QED
    BY <1>1, <2>1 DEF SavedAreComplete
<1>12. AnnouncementsOf(o) \subseteq DocumentsOf(o)
  <2>1. \A e \in EventsOf(o) : 1..msgs[e] \subseteq 1..docs[e]
    BY <1>2
  <2> QED
    BY <2>1 DEF AnnouncementsOf, DocumentsOf
<1> QED
  BY <1>10, <1>11, <1>12

(* A message becomes at most one document for every attempt of every event  *)
(* that its reading and its repetitions made of it, none without a userId,  *)
(* and no document is announced that does not exist: for any log, any       *)
(* number of crashes and rebalances and any number of retries.              *)
THEOREM DocumentsOfMessages == ConsumedSpec => []DocumentsPerMessage
<1>1. ConsumedInit => EnqueuedCounts
  <2> SUFFICES ASSUME ConsumedInit, NEW o \in Offsets
               PROVE  Cardinality(EventsOf(o)) = enqueued[o]
    BY DEF EnqueuedCounts
  <2>1. EventsOf(o) = {}
    BY DEF ConsumedInit, EventsOf, Accepted
  <2> QED
    BY <2>1, FS_EmptySet DEF ConsumedInit, Init
<1>2. ConsumedSpec => [](TypeOK /\ OffsetsInv)
  BY ConsumerPart, TypeCorrect, PTL
<1>3. ConsumedSpec => []EnqueuedCounts
  BY <1>1, <1>2, OriginsExist, EnqueuedStep, PTL DEF ConsumedSpec
<1> QED
  BY <1>2, <1>3, OriginsExist, ConsumedDelivers, ComposedAtLeastOnce, ContractKept,
     OnlyCompleteSaved, DocumentsBounded, PTL
=============================================================================
