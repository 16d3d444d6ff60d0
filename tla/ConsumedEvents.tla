---------------------------- MODULE ConsumedEvents ----------------------------
(***************************************************************************)
(* From a message on 'dualmatch:question' to documents in MongoDB and      *)
(* announcements on 'events': the consumer (DualMatchConsumer) and, behind *)
(* EventsService.processEvent(), the queue, which is represented by the    *)
(* contract that EventQueue implements (DeliveryContract).                 *)
(*                                                                         *)
(* The two share the process: what the consumer has handed over is in      *)
(* memory, and a crash loses it whether its offset was committed or not.   *)
(***************************************************************************)
EXTENDS DualMatchConsumer, FiniteSets

CONSTANT MaxRetries   \* as in DeliveryContract

ASSUME RetriesAssumption == MaxRetries \in Nat

(* As many events as messages can be handed over, repetitions included. *)
Events == 1..(MaxMessages * (MaxInterrupts + 1))

VARIABLES status, failures, docs, msgs,   \* of DeliveryContract
          origin                          \* per event, the offset of its message

deliveryVars == <<status, failures, docs, msgs>>
consumedVars == <<vars, deliveryVars, origin>>

Delivery == INSTANCE DeliveryContract

ConsumedInit == Init /\ Delivery!Init /\ origin = <<>>

Accepted     == 1..Len(origin)
EventsOf(o)  == {e \in Accepted : origin[e] = o}

(* The schema requires a userId: an event without one is never saved. *)
Anonymous    == {e \in Accepted : Kind(origin[e]) = "anonymous"}
NoneSaved    == \A e \in Anonymous : docs'[e] = docs[e]

-----------------------------------------------------------------------------
ConsumeOnce ==   \* mutant: a message that is read again is taken for handled
    /\ EachMessage
    /\ \/ /\ Kind(position) \in Usable /\ EventsOf(position) = {}
          /\ origin' = Append(origin, position)
          /\ Delivery!Accept(Len(origin) + 1)
       \/ /\ Kind(position) \notin Usable \/ EventsOf(position) # {}
          /\ UNCHANGED <<origin, deliveryVars>>

(* The handler hands a usable message over as a new event with a new id,   *)
(* also when the message is read again.                                    *)
Consume ==
    /\ EachMessage
    /\ \/ /\ Kind(position) \in Usable
          /\ origin' = Append(origin, position)
          /\ Delivery!Accept(Len(origin) + 1)
       \/ /\ Kind(position) \notin Usable
          /\ UNCHANGED <<origin, deliveryVars>>

Process(e) == /\ \/ Delivery!Store(e)
                 \/ Delivery!Publish(e)
                 \/ Delivery!Fail(e)
              /\ NoneSaved
              /\ UNCHANGED <<vars, origin>>

ProcessEnds == /\ Crash
               /\ Delivery!LoseAll
               /\ NoneSaved
               /\ UNCHANGED origin

Log == /\ \/ \E kind \in Kinds : Produce(kind)
          \/ StartConsumers
          \/ Commit
          \/ Rebalance
       /\ UNCHANGED <<origin, deliveryVars>>

ConsumedNext == \/ Log
                \/ Consume
                \/ \E e \in Events : Process(e)
                \/ ProcessEnds

ConsumedSpec == ConsumedInit /\ [][ConsumedNext]_consumedVars

(* As in DualMatchConsumer; and the queue settles every event it holds.    *)
ConsumedFairness == /\ WF_consumedVars(Log /\ StartConsumers)
                    /\ WF_consumedVars(Log /\ Commit)
                    /\ WF_consumedVars(Consume)
                    /\ \A e \in Events : WF_consumedVars(Process(e))

FairConsumedSpec == ConsumedSpec /\ ConsumedFairness

-----------------------------------------------------------------------------
(* Every variable has its type. *)
ConsumedTypeOK == /\ TypeOK
                  /\ origin \in Seq(Offsets)
                  /\ Len(origin) \in {0} \cup Events
                  /\ status \in [Events -> Delivery!Status]
                  /\ failures \in [Events -> 0..MaxRetries]
                  /\ docs \in [Events -> Nat]
                  /\ msgs \in [Events -> Nat]

(* The documents and the announcements of a message, numbered per event.   *)
DocumentsOf(o)     == UNION {{e} \X (1..docs[e]) : e \in EventsOf(o)}
AnnouncementsOf(o) == UNION {{e} \X (1..msgs[e]) : e \in EventsOf(o)}

(* How many documents one message can become, each under an eventId that   *)
(* does not show the repetition: one for every attempt of every event that *)
(* a crash or a rebalance made of it; none without a userId, and never     *)
(* more announcements than documents.                                      *)
DocumentsPerMessage ==
    \A o \in Offsets :
       /\ Cardinality(DocumentsOf(o)) <= (interrupts + 1) * (MaxRetries + 1)
       /\ DocumentsOf(o) # {} => Kind(o) = "complete"
       /\ AnnouncementsOf(o) \subseteq DocumentsOf(o)

(* Every usable message comes to an end, but for those that were in the    *)
(* log when the group started without a commit: an event of it is settled. *)
(* If that event was lost before the offset of its message was committed,  *)
(* the message is read again as a later event, and that one is settled.    *)
LostUncommitted(e, o) == /\ e \in EventsOf(o)
                         /\ status[e] = "lost"
                         /\ o >= committed

EveryMessageEnds ==
    \A o \in Offsets :
       /\ o < Len(log) /\ Kind(o) \in Usable ~>
             o \in skipped \/ \E f \in EventsOf(o) : status[f] \in Delivery!Settled
       /\ \A e \in Events :
             LostUncommitted(e, o) ~>
                \/ o \in skipped
                \/ \E f \in EventsOf(o) : f > e /\ status[f] \in Delivery!Settled
=============================================================================
