-------------------------- MODULE DeliveryContract --------------------------
(***************************************************************************)
(* What the progress service promises for every event it has accepted,     *)
(* independently of queues, batches and timers: an accepted event is       *)
(* stored in MongoDB and then announced on the Kafka topic 'events'; a     *)
(* failed attempt starts over from the beginning, at most MaxRetries       *)
(* times, after which the event is dropped; and all that is not settled    *)
(* is lost when the process ends.  EventQueue implements this contract.    *)
(***************************************************************************)
EXTENDS Naturals

CONSTANTS Events,      \* the events that may ever be accepted
          MaxRetries   \* how often a failed event is tried again

ASSUME ContractAssumption == MaxRetries \in Nat

VARIABLES status,      \* where each event is in its life
          failures,    \* how many of its attempts failed and were retried
          docs,        \* how many MongoDB documents it has
          msgs         \* how many of these documents were announced on Kafka

contractVars == <<status, failures, docs, msgs>>

Pending == {"accepted", "stored"}
Settled == {"published", "dropped", "lost"}
Status  == {"absent"} \cup Pending \cup Settled

Init == /\ status   = [e \in Events |-> "absent"]
        /\ failures = [e \in Events |-> 0]
        /\ docs     = [e \in Events |-> 0]
        /\ msgs     = [e \in Events |-> 0]

Accept(e) == /\ status[e] = "absent"
             /\ status' = [status EXCEPT ![e] = "accepted"]
             /\ UNCHANGED <<failures, docs, msgs>>

Store(e) == /\ status[e] = "accepted"
            /\ status' = [status EXCEPT ![e] = "stored"]
            /\ docs' = [docs EXCEPT ![e] = @ + 1]
            /\ UNCHANGED <<failures, msgs>>

Publish(e) == /\ status[e] = "stored"
              /\ status' = [status EXCEPT ![e] = "published"]
              /\ msgs' = [msgs EXCEPT ![e] = @ + 1]
              /\ UNCHANGED <<failures, docs>>

(* The writes of the events in landed took effect although nobody was told. *)
SilentWrites(landed) ==
    /\ docs' = [e \in Events |-> IF e \in landed /\ status[e] = "accepted"
                                 THEN docs[e] + 1 ELSE docs[e]]
    /\ msgs' = [e \in Events |-> IF e \in landed /\ status[e] = "stored"
                                 THEN msgs[e] + 1 ELSE msgs[e]]

TryAgainUncounted(e) ==   \* mutant: the retry is not counted
    /\ failures[e] < MaxRetries
    /\ UNCHANGED failures
    /\ status' = [status EXCEPT ![e] = "accepted"]

TryAgain(e) == /\ failures[e] < MaxRetries
               /\ failures' = [failures EXCEPT ![e] = @ + 1]
               /\ status' = [status EXCEPT ![e] = "accepted"]

GiveUp(e) == /\ failures[e] = MaxRetries
             /\ status' = [status EXCEPT ![e] = "dropped"]
             /\ UNCHANGED failures

Fail(e) == /\ status[e] \in Pending
           /\ \E landed \in SUBSET {e} : SilentWrites(landed)
           /\ TryAgain(e) \/ GiveUp(e)

LoseAll == /\ \E landed \in SUBSET Events : SilentWrites(landed)
           /\ status' = [e \in Events |-> IF status[e] \in Pending
                                          THEN "lost" ELSE status[e]]
           /\ UNCHANGED failures

Next == \/ LoseAll
        \/ \E e \in Events : Accept(e) \/ Store(e) \/ Publish(e) \/ Fail(e)

Spec == Init /\ [][Next]_contractVars
=============================================================================
