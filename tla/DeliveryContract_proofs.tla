----------------------- MODULE DeliveryContract_proofs -----------------------
(***************************************************************************)
(* Proofs about DeliveryContract, for any set of events and any number of  *)
(* retries.  EventQueries, EventsController and ConsumedEvents see the     *)
(* queue as this contract.                                                 *)
(***************************************************************************)
EXTENDS DeliveryContract, TLAPS

ContractTypes == /\ status \in [Events -> Status]
                 /\ failures \in [Events -> 0..MaxRetries]
                 /\ docs \in [Events -> Nat]
                 /\ msgs \in [Events -> Nat]

(* What the stores hold of an event: one document for every attempt, also  *)
(* a failed one whose write took effect, and never an announcement without *)
(* a document of its own.  While an event waits for its next attempt the   *)
(* attempts that are over have all been counted as failures, and a stored  *)
(* event has one document that is not announced: without these two the     *)
(* bounds would not survive the next write.                                *)
Stores(e) == /\ docs[e] <= failures[e] + 1
             /\ msgs[e] <= docs[e]
             /\ status[e] = "absent" => docs[e] = 0
             /\ status[e] = "accepted" => docs[e] <= failures[e]
             /\ status[e] = "stored" => msgs[e] < docs[e]
             /\ status[e] = "published" => docs[e] > 0

ContractInv == ContractTypes /\ \A e \in Events : Stores(e)

(* The writes that nobody was told of stay within the bounds. *)
LEMMA SilentWritesFacts ==
  ASSUME ContractTypes, NEW landed, SilentWrites(landed), NEW e \in Events
  PROVE  /\ docs' \in [Events -> Nat] /\ msgs' \in [Events -> Nat]
         /\ docs'[e] = docs[e] \/ (status[e] = "accepted" /\ docs'[e] = docs[e] + 1)
         /\ msgs'[e] = msgs[e] \/ (status[e] = "stored" /\ msgs'[e] = msgs[e] + 1)
  BY DEF ContractTypes, SilentWrites

LEMMA FailFacts ==
  ASSUME ContractInv, NEW e \in Events, Fail(e) PROVE ContractInv'
<1> USE DEF ContractInv, ContractTypes
<1>1. PICK landed \in SUBSET {e} : SilentWrites(landed)
  BY DEF Fail
<1>2. /\ status[e] \in Pending
      /\ \A f \in Events \ {e} : docs'[f] = docs[f] /\ msgs'[f] = msgs[f]
  BY <1>1 DEF Fail, SilentWrites
<1>3. docs' \in [Events -> Nat] /\ msgs' \in [Events -> Nat]
  BY <1>1, SilentWritesFacts
<1>4. CASE TryAgain(e)
  <2>1. /\ status' \in [Events -> Status] /\ failures' \in [Events -> 0..MaxRetries]
        /\ status'[e] = "accepted" /\ failures'[e] = failures[e] + 1
        /\ \A f \in Events \ {e} : status'[f] = status[f] /\ failures'[f] = failures[f]
    BY <1>4, ContractAssumption DEF TryAgain, Status, Pending
  <2>2. Stores(e)'
    BY <1>1, <1>2, <2>1, SilentWritesFacts, ContractAssumption DEF Stores, Pending
  <2> QED
    BY <1>2, <1>3, <2>1, <2>2 DEF Stores
<1>5. CASE GiveUp(e)
  <2>1. /\ status' \in [Events -> Status] /\ failures' = failures
        /\ status'[e] = "dropped"
        /\ \A f \in Events \ {e} : status'[f] = status[f]
    BY <1>5 DEF GiveUp, Status, Settled
  <2>2. Stores(e)'
    BY <1>1, <1>2, <2>1, SilentWritesFacts, ContractAssumption DEF Stores, Pending
  <2> QED
    BY <1>2, <1>3, <2>1, <2>2 DEF Stores
<1> QED
  BY <1>4, <1>5 DEF Fail

LEMMA LoseAllFacts == ContractInv /\ LoseAll => ContractInv'
<1> SUFFICES ASSUME ContractInv, LoseAll PROVE ContractInv'
  OBVIOUS
<1> USE DEF ContractInv, ContractTypes
<1>1. PICK landed \in SUBSET Events : SilentWrites(landed)
  BY DEF LoseAll
<1>2. docs' \in [Events -> Nat] /\ msgs' \in [Events -> Nat]
  BY <1>1 DEF SilentWrites
<1>3. status' \in [Events -> Status] /\ failures' = failures
  BY DEF LoseAll, Status, Pending, Settled
<1>4. ASSUME NEW e \in Events PROVE Stores(e)'
  <2>1. status'[e] = IF status[e] \in Pending THEN "lost" ELSE status[e]
    BY DEF LoseAll
  <2> QED
    BY <1>1, <1>3, <2>1, SilentWritesFacts, ContractAssumption DEF Stores, Pending
<1> QED
  BY <1>2, <1>3, <1>4

LEMMA ContractStep == ContractInv /\ [Next]_contractVars => ContractInv'
<1> SUFFICES ASSUME ContractInv, [Next]_contractVars PROVE ContractInv'
  OBVIOUS
<1> USE ContractAssumption DEF ContractInv, ContractTypes, Stores
<1>1. ASSUME NEW e \in Events, Accept(e) PROVE ContractInv'
  BY <1>1 DEF Accept, Status, Pending
<1>2. ASSUME NEW e \in Events, Store(e) PROVE ContractInv'
  BY <1>2 DEF Store, Status, Pending
<1>3. ASSUME NEW e \in Events, Publish(e) PROVE ContractInv'
  BY <1>3 DEF Publish, Status, Settled
<1>4. CASE UNCHANGED contractVars
  BY <1>4 DEF contractVars
<1> QED
  BY <1>1, <1>2, <1>3, <1>4, FailFacts, LoseAllFacts DEF Next

(* A document is added to an accepted event, one at a time, and none is    *)
(* ever taken away.                                                        *)
LEMMA WriteFacts ==
  ASSUME ContractInv, [Next]_contractVars, NEW e \in Events
  PROVE  docs'[e] = docs[e] \/ (status[e] = "accepted" /\ docs'[e] = docs[e] + 1)
<1> USE DEF ContractInv, ContractTypes
<1>1. ASSUME NEW f \in Events, Store(f)
      PROVE  docs'[e] = docs[e] \/ (status[e] = "accepted" /\ docs'[e] = docs[e] + 1)
  BY <1>1 DEF Store
<1>2. ASSUME NEW f \in Events, Accept(f) \/ Publish(f) PROVE docs' = docs
  BY <1>2 DEF Accept, Publish
<1>3. ASSUME NEW f \in Events, Fail(f)
      PROVE  docs'[e] = docs[e] \/ (status[e] = "accepted" /\ docs'[e] = docs[e] + 1)
  BY <1>3, SilentWritesFacts DEF Fail
<1>4. CASE LoseAll
  BY <1>4, SilentWritesFacts DEF LoseAll
<1>5. CASE UNCHANGED contractVars
  BY <1>5 DEF contractVars
<1> QED
  BY <1>1, <1>2, <1>3, <1>4, <1>5 DEF Next

(* One step accepts one event at most. *)
AcceptedEvents == {e \in Events : status[e] # "absent"}

LEMMA AcceptedFacts ==
  ASSUME ContractInv, [Next]_contractVars
  PROVE  \E f : AcceptedEvents' \subseteq AcceptedEvents \cup {f}
<1> USE DEF ContractInv, ContractTypes, AcceptedEvents
<1>1. ASSUME NEW f \in Events, Accept(f)
      PROVE  AcceptedEvents' \subseteq AcceptedEvents \cup {f}
  BY <1>1 DEF Accept
<1>2. ASSUME NEW f \in Events, Store(f) \/ Publish(f) \/ Fail(f)
      PROVE  AcceptedEvents' \subseteq AcceptedEvents \cup {f}
  BY <1>2 DEF Store, Publish, Fail, TryAgain, GiveUp
<1>3. CASE LoseAll
  BY <1>3 DEF LoseAll, Pending
<1>4. CASE UNCHANGED contractVars
  BY <1>4 DEF contractVars
<1> QED
  BY <1>1, <1>2, <1>3, <1>4 DEF Next

(* No event ever has more documents than attempts, nor more announcements  *)
(* than documents, and a published event has a document, however attempts  *)
(* fail after their writes took effect and however the process ends.       *)
THEOREM ContractKept == Spec => []ContractInv
<1>1. Init => ContractInv
  BY ContractAssumption DEF Init, ContractInv, ContractTypes, Stores, Status
<1> QED
  BY <1>1, ContractStep, PTL DEF Spec
=============================================================================
