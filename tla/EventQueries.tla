---------------------------- MODULE EventQueries ----------------------------
(***************************************************************************)
(* What one user's documents look like to the queries of EventsService     *)
(* (src/events/events.service.ts) while events go on being written: the    *)
(* events collection holds one document for every save() that took effect, *)
(* retries included, in the order in which they did.                       *)
(*                                                                         *)
(* How events come to be written is the delivery contract's matter, which  *)
(* EventQueue implements.  The documents carry no timestamp: neither does  *)
(* processSingleEvent() copy it nor has the schema such a field.           *)
(***************************************************************************)
EXTENDS DeliveryContract, Integers, SequencesExt

CONSTANTS Mine,          \* the events of the user who is asked about
          Questions,     \* the events of type QUESTION_ATTEMPT; the others are
                         \* of type QUIZ_ATTEMPT
          WithConcepts,  \* the events whose data has a field concepts; nothing
                         \* ties the data of an event to its type
          Sufficient,    \* the count from which on a user is ready (50)
          PageSize       \* the default limit of a page (100)

ASSUME QueriesAssumption == /\ Mine \cup Questions \cup WithConcepts \subseteq Events
                            /\ Sufficient \in Nat \ {0}
                            /\ PageSize \in Nat \ {0}

VARIABLES collection,   \* the events of the documents, in natural order
          production,   \* NODE_ENV is not development
          secondary     \* how many documents the slowest secondary shows

storeVars == <<collection, production, secondary>>

StoreInit == /\ Init
             /\ collection = <<>>
             /\ production \in BOOLEAN
             /\ secondary = 0

Written == {e \in Events : docs'[e] # docs[e]}

AppendWritten == collection' \in {collection \o order : order \in SetToSeqs(Written)}

(* Steps of the queue, and their effect on the collection. *)
Deliver == /\ \E e \in Events : Accept(e) \/ Store(e) \/ Publish(e) \/ Fail(e)
           /\ AppendWritten
           /\ UNCHANGED <<production, secondary>>

ProcessEnds == /\ LoseAll
               /\ AppendWritten
               /\ UNCHANGED <<production, secondary>>

(* A member of the replica set that is behind catches up. *)
Replicate == /\ production
             /\ secondary < Len(collection)
             /\ secondary' = secondary + 1
             /\ UNCHANGED <<contractVars, collection, production>>

-----------------------------------------------------------------------------
(* What a query may see: the first n documents, where n is all of them on  *)
(* the primary.  In production the read preference is secondaryPreferred:  *)
(* any member answers, and may be behind.                                  *)
SecondaryAnywhere == secondary..Len(collection)   \* mutant: in development too

Snapshots == IF production THEN secondary..Len(collection) ELSE {Len(collection)}

(* find({ userId, eventType }).  "any": without eventType in the filter.  A *)
(* filter whose eventType is undefined matches documents without the field, *)
(* and there are none.                                                      *)
Types == {"QUESTION_ATTEMPT", "QUIZ_ATTEMPT", "any", "undefined"}
TypeOf(e) == IF e \in Questions THEN "QUESTION_ATTEMPT" ELSE "QUIZ_ATTEMPT"

Documents(n, type) == {d \in 1..n : /\ collection[d] \in Mine
                                    /\ type \in {"any", TypeOf(collection[d])}}

(* isUserDoneSufficientQuestions(): find({ userId }).countDocuments() *)
CountAbove(n) == Cardinality(Documents(n, "any")) > Sufficient   \* mutant: > 50

IsUserDoneSufficientQuestions(n) == Cardinality(Documents(n, "any")) >= Sufficient

(* .sort({ timestamp: -1 }).limit(limit): every document compares equal, so *)
(* any of them may fill the page.  MongoDB takes 0 for no limit, and of a   *)
(* negative number the absolute value.                                      *)
Limit(number) == IF number < 0 THEN -number ELSE number

Pages(from, limit) ==
    {page \in SUBSET from :
       Cardinality(page) = IF limit = 0 \/ Cardinality(from) < limit
                           THEN Cardinality(from) ELSE limit}

(* $match and $unwind of eventData.concepts *)
ConceptStats(n, type) == {d \in Documents(n, type) : collection[d] \in WithConcepts}
=============================================================================
