----------------------- MODULE EventsController_proofs -----------------------
(***************************************************************************)
(* Proofs about EventQueries and EventsController, for any set of events,  *)
(* any number of retries and any page size: what the collection holds of   *)
(* each event, what the counts and pages made of it are worth, and that    *)
(* requests do to the events nothing but accept them.                      *)
(***************************************************************************)
EXTENDS EventsController, DeliveryContract_proofs, FiniteSetTheorems, FunctionTheorems

(***************************************************************************)
(* Counting.  Documents are counted by their event and events by their     *)
(* message: when every t has at most n of the S, there are at most n times *)
(* as many S as T.                                                         *)
(***************************************************************************)
LEMMA Numbering ==
  ASSUME NEW S, IsFiniteSet(S), NEW n \in Nat, Cardinality(S) <= n
  PROVE  \E g \in [S -> 1..n] : \A a, b \in S : g[a] = g[b] => a = b
<1> DEFINE k == Cardinality(S)
<1>1. k \in Nat /\ ExistsBijection(S, 1..k)
  BY FS_CardinalityType, Fun_ExistsBijSymmetric
<1>2. 1..k \subseteq 1..n
  BY <1>1
<1> HIDE DEF k
<1>3. PICK g : g \in Bijection(S, 1..k)
  BY <1>1, Fun_ExistsBij
<1>4. g \in [S -> 1..k] /\ \A a, b \in S : g[a] = g[b] => a = b
  BY <1>3, Fun_BijectionProperties
<1>5. g \in [S -> 1..n]
  BY <1>2, <1>4
<1> QED
  BY <1>4, <1>5

LEMMA FiberBound ==
  ASSUME NEW S, NEW T, IsFiniteSet(S), IsFiniteSet(T), NEW f \in [S -> T], NEW n \in Nat,
         \A t \in T : Cardinality({s \in S : f[s] = t}) <= n
  PROVE  Cardinality(S) <= n * Cardinality(T)
<1> DEFINE Fiber(t) == {s \in S : f[s] = t}
           Numbers(t) == {g \in [Fiber(t) -> 1..n] :
                            \A a, b \in Fiber(t) : g[a] = g[b] => a = b}
           number == [t \in T |-> CHOOSE g : g \in Numbers(t)]
           pair == [s \in S |-> <<f[s], number[f[s]][s]>>]
<1>1. ASSUME NEW t \in T PROVE number[t] \in Numbers(t)
  <2>1. Fiber(t) \in SUBSET S /\ Cardinality(Fiber(t)) <= n
    OBVIOUS
  <2> HIDE DEF Fiber
  <2>2. IsFiniteSet(Fiber(t))
    BY <2>1, FS_Subset
  <2>3. \E g : g \in Numbers(t)
    BY <2>1, <2>2, Numbering
  <2> HIDE DEF Numbers
  <2> QED
    BY <2>3
<1>2. \A s \in S : s \in Fiber(f[s]) /\ f[s] \in T
  OBVIOUS
<1> HIDE DEF number, Fiber
<1>3. pair \in [S -> T \X (1..n)]
  <2> SUFFICES ASSUME NEW s \in S PROVE number[f[s]][s] \in 1..n
    OBVIOUS
  <2>1. number[f[s]] \in [Fiber(f[s]) -> 1..n]
    BY <1>1, <1>2
  <2> QED
    BY <1>2, <2>1
<1>4. ASSUME NEW a \in S, NEW b \in S, pair[a] = pair[b] PROVE a = b
  <2>1. f[a] = f[b] /\ number[f[a]][a] = number[f[a]][b]
    BY <1>4
  <2> QED
    BY <1>1, <1>2, <2>1
<1>5. pair \in Injection(S, T \X (1..n))
  BY <1>3, <1>4, Fun_IsInj
<1>6. IsFiniteSet(1..n) /\ Cardinality(1..n) = n
  BY FS_Interval
<1>7. /\ IsFiniteSet(T \X (1..n))
      /\ Cardinality(T \X (1..n)) = Cardinality(T) * n
  BY <1>6, FS_Product
<1>8. Cardinality(S) <= Cardinality(T \X (1..n))
  BY <1>5, <1>7, FS_Injection
<1>9. Cardinality(T) \in Nat
  BY FS_CardinalityType
<1> HIDE DEF pair, number
<1> QED
  BY <1>7, <1>8, <1>9

-----------------------------------------------------------------------------
(* Requests and replication leave the events to the queue. *)
LEMMA ApiDeliversStep == [ApiNext]_apiVars => [Next]_contractVars
<1> SUFFICES ASSUME [ApiNext]_apiVars PROVE [Next]_contractVars
  OBVIOUS
<1>1. CASE QueueStep
  BY <1>1 DEF QueueStep, Deliver, ProcessEnds, Next
<1>2. CASE ReplicaStep
  BY <1>2 DEF ReplicaStep, Replicate
<1>3. CASE IngestEvent
  BY <1>3 DEF IngestEvent, Next
<1>4. CASE GetStats \/ Get \/ Query
  BY <1>4 DEF GetStats, Get, Query
<1>5. CASE UNCHANGED apiVars
  BY <1>5 DEF apiVars
<1> QED
  BY <1>1, <1>2, <1>3, <1>4, <1>5 DEF ApiNext

(* The HTTP interface keeps the delivery contract: only POST touches an    *)
(* event, and does no more than have it accepted.                          *)
THEOREM ApiDelivers == ApiSpec => Spec /\ []ContractInv
<1>1. ApiInit => Init
  BY DEF ApiInit, StoreInit
<1> QED
  BY <1>1, ApiDeliversStep, ContractKept, PTL DEF ApiSpec, Spec

-----------------------------------------------------------------------------
(* What SetToSeqs() makes of a finite set: each element, exactly once. *)
LEMMA OrderFacts ==
  ASSUME NEW W, IsFiniteSet(W), NEW order \in SetToSeqs(W)
  PROVE  /\ order \in Seq(W)
         /\ \A i, j \in 1..Len(order) : order[i] = order[j] => i = j
         /\ \A w \in W : \E i \in 1..Len(order) : order[i] = w
<1> DEFINE n == Cardinality(W)
<1>1. n \in Nat /\ IsFiniteSet(1..n) /\ Cardinality(1..n) = n
  BY FS_CardinalityType, FS_Interval
<1>2. order \in [1..n -> W] /\ \A i, j \in 1..n : order[i] = order[j] => i = j
  BY DEF SetToSeqs
<1> HIDE DEF n
<1>3. order \in Injection(1..n, W)
  BY <1>2, Fun_IsInj
<1>4. order \in Surjection(1..n, W)
  BY <1>1, <1>3, FS_Injection DEF n
<1>5. \A w \in W : \E i \in 1..n : order[i] = w
  BY <1>4 DEF Surjection
<1>6. order \in Seq(W) /\ Len(order) = n
  BY <1>1, <1>2
<1> QED
  BY <1>2, <1>5, <1>6

(* The positions of an event's documents, before and after they are        *)
(* written: what is there stays in its place, and every write adds one.    *)
Copies(e) == {d \in 1..Len(collection) : collection[d] = e}

LEMMA AppendFacts ==
  ASSUME collection \in Seq(Events), IsFiniteSet(Written), AppendWritten
  PROVE  /\ collection' \in Seq(Events)
         /\ Len(collection') >= Len(collection)
         /\ \A d \in 1..Len(collection) : collection'[d] = collection[d]
         /\ \A e \in Events \ Written : Copies(e)' = Copies(e)
         /\ \A e \in Written : \E d : d \notin Copies(e) /\ Copies(e)' = Copies(e) \cup {d}
<1>1. PICK order \in SetToSeqs(Written) : collection' = collection \o order
  BY DEF AppendWritten
<1>2. /\ order \in Seq(Written)
      /\ \A i, j \in 1..Len(order) : order[i] = order[j] => i = j
      /\ \A w \in Written : \E i \in 1..Len(order) : order[i] = w
  BY OrderFacts
<1>3. order \in Seq(Events)
  BY <1>2 DEF Written
<1> DEFINE n == Len(collection)
           k == Len(order)
<1>4. n \in Nat /\ k \in Nat
  BY <1>3
<1>5. /\ collection' \in Seq(Events)
      /\ Len(collection') = n + k
      /\ \A d \in 1..n : collection'[d] = collection[d]
      /\ \A i \in 1..k : collection'[n + i] = order[i]
  BY <1>1, <1>3, <1>4
<1>6. \A d \in 1..(n + k) : d \in 1..n \/ \E i \in 1..k : d = n + i
  <2> SUFFICES ASSUME NEW d \in 1..(n + k), d \notin 1..n PROVE \E i \in 1..k : d = n + i
    OBVIOUS
  <2>1. d - n \in 1..k /\ d = n + (d - n)
    BY <1>4
  <2> QED
    BY <2>1
<1>7. ASSUME NEW e \in Events \ Written PROVE Copies(e)' = Copies(e)
  <2>1. \A i \in 1..k : order[i] # e
    BY <1>2, <1>4
  <2>2. ASSUME NEW d \in Copies(e)' PROVE d \in Copies(e)
    <3>1. d \in 1..(n + k) /\ collection'[d] = e
      BY <1>5 DEF Copies
    <3>2. d \in 1..n
      BY <1>5, <1>6, <2>1, <3>1
    <3> QED
      BY <1>5, <3>1, <3>2 DEF Copies
  <2>3. \A d \in Copies(e) : d \in Copies(e)'
    BY <1>4, <1>5 DEF Copies
  <2> QED
    BY <2>2, <2>3
<1>8. ASSUME NEW e \in Written
      PROVE  \E d : d \notin Copies(e) /\ Copies(e)' = Copies(e) \cup {d}
  <2>1. PICK i \in 1..k : order[i] = e
    BY <1>2
  <2>2. \A j \in 1..k : order[j] = e => j = i
    BY <1>2, <2>1
  <2>3. n + i \notin Copies(e)
    BY <1>4 DEF Copies
  <2>4. ASSUME NEW d \in Copies(e)' PROVE d \in Copies(e) \cup {n + i}
    <3>1. d \in 1..(n + k) /\ collection'[d] = e
      BY <1>5 DEF Copies
    <3>2. CASE d \in 1..n
      BY <1>5, <3>1, <3>2 DEF Copies
    <3>3. ASSUME NEW j \in 1..k, d = n + j PROVE d = n + i
      BY <1>5, <2>2, <3>1, <3>3
    <3> QED
      BY <1>6, <3>1, <3>2, <3>3
  <2>5. \A d \in Copies(e) : d \in Copies(e)'
    BY <1>4, <1>5 DEF Copies
  <2>6. n + i \in Copies(e)'
    <3>1. n + i \in 1..(n + k) /\ collection'[n + i] = e
      BY <1>4, <1>5, <2>1
    <3> QED
      BY <1>5, <3>1 DEF Copies
  <2> QED
    BY <2>3, <2>4, <2>5, <2>6
<1> QED
  BY <1>4, <1>5, <1>7, <1>8

-----------------------------------------------------------------------------
(* The collection is what the delivery contract says of the documents:     *)
(* one for every write.  Only finitely many events are accepted, without   *)
(* which the positions of a step's writes would have no order to be put    *)
(* into.                                                                   *)
StoreTypes == /\ collection \in Seq(Events)
              /\ secondary \in 0..Len(collection)
              /\ production \in BOOLEAN

Mirrored(e) == IsFiniteSet(Copies(e)) /\ Cardinality(Copies(e)) = docs[e]

StoreInv == /\ StoreTypes
            /\ IsFiniteSet(AcceptedEvents)
            /\ \A e \in Events : Mirrored(e)

(* What is written in a step was accepted before it. *)
LEMMA WrittenFacts ==
  ASSUME ContractInv, StoreInv, [Next]_contractVars
  PROVE  /\ IsFiniteSet(Written) /\ Written \subseteq AcceptedEvents
         /\ \A e \in Written : docs'[e] = docs[e] + 1
         /\ \A e \in Events \ Written : docs'[e] = docs[e]
<1>1. \A e \in Events :
         docs'[e] = docs[e] \/ (status[e] = "accepted" /\ docs'[e] = docs[e] + 1)
  BY WriteFacts
<1>2. Written \subseteq AcceptedEvents
  BY <1>1 DEF Written, AcceptedEvents
<1>3. IsFiniteSet(Written)
  BY <1>2, FS_Subset DEF StoreInv
<1> QED
  BY <1>1, <1>2, <1>3 DEF Written

LEMMA AcceptedStayFinite ==
  ASSUME ContractInv, StoreInv, [Next]_contractVars PROVE IsFiniteSet(AcceptedEvents')
<1>1. PICK f : AcceptedEvents' \subseteq AcceptedEvents \cup {f}
  BY AcceptedFacts
<1>2. IsFiniteSet(AcceptedEvents \cup {f})
  BY FS_AddElement DEF StoreInv
<1> HIDE DEF AcceptedEvents
<1> QED
  BY <1>1, <1>2, FS_Subset

LEMMA AppendKeeps ==
  ASSUME ContractInv, StoreInv, [Next]_contractVars,
         AppendWritten, UNCHANGED <<production, secondary>>
  PROVE  StoreInv'
<1>1. IsFiniteSet(AcceptedEvents')
  BY AcceptedStayFinite
<1>2. StoreTypes'
  BY WrittenFacts, AppendFacts DEF StoreInv, StoreTypes
<1>3. ASSUME NEW e \in Events \ Written PROVE Mirrored(e)'
  <2>1. Copies(e)' = Copies(e) /\ docs'[e] = docs[e]
    BY <1>3, WrittenFacts, AppendFacts DEF StoreInv, StoreTypes
  <2>2. IsFiniteSet(Copies(e)) /\ Cardinality(Copies(e)) = docs[e]
    BY DEF StoreInv, Mirrored
  <2> QED
    BY <2>1, <2>2 DEF Mirrored
<1>4. ASSUME NEW e \in Written PROVE Mirrored(e)'
  <2>1. IsFiniteSet(Copies(e)) /\ Cardinality(Copies(e)) = docs[e] /\ docs'[e] = docs[e] + 1
    BY <1>4, WrittenFacts DEF StoreInv, Mirrored, Written
  <2>2. PICK d : d \notin Copies(e) /\ Copies(e)' = Copies(e) \cup {d}
    BY <1>4, WrittenFacts, AppendFacts DEF StoreInv, StoreTypes
  <2> HIDE DEF Copies
  <2>3. IsFiniteSet(Copies(e) \cup {d}) /\ Cardinality(Copies(e) \cup {d}) = docs[e] + 1
    BY <2>1, <2>2, FS_AddElement
  <2> QED
    BY <2>1, <2>2, <2>3 DEF Mirrored
<1> QED
  BY <1>1, <1>2, <1>3, <1>4 DEF StoreInv

LEMMA StoreStep == ContractInv /\ StoreInv /\ [ApiNext]_apiVars => StoreInv'
<1> SUFFICES ASSUME ContractInv, StoreInv, [ApiNext]_apiVars PROVE StoreInv'
  OBVIOUS
<1>1. [Next]_contractVars
  BY ApiDeliversStep
<1>2. CASE QueueStep
  BY <1>1, <1>2, AppendKeeps DEF QueueStep, Deliver, ProcessEnds
<1>3. ASSUME UNCHANGED <<docs, collection>>, StoreTypes' PROVE StoreInv'
  <2>1. ASSUME NEW e \in Events PROVE Mirrored(e)'
    BY <1>3 DEF StoreInv, Mirrored, Copies
  <2> QED
    BY <1>1, <1>3, <2>1, AcceptedStayFinite DEF StoreInv
<1>4. CASE ReplicaStep
  <2>1. /\ UNCHANGED <<docs, collection, production>>
        /\ secondary < Len(collection) /\ secondary' = secondary + 1
    BY <1>4 DEF ReplicaStep, Replicate, contractVars
  <2>2. StoreTypes'
    BY <2>1 DEF StoreInv, StoreTypes
  <2> QED
    BY <1>3, <2>1, <2>2
<1>5. CASE IngestEvent
  BY <1>3, <1>5 DEF IngestEvent, Accept, storeVars, contractVars, StoreInv, StoreTypes
<1>6. CASE GetStats \/ Get \/ Query \/ UNCHANGED apiVars
  <2>1. UNCHANGED <<docs, collection, production, secondary>>
    BY <1>6 DEF GetStats, Get, Query, apiVars, storeVars, contractVars
  <2> QED
    BY <1>3, <2>1 DEF StoreInv, StoreTypes
<1> QED
  BY <1>2, <1>4, <1>5, <1>6 DEF ApiNext

LEMMA StoreStart == ApiInit => StoreInv
<1> SUFFICES ASSUME ApiInit PROVE StoreInv
  OBVIOUS
<1> USE DEF ApiInit, StoreInit, Init
<1>1. StoreTypes
  BY DEF StoreTypes
<1>2. IsFiniteSet(AcceptedEvents)
  <2>1. AcceptedEvents = {}
    BY DEF AcceptedEvents
  <2> QED
    BY <2>1, FS_EmptySet
<1>3. ASSUME NEW e \in Events PROVE Mirrored(e)
  <2>1. Copies(e) = {} /\ docs[e] = 0
    BY DEF Copies
  <2> QED
    BY <2>1, FS_EmptySet DEF Mirrored
<1> QED
  BY <1>1, <1>2, <1>3 DEF StoreInv

(* The collection holds as many documents of an event as writes of it took *)
(* effect, retries and writes that nobody was told of included, and those  *)
(* of a step that ends the process too: no save is ever overwritten.       *)
THEOREM OneDocumentPerWrite == ApiSpec => [](ContractInv /\ StoreInv)
<1>1. ApiSpec => []ContractInv
  BY ApiDelivers
<1> QED
  BY <1>1, StoreStart, StoreStep, PTL DEF ApiSpec

-----------------------------------------------------------------------------
(* The count behind the readiness, taken between the steps. *)
LEMMA StoredOfCopies ==
  ASSUME ContractInv, StoreInv, NEW e \in Events
  PROVE  Copies(e) # {} <=> docs[e] > 0
<1>1. IsFiniteSet(Copies(e)) /\ Cardinality(Copies(e)) = docs[e] /\ docs[e] \in Nat
  BY DEF StoreInv, Mirrored, ContractInv, ContractTypes
<1> HIDE DEF Copies
<1>2. Cardinality(Copies(e)) = 0 <=> Copies(e) = {}
  BY <1>1, FS_EmptySet
<1> QED
  BY <1>1, <1>2

MyDocuments == Documents(Len(collection), "any")
MyAccepted  == {e \in Mine : status[e] # "absent"}
MyPublished == {e \in Mine : status[e] = "published"}

LEMMA MyDocumentsFacts ==
  ASSUME StoreInv
  PROVE  /\ MyDocuments = {d \in 1..Len(collection) : collection[d] \in Mine}
         /\ \A d \in MyDocuments : collection[d] \in Mine /\ d \in Copies(collection[d])
         /\ \A e \in Mine : Copies(e) = {d \in MyDocuments : collection[d] = e}
         /\ IsFiniteSet(MyDocuments)
<1>1. MyDocuments = {d \in 1..Len(collection) : collection[d] \in Mine}
  BY DEF MyDocuments, Documents
<1>2. IsFiniteSet(1..Len(collection))
  BY FS_Interval DEF StoreInv, StoreTypes
<1>3. IsFiniteSet(MyDocuments)
  BY <1>1, <1>2, FS_Subset
<1> QED
  BY <1>1, <1>3 DEF Copies

LEMMA CountFromAbove ==
  ASSUME ContractInv, StoreInv
  PROVE  Cardinality(MyDocuments) <= (MaxRetries + 1) * Cardinality(MyAccepted)
<1> DEFINE D == MyDocuments
           T == MyAccepted
           f == [d \in D |-> collection[d]]
<1>1. IsFiniteSet(D)
  BY MyDocumentsFacts
<1>2. IsFiniteSet(T)
  <2>1. T \in SUBSET AcceptedEvents
    BY QueriesAssumption DEF MyAccepted, AcceptedEvents
  <2> QED
    BY <2>1, FS_Subset DEF StoreInv
<1>3. ASSUME NEW d \in D PROVE collection[d] \in T
  <2>1. collection[d] \in Mine /\ Copies(collection[d]) # {}
    BY MyDocumentsFacts
  <2>2. docs[collection[d]] > 0
    BY <2>1, StoredOfCopies, QueriesAssumption
  <2> QED
    BY <2>1, <2>2, QueriesAssumption DEF MyAccepted, ContractInv, Stores
<1>4. ASSUME NEW t \in T PROVE Cardinality({d \in D : f[d] = t}) <= MaxRetries + 1
  <2>1. t \in Mine /\ t \in Events
    BY QueriesAssumption DEF MyAccepted
  <2>2. {d \in D : f[d] = t} = Copies(t)
    BY <2>1, MyDocumentsFacts
  <2>3. docs[t] <= MaxRetries + 1
    BY <2>1, ContractAssumption DEF ContractInv, ContractTypes, Stores
  <2> QED
    BY <2>1, <2>2, <2>3 DEF StoreInv, Mirrored
<1>5. f \in [D -> T] /\ MaxRetries + 1 \in Nat
  BY <1>3, ContractAssumption
<1> HIDE DEF D, T, f
<1>6. Cardinality(D) <= (MaxRetries + 1) * Cardinality(T)
  BY <1>1, <1>2, <1>4, <1>5, FiberBound
<1> QED
  BY <1>6 DEF D, T

LEMMA CountFromBelow ==
  ASSUME ContractInv, StoreInv
  PROVE  Cardinality(MyPublished) <= Cardinality(MyDocuments)
<1> DEFINE S == {d \in MyDocuments : collection[d] \in MyPublished}
           f == [d \in S |-> collection[d]]
<1>1. ASSUME NEW e \in MyPublished PROVE \E d \in S : f[d] = e
  <2>1. e \in Mine /\ e \in Events /\ docs[e] > 0
    BY QueriesAssumption DEF MyPublished, ContractInv, Stores
  <2>2. PICK d \in Copies(e) : TRUE
    BY <2>1, StoredOfCopies
  <2>3. d \in MyDocuments /\ collection[d] = e
    BY <2>1, <2>2, MyDocumentsFacts
  <2> QED
    BY <2>3
<1>2. f \in [S -> MyPublished]
  OBVIOUS
<1>3. S \in SUBSET MyDocuments /\ IsFiniteSet(MyDocuments)
  BY MyDocumentsFacts
<1> HIDE DEF S, f
<1>4. f \in Surjection(S, MyPublished)
  BY <1>1, <1>2 DEF Surjection
<1>5. IsFiniteSet(S) /\ Cardinality(S) <= Cardinality(MyDocuments)
  BY <1>3, FS_Subset
<1>6. IsFiniteSet(MyPublished) /\ Cardinality(MyPublished) <= Cardinality(S)
  BY <1>4, <1>5, FS_Surjection
<1> QED
  BY <1>3, <1>5, <1>6, FS_CardinalityType

LEMMA AcceptedCount == ASSUME StoreInv PROVE Cardinality(MyAccepted) \in Nat
<1>1. MyAccepted \in SUBSET AcceptedEvents
  BY QueriesAssumption DEF MyAccepted, AcceptedEvents
<1> QED
  BY <1>1, FS_Subset, FS_CardinalityType DEF StoreInv

LEMMA PublishedCount == ASSUME StoreInv PROVE Cardinality(MyPublished) \in Nat
<1>1. MyPublished \in SUBSET AcceptedEvents
  BY QueriesAssumption DEF MyPublished, AcceptedEvents
<1> QED
  BY <1>1, FS_Subset, FS_CardinalityType DEF StoreInv

(* The count that decides on the readiness of a user never falls below the *)
(* published events of the user, and never exceeds what all attempts of    *)
(* all accepted events of the user can have written.                       *)
THEOREM CountsBounded == ApiSpec => []CountBounds
<1>1. ContractInv /\ StoreInv => CountBounds
  <2> SUFFICES ASSUME ContractInv, StoreInv PROVE CountBounds
    OBVIOUS
  <2>1. Cardinality(MyDocuments) \in Nat /\ Cardinality(MyPublished) \in Nat
    BY PublishedCount, MyDocumentsFacts, FS_CardinalityType
  <2>2. Cardinality(MyDocuments) >= Cardinality(MyPublished)
    BY <2>1, CountFromBelow
  <2> QED
    BY <2>2, CountFromAbove DEF CountBounds, MyDocuments, MyAccepted, MyPublished
<1> QED
  BY <1>1, OneDocumentPerWrite, PTL

-----------------------------------------------------------------------------
(* A step of the queue or of a client leaves the documents of the user     *)
(* where they are.                                                         *)
LEMMA CollectionGrows ==
  ASSUME ContractInv, StoreInv, [ApiNext]_apiVars
  PROVE  /\ Len(collection') >= Len(collection)
         /\ \A d \in 1..Len(collection) : collection'[d] = collection[d]
<1>1. [Next]_contractVars
  BY ApiDeliversStep
<1>2. CASE AppendWritten
  BY <1>1, <1>2, WrittenFacts, AppendFacts DEF StoreInv, StoreTypes
<1>3. CASE UNCHANGED collection
  BY <1>3 DEF StoreInv, StoreTypes
<1>4. AppendWritten \/ UNCHANGED collection
  BY DEF ApiNext, QueueStep, Deliver, ProcessEnds, ReplicaStep, Replicate, IngestEvent,
         GetStats, Get, Query, apiVars, storeVars
<1> QED
  BY <1>2, <1>3, <1>4

-----------------------------------------------------------------------------
(* Every path a client may ask for has a handler. *)
LEMMA HandlerFacts ==
  ASSUME NEW path \in Paths
  PROVE  Handler(path) \in {"stats", "list", "ready", "userStats"}
<1> DEFINE I == {i \in 1..Len(Routes) : Matches(Routes[i], path)}
<1>1. /\ Len(Routes) = 5
      /\ Routes[1].path = <<"stats">>
      /\ Routes[2].path = <<"user", ":userId">>
      /\ Routes[3].path = <<"user", ":userId", "is-personalization-ready">>
      /\ Routes[5].path = <<"user", ":userId", "stats">>
      /\ \A i \in 1..5 : Routes[i].handler \in {"stats", "list", "ready", "userStats"}
  BY DEF Routes
<1>2. I # {}
  <2>1. CASE path = <<"stats">>
    <3>1. Matches(Routes[1], path)
      BY <1>1, <2>1 DEF Matches
    <3> QED
      BY <1>1, <3>1
  <2>2. CASE path = <<"user", "me">> \/ path = <<"user", "is-personalization-ready">>
    <3>1. Matches(Routes[2], path)
      BY <1>1, <2>2 DEF Matches
    <3> QED
      BY <1>1, <3>1
  <2>3. CASE path = <<"user", "me", "is-personalization-ready">>
    <3>1. Matches(Routes[3], path)
      BY <1>1, <2>3 DEF Matches
    <3> QED
      BY <1>1, <3>1
  <2>4. CASE path = <<"user", "me", "stats">>
    <3>1. Matches(Routes[5], path)
      BY <1>1, <2>4 DEF Matches
    <3> QED
      BY <1>1, <3>1
  <2> QED
    BY <2>1, <2>2, <2>3, <2>4 DEF Paths
<1>3. Handler(path) = Routes[Min(I)].handler
  BY <1>2 DEF Handler, SelectInSeq
<1>4. I \subseteq 1..5
  BY <1>1
<1> HIDE DEF I
<1>5. \E x \in I : \A y \in I : x <= y
  <2>1. \A y \in I : y \in {1, 2, 3, 4, 5}
    BY <1>4
  <2>2. ASSUME NEW x \in I, \A y \in I : x <= y PROVE \E z \in I : \A y \in I : z <= y
    BY <2>2
  <2>3. CASE 1 \in I
    BY <2>1, <2>2, <2>3
  <2>4. CASE 1 \notin I /\ 2 \in I
    BY <2>1, <2>2, <2>4
  <2>5. CASE 1 \notin I /\ 2 \notin I /\ 3 \in I
    BY <2>1, <2>2, <2>5
  <2>6. CASE 1 \notin I /\ 2 \notin I /\ 3 \notin I
    <3>1. CASE 4 \in I
      BY <2>1, <2>2, <2>6, <3>1
    <3>2. CASE 4 \notin I
      BY <1>2, <2>1, <2>2, <2>6, <3>2
    <3> QED
      BY <3>1, <3>2
  <2> QED
    BY <2>3, <2>4, <2>5, <2>6
<1>6. Min(I) \in I
  BY <1>5 DEF Min
<1> QED
  BY <1>1, <1>3, <1>4, <1>6

(* Between the requests there is an answer at most, and while one is open  *)
(* there is none.  The totals of an answer whose page is still to be read  *)
(* count documents that are there, on whatever member, and so will be when *)
(* the page is read.                                                       *)
TotalsStand == request.handler = "userStatsPage"
                 => request.conceptStats \subseteq Documents(Len(collection), request.type)

HttpInv == /\ request.handler \in {"none", "ready", "list", "userStats", "userStatsPage"}
           /\ response.status \in {0, 200, 202, 400, 500}
           /\ request.handler # "none" => response.status = 0
           /\ TotalsStand

LEMMA SnapshotFacts ==
  ASSUME StoreInv, NEW n \in Snapshots
  PROVE  /\ n \in Nat /\ n <= Len(collection)
         /\ production => n >= secondary
         /\ ~production => n = Len(collection)
  BY DEF Snapshots, StoreInv, StoreTypes

LEMMA DocumentsFinite ==
  ASSUME StoreInv, NEW n \in Snapshots, NEW type PROVE IsFiniteSet(Documents(n, type))
<1>1. Documents(n, type) \in SUBSET (1..n) /\ n \in Nat
  BY SnapshotFacts DEF Documents
<1>2. IsFiniteSet(1..n)
  BY <1>1, FS_Interval
<1> QED
  BY <1>1, <1>2, FS_Subset

LEMMA AnswerFacts ==
  ASSUME NEW r, Answer(r), r.status \in {0, 200, 202, 400, 500} PROVE HttpInv'
  BY DEF Answer, HttpInv, TotalsStand, NoRequest

LEMMA HttpStep == ContractInv /\ StoreInv /\ HttpInv /\ [ApiNext]_apiVars => HttpInv'
<1> SUFFICES ASSUME ContractInv, StoreInv, HttpInv, [ApiNext]_apiVars PROVE HttpInv'
  OBVIOUS
<1>1. ASSUME UNCHANGED <<http, production>> PROVE HttpInv'
  <2>1. UNCHANGED <<request, response, production>>
    BY <1>1 DEF http
  <2>2. Documents(Len(collection), request.type)
          \subseteq Documents(Len(collection), request.type)'
    BY <2>1, CollectionGrows DEF Documents, StoreInv, StoreTypes
  <2>3. TotalsStand'
    BY <2>1, <2>2 DEF HttpInv, TotalsStand
  <2> QED
    BY <2>1, <2>3 DEF HttpInv
<1>2. CASE QueueStep
  <2>1. CASE Answer(NoResponse)
    BY <2>1, AnswerFacts DEF NoResponse
  <2> QED
    BY <1>1, <1>2, <2>1 DEF QueueStep, Deliver
<1>3. CASE ReplicaStep
  BY <1>1, <1>3 DEF ReplicaStep, Replicate
<1>4. CASE IngestEvent
  <2>1. response'.status \in {202, 400} /\ request' = request /\ request = NoRequest
    BY <1>4 DEF IngestEvent
  <2> QED
    BY <2>1 DEF HttpInv, TotalsStand, NoRequest
<1>5. CASE GetStats
  BY <1>5, AnswerFacts DEF GetStats
<1>6. CASE Get
  <2>1. PICK path \in Paths : /\ Handler(path) # "stats"
                              /\ request' \in Asked(Handler(path), path[2])
    BY <1>6 DEF Get
  <2>2. Handler(path) \in {"list", "ready", "userStats"}
    BY <2>1, HandlerFacts
  <2>3. request'.handler \in {"list", "ready", "userStats"}
    BY <2>1, <2>2 DEF Asked
  <2> QED
    BY <1>6, <2>3 DEF Get, HttpInv, TotalsStand, NoResponse
<1>7. CASE Query
  <2>1. ASSUME NEW r, Answer(r), r.status \in {200, 500} PROVE HttpInv'
    BY <2>1, AnswerFacts
  <2>2. CASE Aggregated
    <3>1. PICK n \in Snapshots :
             request' = [handler |-> "userStatsPage", type |-> request.type,
                         conceptStats |-> ConceptStats(n, request.type)]
      BY <2>2 DEF Aggregated
    <3>2. /\ UNCHANGED <<collection, production, response>>
          /\ request.handler = "userStats"
      BY <1>7, <2>2 DEF Query, Aggregated, storeVars
    <3>3. TotalsStand'
      BY <3>1, <3>2, SnapshotFacts DEF TotalsStand, ConceptStats, Documents, StoreInv,
         StoreTypes
    <3> QED
      BY <3>1, <3>2, <3>3 DEF HttpInv
  <2> QED
    BY <1>7, <2>1, <2>2 DEF Query, Ready, Listed, StatsAnswered, QueryFails
<1>8. CASE UNCHANGED apiVars
  BY <1>1, <1>8 DEF apiVars, storeVars
<1> QED
  BY <1>2, <1>3, <1>4, <1>5, <1>6, <1>7, <1>8 DEF ApiNext

LEMMA ApiKeeps == ApiSpec => [](ContractInv /\ StoreInv /\ HttpInv)
<1>1. ApiInit => HttpInv
  BY DEF ApiInit, NoRequest, NoResponse, HttpInv, TotalsStand
<1> QED
  BY <1>1, OneDocumentPerWrite, HttpStep, PTL DEF ApiSpec

(* The types of all variables: a request has one of the handlers that      *)
(* await something, and an answer a status that the code sends.            *)
THEOREM ApiTypes == ApiSpec => []ApiTypeOK
<1>1. StoreInv /\ HttpInv => ApiTypeOK
  BY DEF StoreInv, StoreTypes, HttpInv, ApiTypeOK
<1> QED
  BY <1>1, ApiKeeps, PTL

(* One answer of getUserEventStats() is consistent, although events are      *)
(* written between its two queries and different members may answer them: a *)
(* page that is not full has all the documents that the totals of the first *)
(* query count and that every member shows when the page is read.           *)
THEOREM TotalsWithinPage == ApiSpec => StatsWithinPage
<1> DEFINE Step == /\ request.handler = "userStatsPage" /\ response'.status = 200
                   /\ Cardinality(response'.latestEvents) < PageSize
                   => response'.conceptStats \ response'.latestEvents \subseteq NotOnAllMembers
<1>1. StoreInv /\ HttpInv /\ [ApiNext]_apiVars => [Step]_apiVars
  <2> SUFFICES ASSUME StoreInv, HttpInv, ApiNext,
                      request.handler = "userStatsPage", response'.status = 200,
                      Cardinality(response'.latestEvents) < PageSize,
                      NEW d \in response'.conceptStats, d \notin response'.latestEvents
               PROVE  d \in NotOnAllMembers
    OBVIOUS
  <2>1. response.status = 0 /\ NoResponse.status = 0
    BY DEF HttpInv, NoResponse
  <2>2. request # NoRequest
    BY DEF NoRequest
  <2>3. StatsAnswered
    BY <2>1, <2>2 DEF ApiNext, QueueStep, ReplicaStep, IngestEvent, GetStats, Get, Query,
                      Ready, Listed, Aggregated, QueryFails, Answer, http
  <2>4. PICK n \in Snapshots :
           \E page \in Pages(Documents(n, request.type), PageSize) :
              Answer([status |-> 200, conceptStats |-> request.conceptStats,
                      latestEvents |-> page])
    BY <2>3 DEF StatsAnswered
  <2> DEFINE D == Documents(n, request.type)
  <2>5. PICK page \in Pages(D, PageSize) :
           Answer([status |-> 200, conceptStats |-> request.conceptStats,
                   latestEvents |-> page])
    BY <2>4
  <2>6. d \in request.conceptStats /\ response'.latestEvents = page
    BY <2>5 DEF Answer
  <2>7. IsFiniteSet(D)
    BY DocumentsFinite
  <2>8. page = D
    <3> HIDE DEF D
    <3>1. page \in SUBSET D /\ Cardinality(page) = Cardinality(D)
      BY <2>5, <2>6, QueriesAssumption DEF Pages
    <3> QED
      BY <2>7, <3>1, FS_Subset
  <2>9. d \in Documents(Len(collection), request.type) /\ d \notin D
    BY <2>6, <2>8 DEF HttpInv, TotalsStand
  <2>10. d \in 1..Len(collection) /\ ~(d <= n)
    BY <2>9, SnapshotFacts DEF Documents, StoreInv, StoreTypes
  <2> QED
    BY <2>10, SnapshotFacts DEF NotOnAllMembers, StoreInv, StoreTypes
<1> QED
  BY <1>1, ApiKeeps, PTL DEF ApiSpec, StatsWithinPage

-----------------------------------------------------------------------------
(* Whichever member counts, its documents are some of the user's documents. *)
LEMMA CountOnMember ==
  ASSUME StoreInv, NEW n \in Snapshots
  PROVE  /\ Cardinality(Documents(n, "any")) \in Nat
         /\ Cardinality(Documents(n, "any")) <= Cardinality(MyDocuments)
<1>1. Documents(n, "any") \in SUBSET MyDocuments
  BY SnapshotFacts DEF Documents, MyDocuments, StoreInv, StoreTypes
<1>2. IsFiniteSet(MyDocuments)
  BY MyDocumentsFacts
<1> QED
  BY <1>1, <1>2, FS_Subset, FS_CardinalityType

(* What a user is told about personalization is bounded by what became of  *)
(* the user's events: no "ready" unless their attempts can have written    *)
(* enough documents, and no "not ready" from a member that shows all of    *)
(* them once enough were published.                                        *)
THEOREM ReadinessBounded == ApiSpec => ReadinessAnswers
<1> DEFINE Step ==
      request.handler = "ready" /\ response'.status = 200
        => IF response'.ready
           THEN (MaxRetries + 1) * Cardinality(MyAccepted) >= Sufficient
           ELSE ~production \/ secondary = Len(collection)
                  => Cardinality(MyPublished) < Sufficient
<1>1. ContractInv /\ StoreInv /\ HttpInv /\ [ApiNext]_apiVars => [Step]_apiVars
  <2> SUFFICES ASSUME ContractInv, StoreInv, HttpInv, ApiNext,
                      request.handler = "ready", response'.status = 200
               PROVE  Step
    OBVIOUS
  <2>1. response.status = 0 /\ NoResponse.status = 0
    BY DEF HttpInv, NoResponse
  <2>2. request # NoRequest
    BY DEF NoRequest
  <2>3. Ready
    BY <2>1, <2>2 DEF ApiNext, QueueStep, ReplicaStep, IngestEvent, GetStats, Get, Query,
                      Listed, Aggregated, StatsAnswered, QueryFails, Answer, http
  <2>4. PICK n \in Snapshots :
           Answer([status |-> 200, ready |-> IsUserDoneSufficientQuestions(n)])
    BY <2>3 DEF Ready
  <2> DEFINE count == Cardinality(Documents(n, "any"))
  <2>5. response'.ready <=> count >= Sufficient
    BY <2>4 DEF Answer, IsUserDoneSufficientQuestions
  <2>6. /\ count \in Nat /\ count <= Cardinality(MyDocuments)
        /\ Cardinality(MyDocuments) \in Nat
    BY CountOnMember, MyDocumentsFacts, FS_CardinalityType
  <2>7. CASE response'.ready
    <3> DEFINE bound == (MaxRetries + 1) * Cardinality(MyAccepted)
    <3>1. bound \in Nat /\ Cardinality(MyDocuments) <= bound
      BY AcceptedCount, CountFromAbove, ContractAssumption
    <3>2. count >= Sufficient
      BY <2>5, <2>7
    <3> HIDE DEF bound, count
    <3>3. bound >= Sufficient
      BY <2>6, <3>1, <3>2, QueriesAssumption
    <3> QED
      BY <2>7, <3>3 DEF bound
  <2>8. CASE ~response'.ready
    <3>1. ASSUME ~production \/ secondary = Len(collection)
          PROVE  Cardinality(MyPublished) < Sufficient
      <4>1. n = Len(collection)
        BY <3>1, SnapshotFacts DEF StoreInv, StoreTypes
      <4>2. count = Cardinality(MyDocuments)
        BY <4>1 DEF MyDocuments
      <4> QED
        BY <2>5, <2>6, <2>8, <4>2, PublishedCount, CountFromBelow, QueriesAssumption
    <3> QED
      BY <2>8, <3>1
  <2> QED
    BY <2>7, <2>8
<1> QED
  BY <1>1, ApiKeeps, PTL DEF ApiSpec, ReadinessAnswers, MyAccepted, MyPublished
=============================================================================
