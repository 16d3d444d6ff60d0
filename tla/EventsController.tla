-------------------------- MODULE EventsController --------------------------
(***************************************************************************)
(* The HTTP interface: EventsController (src/events/events.controller.ts)  *)
(* behind the global validation pipe (src/common/validation) and the       *)
(* exception filter (src/common/filters), asked by one client after        *)
(* another while events are delivered.                                     *)
(*                                                                         *)
(* Requests share nothing but the queue and the database, and only POST    *)
(* changes anything, in one step: one request at a time shows all there is.*)
(***************************************************************************)
EXTENDS EventQueries

CONSTANT NaN   \* what Number() makes of a text that is none

VARIABLES request,    \* the GET request whose handler awaits the database
          response    \* the last answer, until the next request

http    == <<request, response>>
apiVars == <<contractVars, storeVars, http>>

NoRequest  == [handler |-> "none"]
NoResponse == [status |-> 0]

ApiInit == StoreInit /\ request = NoRequest /\ response = NoResponse

Answer(r) == request' = NoRequest /\ response' = r

-----------------------------------------------------------------------------
(* The queue goes on.  With the process its open requests end. *)
QueueStep == \/ Deliver /\ UNCHANGED http
             \/ ProcessEnds /\ Answer(NoResponse)

ReplicaStep == Replicate /\ UNCHANGED http

-----------------------------------------------------------------------------
(* POST /events.  The pipe converts the body to the DTO before it checks it: *)
(* a timestamp becomes a Date, which @IsDateString() then refuses, whatever  *)
(* its text.                                                                 *)
Bodies == [eventType : {"known", "unknown"}, eventData : {"object", "other"},
           metadata : {"none", "object", "other"}, timestamp : {"none", "given"}]

Valid(body) == /\ body.eventType = "known"
               /\ body.eventData = "object"
               /\ body.metadata # "other"
               /\ body.timestamp = "none"

Code(body, hasUserId) == IF Valid(body) /\ hasUserId THEN 202 ELSE 400

IngestEvent ==
    /\ request = NoRequest
    /\ \E code \in {Code(body, hasUserId) : body \in Bodies, hasUserId \in BOOLEAN} :
          /\ \/ code = 202 /\ \E e \in Events : Accept(e)
             \/ code = 400 /\ UNCHANGED contractVars
          /\ response' = [status |-> code]
    /\ UNCHANGED <<storeVars, request>>

-----------------------------------------------------------------------------
(* GET requests: Express takes the first route in the order of declaration. *)
Routes == << [path |-> <<"stats">>,                handler |-> "stats"],
             [path |-> <<"user", ":userId">>,      handler |-> "list"],
             [path |-> <<"user", ":userId", "is-personalization-ready">>,
                                                   handler |-> "ready"],
             [path |-> <<"user", "is-personalization-ready">>,
                                                   handler |-> "ready"],
             [path |-> <<"user", ":userId", "stats">>,
                                                   handler |-> "userStats"] >>

Paths == { <<"stats">>, <<"user", "me">>, <<"user", "is-personalization-ready">>,
           <<"user", "me", "is-personalization-ready">>, <<"user", "me", "stats">> }

Matches(route, path) ==
    /\ Len(route.path) = Len(path)
    /\ \A i \in 1..Len(path) : route.path[i] \in {":userId", path[i]}

Handler(path) == Routes[SelectInSeq(Routes, LAMBDA route : Matches(route, path))].handler

(* getStats() answers at once, with EventQueue's getQueueStats(). *)
GetStats == /\ request = NoRequest
            /\ \E path \in Paths : Handler(path) = "stats"
            /\ Answer([status |-> 200])
            /\ UNCHANGED <<contractVars, storeVars>>

(* The other handlers up to their first await.  The pipe converts a limit   *)
(* to a number, NaN for a text; without a limit there is the default.  What *)
(* MongoDB makes of NaN is not known: it refuses it, which QueryFails       *)
(* covers, or ignores it like 0.                                            *)
Limits == {PageSize, 0, -1, NaN}
ToNumber(limit) == IF limit = NaN THEN 0 ELSE Limit(limit)

Asked(handler, user) ==
    CASE handler = "ready"     -> [handler : {handler}]
      [] handler = "userStats" -> [handler : {handler}, type : Types \ {"any"}]
      [] handler = "list"      -> [handler : {handler}, user : {user},
                                   type  : {"any", "QUIZ_ATTEMPT"},
                                   limit : {ToNumber(limit) : limit \in Limits}]

Get == /\ request = NoRequest
       /\ \E path \in Paths : /\ Handler(path) # "stats"
                              /\ request' \in Asked(Handler(path), path[2])
       /\ response' = NoResponse
       /\ UNCHANGED <<contractVars, storeVars>>

-----------------------------------------------------------------------------
(* The database answers. *)
Ready == /\ request.handler = "ready"
         /\ \E n \in Snapshots :
               Answer([status |-> 200, ready |-> IsUserDoneSufficientQuestions(n)])

(* Nobody who is called "is-personalization-ready" has any events. *)
Listed == /\ request.handler = "list"
          /\ \E n \in Snapshots :
                LET found == IF request.user = "me" THEN Documents(n, request.type) ELSE {}
                IN \E page \in Pages(found, request.limit) :
                      Answer([status |-> 200, events |-> Cardinality(page)])

(* getUserEventStats() awaits two queries, one after the other. *)
Aggregated ==
    /\ request.handler = "userStats"
    /\ \E n \in Snapshots :
          request' = [handler |-> "userStatsPage", type |-> request.type,
                      conceptStats |-> ConceptStats(n, request.type)]
    /\ UNCHANGED response

StatsAnswered ==
    /\ request.handler = "userStatsPage"
    /\ \E n \in Snapshots :
          \E page \in Pages(Documents(n, request.type), PageSize) :
             Answer([status |-> 200, conceptStats |-> request.conceptStats,
                     latestEvents |-> page])

FilterSilent ==   \* mutant: the filter logs the exception and sends nothing
    /\ request.handler \notin {"none", "hung"}
    /\ request' = [handler |-> "hung"]
    /\ UNCHANGED response

(* A query that rejects: the exception filter makes it a 500. *)
QueryFails == request # NoRequest /\ Answer([status |-> 500])

Query == /\ Ready \/ Listed \/ Aggregated \/ StatsAnswered \/ QueryFails
         /\ UNCHANGED <<contractVars, storeVars>>

-----------------------------------------------------------------------------
ApiNext == \/ QueueStep \/ ReplicaStep
           \/ IngestEvent \/ GetStats \/ Get \/ Query

ApiSpec == ApiInit /\ [][ApiNext]_apiVars

(* The driver's calls settle, successfully or not, within its time-outs; a  *)
(* replica set member that is behind catches up.                            *)
FairApiSpec == ApiSpec /\ WF_apiVars(Query) /\ WF_apiVars(ReplicaStep)

-----------------------------------------------------------------------------
(* Every variable has its type. *)
ApiTypeOK == /\ collection \in Seq(Events)
             /\ secondary \in 0..Len(collection)
             /\ production \in BOOLEAN
             /\ request.handler \in {"none", "ready", "list", "userStats", "userStatsPage"}
             /\ response.status \in {0, 200, 202, 400, 500}

(* The count behind the readiness of a user is at least the number of the   *)
(* user's events that were published, and at most what all attempts of all  *)
(* the user's accepted events can have written.                             *)
CountBounds ==
    LET count == Cardinality(Documents(Len(collection), "any"))
    IN /\ count >= Cardinality({e \in Mine : status[e] = "published"})
       /\ count <= (MaxRetries + 1) * Cardinality({e \in Mine : status[e] # "absent"})

(* A user is told to be ready only if all attempts of the user's accepted   *)
(* events can have written so many documents; and told not to be, by a      *)
(* member that shows all documents, only while fewer than so many of the    *)
(* user's events were published.                                            *)
ReadinessAnswers ==
    [][request.handler = "ready" /\ response'.status = 200
         => IF response'.ready
            THEN (MaxRetries + 1) * Cardinality({e \in Mine : status[e] # "absent"})
                   >= Sufficient
            ELSE ~production \/ secondary = Len(collection)
                   => Cardinality({e \in Mine : status[e] = "published"}) < Sufficient]_apiVars

(* In production a user who was ready may be not ready the next time, as    *)
(* any member may be asked; but once enough of a user's events were         *)
(* published, all answers are "ready" from some time on.                    *)
ReadyForGood ==
    Cardinality({e \in Mine : status[e] = "published"}) >= Sufficient
      ~> [](\A n \in Snapshots : IsUserDoneSufficientQuestions(n))

(* The totals and the page of one answer agree although events are written  *)
(* and retried between the two queries: a page that is not full has every   *)
(* document the totals count, but for those that, in production, not all    *)
(* members show yet when the page is read.                                  *)
NotOnAllMembers == IF production THEN secondary+1..Len(collection) ELSE {}

StatsWithinPage ==
    [][/\ request.handler = "userStatsPage" /\ response'.status = 200
       /\ Cardinality(response'.latestEvents) < PageSize
       => response'.conceptStats \ response'.latestEvents \subseteq NotOnAllMembers]_apiVars

(* Every request is answered, unless the process ends.                      *)
EveryRequestAnswered == request # NoRequest ~> request = NoRequest

(* latestEvents, sorted by timestamp, newest first: no document on the      *)
(* page is older than one that was left out.                                *)
LatestAreLatest ==
    [][request.handler = "userStatsPage" /\ response'.status = 200
         => \A d \in response'.latestEvents,
               other \in Documents(Len(collection), request.type) \ response'.latestEvents :
               d > other]_apiVars
=============================================================================
