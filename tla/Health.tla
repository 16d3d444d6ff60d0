------------------------------- MODULE Health -------------------------------
(***************************************************************************)
(* GET /health (src/health/health.service.ts), which asks                  *)
(* DatabaseHealthService and KafkaHealthService, and the wait for the      *)
(* database connection (src/database/database-health.service.ts).          *)
(*                                                                         *)
(* The connection belongs to mongoose: it changes state at any time, also  *)
(* between the awaits of a check, and emits 'connected' and 'error'.  The  *)
(* Kafka flags are those of KafkaService.                                  *)
(***************************************************************************)
EXTENDS FiniteSets

CONSTANTS Requests,   \* concurrent requests of /health
          Waiters     \* calls of waitForConnection()

VARIABLES
    readyState,     \* of the mongoose connection
    producerReady, consumerReady,   \* flags of KafkaService
    checks,         \* per request, what its checkHealth() awaits
    pinged,         \* requests whose ping the server has answered
    answers,        \* per request, the last response
    waits,          \* per waiter: not called, waiting, or what it was answered
    timers,         \* waiters whose setTimeout() is pending
    onConnected, onError   \* waiters whose listeners are registered

connection == <<readyState, producerReady, consumerReady>>
requests   == <<checks, pinged, answers>>
waiting    == <<waits, timers, onConnected, onError>>
vars       == <<connection, requests, waiting>>

ReadyStates == {"disconnected", "connecting", "connected", "disconnecting"}
NoAnswer    == [status |-> "none"]
Answers     == [status : {"ok"}, database : {"healthy", "unhealthy"},
                kafka : {"healthy", "degraded"}]

(* MongooseModule connects before Nest serves any request. *)
Init == /\ readyState = "connected"
        /\ producerReady = FALSE /\ consumerReady = FALSE
        /\ checks = [r \in Requests |-> "none"]
        /\ pinged = {}
        /\ answers = [r \in Requests |-> NoAnswer]
        /\ waits = [w \in Waiters |-> "uncalled"]
        /\ timers = {} /\ onConnected = {} /\ onError = {}

-----------------------------------------------------------------------------
(* mutant: a Kafka client that is not ready makes the answer unhealthy *)
IsUnhealthy == IF producerReady /\ consumerReady THEN "healthy" ELSE "unhealthy"

(* KafkaHealthService.isHealthy(), and the response of getHealth(): the     *)
(* database has been checked before, the Kafka flags are read now.  Its     *)
(* catch is never reached: reading them throws nothing.                     *)
IsHealthy == IF producerReady /\ consumerReady THEN "healthy" ELSE "degraded"

Respond(r, database) ==
    /\ checks' = [checks EXCEPT ![r] = "none"]
    /\ answers' = [answers EXCEPT ![r] = [status   |-> "ok",
                                          database |-> database,
                                          kafka    |-> IsHealthy]]

(* checkHealth() reads readyState and returns, or pings: mongoose has a db  *)
(* as soon as it is connected.                                              *)
GetHealthUnpinged(r) ==      \* mutant: connected is taken for healthy
    /\ checks[r] = "none"
    /\ pinged' = pinged \ {r}
    /\ \/ /\ readyState # "connected"
          /\ Respond(r, "unhealthy")
       \/ /\ readyState = "connected"
          /\ checks' = [checks EXCEPT ![r] = "stats"]
          /\ UNCHANGED answers
    /\ UNCHANGED <<connection, waiting>>

GetHealth(r) ==
    /\ checks[r] = "none"
    /\ pinged' = pinged \ {r}
    /\ \/ /\ readyState # "connected"
          /\ Respond(r, "unhealthy")
       \/ /\ readyState = "connected"
          /\ checks' = [checks EXCEPT ![r] = "ping"]
          /\ UNCHANGED answers
    /\ UNCHANGED <<connection, waiting>>

(* The answer may have been under way when the connection went. *)
PingAnswered(r) == /\ checks[r] = "ping"
                   /\ pinged' = pinged \cup {r}
                   /\ checks' = [checks EXCEPT ![r] = "stats"]
                   /\ UNCHANGED <<answers, connection, waiting>>

PingFails(r) == /\ checks[r] = "ping"
                /\ Respond(r, "unhealthy")
                /\ UNCHANGED <<pinged, connection, waiting>>

StatsAwaited(r) == /\ checks[r] = "stats"   \* mutant: no error is caught
                   /\ readyState = "connected"
                   /\ Respond(r, "healthy")
                   /\ UNCHANGED <<pinged, connection, waiting>>

(* getDatabaseStats() turns its own errors into zeros. *)
StatsRead(r) == /\ checks[r] = "stats"
                /\ Respond(r, "healthy")
                /\ UNCHANGED <<pinged, connection, waiting>>

-----------------------------------------------------------------------------
(* waitForConnection(): three ways to be answered, the first one counts;   *)
(* a listener stays registered until its event is emitted.                 *)

Answered(ws, answer) == waits' = [w \in Waiters |->
    IF w \in ws /\ waits[w] = "waiting" THEN answer ELSE waits[w]]

WaitForConnecting(w) ==   \* mutant: anything but disconnected will do
    /\ waits[w] = "uncalled"
    /\ \/ /\ readyState # "disconnected"
          /\ waits' = [waits EXCEPT ![w] = "true"]
          /\ UNCHANGED <<timers, onConnected, onError>>
       \/ /\ readyState = "disconnected"
          /\ waits' = [waits EXCEPT ![w] = "waiting"]
          /\ timers' = timers \cup {w}
          /\ onConnected' = onConnected \cup {w}
          /\ onError' = onError \cup {w}
    /\ UNCHANGED <<connection, requests>>

WaitForConnection(w) ==
    /\ waits[w] = "uncalled"
    /\ \/ /\ readyState = "connected"
          /\ waits' = [waits EXCEPT ![w] = "true"]
          /\ UNCHANGED <<timers, onConnected, onError>>
       \/ /\ readyState # "connected"
          /\ waits' = [waits EXCEPT ![w] = "waiting"]
          /\ timers' = timers \cup {w}
          /\ onConnected' = onConnected \cup {w}
          /\ onError' = onError \cup {w}
    /\ UNCHANGED <<connection, requests>>

Timeout(w) == /\ w \in timers
              /\ timers' = timers \ {w}
              /\ Answered({w}, "false")
              /\ UNCHANGED <<onConnected, onError, connection, requests>>

(* connection.once('connected', ...) and connection.once('error', ...) *)
OnConnected == /\ timers' = timers \ onConnected
               /\ Answered(onConnected, "true")
               /\ onConnected' = {}
               /\ UNCHANGED onError

TimerKept == /\ Answered(onError, "false")   \* mutant: clearTimeout() forgotten
             /\ onError' = {}
             /\ UNCHANGED <<timers, onConnected>>

OnError == /\ timers' = timers \ onError
           /\ Answered(onError, "false")
           /\ onError' = {}
           /\ UNCHANGED onConnected

-----------------------------------------------------------------------------
(* mongoose *)
Connecting == /\ readyState = "disconnected"
              /\ readyState' = "connecting"
              /\ UNCHANGED waiting

Connected == /\ readyState \in {"connecting", "disconnected"}
             /\ readyState' = "connected"
             /\ OnConnected

ConnectError == /\ readyState = "connecting"
                /\ readyState' = "disconnected"
                /\ OnError

Disconnected == \/ /\ readyState \in {"connected", "disconnecting"}
                   /\ readyState' = "disconnected"
                   /\ UNCHANGED waiting
                \/ /\ readyState = "connected"
                   /\ readyState' = "disconnecting"
                   /\ UNCHANGED waiting

ConnectionChanges == /\ Connecting \/ Connected \/ ConnectError \/ Disconnected
                     /\ UNCHANGED <<producerReady, consumerReady, requests>>

KafkaChanges == /\ producerReady' \in BOOLEAN /\ consumerReady' \in BOOLEAN
                /\ UNCHANGED <<readyState, requests, waiting>>

Check(r) == PingAnswered(r) \/ PingFails(r) \/ StatsRead(r)

Next == \/ \E r \in Requests : GetHealth(r) \/ Check(r)
        \/ \E w \in Waiters : WaitForConnection(w) \/ Timeout(w)
        \/ ConnectionChanges \/ KafkaChanges

Spec == Init /\ [][Next]_vars

(* Commands to MongoDB have a socket time-out; timers fire. *)
Fairness == /\ \A r \in Requests : WF_vars(Check(r))
            /\ \A w \in Waiters : WF_vars(Timeout(w))

FairSpec == Spec /\ Fairness

-----------------------------------------------------------------------------
(* Every variable has its type. *)
TypeOK == /\ readyState \in ReadyStates
          /\ producerReady \in BOOLEAN /\ consumerReady \in BOOLEAN
          /\ checks \in [Requests -> {"none", "ping", "stats"}]
          /\ pinged \subseteq Requests
          /\ answers \in [Requests -> Answers \cup {NoAnswer}]
          /\ waits \in [Waiters -> {"uncalled", "waiting", "true", "false"}]
          /\ timers \subseteq Waiters
          /\ onConnected \subseteq Waiters /\ onError \subseteq Waiters

(* A database is called healthy only after it has answered a ping of the   *)
(* same request, however the connection changed since readyState was read. *)
HealthyWasPinged ==
    [][\A r \in Requests : answers'[r] # answers[r] /\ answers'[r].database = "healthy"
                              => r \in pinged]_vars

(* An answered wait has no timer pending, which would keep the process     *)
(* from ending, and a call that waits has one; so a listener or a timer    *)
(* that is late finds its caller answered.                                 *)
TimersMatchWaits == \A w \in Waiters : w \in timers <=> waits[w] = "waiting"

(* A caller is told "true" only at a moment when the connection is there,  *)
(* and no late event changes what it has been told.                        *)
TrueMeansConnected ==
    [][\A w \in Waiters : waits'[w] # waits[w]
          => /\ waits[w] \in {"uncalled", "waiting"}
             /\ waits'[w] = "true" => readyState' = "connected"]_vars

(* Every request and every waiter gets its answer, also when the           *)
(* connection comes and goes while they wait.                              *)
EveryCallEnds == /\ \A r \in Requests : checks[r] # "none" ~> checks[r] = "none"
                 /\ \A w \in Waiters : waits[w] = "waiting" ~> waits[w] # "waiting"
=============================================================================
