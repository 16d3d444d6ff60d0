---------------------------- MODULE Health_proofs ----------------------------
(***************************************************************************)
(* Proofs about Health, for any sets of concurrent requests and of callers *)
(* of waitForConnection().                                                 *)
(***************************************************************************)
EXTENDS Health, TLAPS

(* Every variable keeps its type. *)
LEMMA TypeStep == TypeOK /\ [Next]_vars => TypeOK'
<1> SUFFICES ASSUME TypeOK, [Next]_vars PROVE TypeOK'
  OBVIOUS
<1> USE DEF TypeOK, connection, requests, waiting
<1>1. ASSUME NEW r \in Requests, GetHealth(r) PROVE TypeOK'
  BY <1>1 DEF GetHealth, Respond, IsHealthy, Answers
<1>2. ASSUME NEW r \in Requests, Check(r) PROVE TypeOK'
  BY <1>2 DEF Check, PingAnswered, PingFails, StatsRead, Respond, IsHealthy, Answers
<1>3. ASSUME NEW w \in Waiters, WaitForConnection(w) PROVE TypeOK'
  BY <1>3 DEF WaitForConnection
<1>4. ASSUME NEW w \in Waiters, Timeout(w) PROVE TypeOK'
  BY <1>4 DEF Timeout, Answered
<1>5. CASE ConnectionChanges
  BY <1>5 DEF ConnectionChanges, Connecting, Connected, ConnectError, Disconnected,
     OnConnected, OnError, Answered, ReadyStates
<1>6. CASE KafkaChanges
  BY <1>6 DEF KafkaChanges
<1>7. CASE UNCHANGED vars
  BY <1>7 DEF vars
<1> QED
  BY <1>1, <1>2, <1>3, <1>4, <1>5, <1>6, <1>7 DEF Next

(* Every variable of the health check has its type, whatever order the     *)
(* connection's events, the time-outs and the requests come in.            *)
THEOREM TypeCorrect == Spec => []TypeOK
<1>1. Init => TypeOK
  BY DEF Init, TypeOK, ReadyStates
<1> QED
  BY <1>1, TypeStep, PTL DEF Spec

-----------------------------------------------------------------------------
(* A waiter whose timer is pending is listening for both events: an event  *)
(* that answers it also clears its timer, and there is no other way for    *)
(* waits and timers to come apart.                                         *)
WaitInv == /\ TimersMatchWaits
           /\ timers \subseteq onConnected \cap onError

(* Steps that are not about the wait leave WaitInv alone. *)
LEMMA WaitingKept == WaitInv /\ UNCHANGED waiting => WaitInv'
  BY DEF WaitInv, TimersMatchWaits, waiting

LEMMA WaitStep == TypeOK /\ WaitInv /\ [Next]_vars => WaitInv'
<1> SUFFICES ASSUME TypeOK, WaitInv, [Next]_vars PROVE WaitInv'
  OBVIOUS
<1>1. ASSUME NEW r \in Requests, GetHealth(r) \/ Check(r) PROVE WaitInv'
  BY <1>1, WaitingKept
  DEF GetHealth, Check, PingAnswered, PingFails, StatsRead
<1>2. ASSUME NEW w \in Waiters, WaitForConnection(w) PROVE WaitInv'
  BY <1>2 DEF WaitForConnection, WaitInv, TimersMatchWaits, TypeOK
<1>3. ASSUME NEW w \in Waiters, Timeout(w) PROVE WaitInv'
  BY <1>3 DEF Timeout, Answered, WaitInv, TimersMatchWaits, TypeOK
<1>4. CASE Connecting \/ Disconnected
  BY <1>4, WaitingKept DEF Connecting, Disconnected
<1>5. CASE Connected
  BY <1>5 DEF Connected, OnConnected, Answered, WaitInv, TimersMatchWaits, TypeOK
<1>6. CASE ConnectError
  BY <1>6 DEF ConnectError, OnError, Answered, WaitInv, TimersMatchWaits, TypeOK
<1>7. CASE KafkaChanges \/ UNCHANGED vars
  BY <1>7, WaitingKept DEF KafkaChanges, vars
<1> QED
  BY <1>1, <1>2, <1>3, <1>4, <1>5, <1>6, <1>7 DEF Next, ConnectionChanges

(* A timer is pending for exactly those callers that wait, however their   *)
(* time-outs race with 'connected' and 'error' and with listeners that     *)
(* earlier calls have left registered.                                     *)
THEOREM TimersOfTheWaiting == Spec => []TimersMatchWaits
<1>1. Init => WaitInv
  BY DEF Init, WaitInv, TimersMatchWaits
<1>2. WaitInv => TimersMatchWaits
  BY DEF WaitInv
<1> QED
  BY <1>1, <1>2, TypeCorrect, WaitStep, PTL DEF Spec

-----------------------------------------------------------------------------
(* A step of the connection answers nobody but those that wait. *)
LEMMA AnsweredStep ==
  ASSUME NEW ws, NEW answer, Answered(ws, answer), NEW w \in Waiters, waits'[w] # waits[w]
  PROVE  waits[w] = "waiting" /\ waits'[w] = answer
  BY DEF Answered

LEMMA TrueStep ==
  ASSUME TypeOK, Next, NEW w \in Waiters, waits'[w] # waits[w]
  PROVE  /\ waits[w] \in {"uncalled", "waiting"}
         /\ waits'[w] = "true" => readyState' = "connected"
<1>1. ASSUME NEW v \in Waiters, WaitForConnection(v)
      PROVE  /\ waits[w] = "uncalled"
             /\ waits'[w] = "true" => readyState' = "connected"
  BY <1>1 DEF WaitForConnection, TypeOK, connection
<1>2. ASSUME NEW v \in Waiters, Timeout(v)
      PROVE  waits[w] = "waiting" /\ waits'[w] = "false"
  BY <1>2, AnsweredStep DEF Timeout
<1>3. CASE ConnectionChanges
  <2>1. CASE Connected
    BY <2>1, AnsweredStep DEF Connected, OnConnected
  <2>2. CASE ConnectError
    BY <2>2, AnsweredStep DEF ConnectError, OnError
  <2> QED
    BY <1>3, <2>1, <2>2 DEF ConnectionChanges, Connecting, Disconnected, waiting
<1>4. ASSUME NEW r \in Requests, GetHealth(r) \/ Check(r) PROVE waits' = waits
  BY <1>4 DEF GetHealth, Check, PingAnswered, PingFails, StatsRead, waiting
<1>5. CASE KafkaChanges
  BY <1>5 DEF KafkaChanges, waiting
<1> QED
  BY <1>1, <1>2, <1>3, <1>4, <1>5 DEF Next

(* waitForConnection() returns true only at a moment when the connection   *)
(* is there, and an event that comes late changes no answer.               *)
THEOREM TrueWhileConnected == Spec => TrueMeansConnected
<1>1. TypeOK /\ [Next]_vars
        => [\A w \in Waiters : waits'[w] # waits[w]
              => /\ waits[w] \in {"uncalled", "waiting"}
                 /\ waits'[w] = "true" => readyState' = "connected"]_vars
  BY TrueStep
<1> QED
  BY <1>1, TypeCorrect, PTL DEF Spec, TrueMeansConnected

-----------------------------------------------------------------------------
(* The statistics are awaited only by a request whose ping was answered. *)
StatsAfterPing == \A r \in Requests : checks[r] = "stats" => r \in pinged

LEMMA StatsStep == TypeOK /\ StatsAfterPing /\ [Next]_vars => StatsAfterPing'
<1> SUFFICES ASSUME TypeOK, StatsAfterPing, [Next]_vars PROVE StatsAfterPing'
  OBVIOUS
<1> USE DEF TypeOK, StatsAfterPing
<1>1. ASSUME NEW r \in Requests, GetHealth(r) PROVE StatsAfterPing'
  BY <1>1 DEF GetHealth, Respond
<1>2. ASSUME NEW r \in Requests, Check(r) PROVE StatsAfterPing'
  BY <1>2 DEF Check, PingAnswered, PingFails, StatsRead, Respond
<1>3. ASSUME NEW w \in Waiters, WaitForConnection(w) \/ Timeout(w) PROVE StatsAfterPing'
  BY <1>3 DEF WaitForConnection, Timeout, requests
<1>4. CASE ConnectionChanges \/ KafkaChanges \/ UNCHANGED vars
  BY <1>4 DEF ConnectionChanges, KafkaChanges, vars, requests
<1> QED
  BY <1>1, <1>2, <1>3, <1>4 DEF Next

(* An answer that calls the database healthy rests on a ping. *)
LEMMA HealthyStep ==
  ASSUME TypeOK, StatsAfterPing, Next,
         NEW r \in Requests, answers'[r] # answers[r], answers'[r].database = "healthy"
  PROVE  r \in pinged
<1> USE DEF TypeOK
<1>1. ASSUME NEW q \in Requests, GetHealth(q) PROVE r \in pinged
  BY <1>1 DEF GetHealth, Respond
<1>2. ASSUME NEW q \in Requests, Check(q) PROVE r \in pinged
  BY <1>2 DEF Check, PingAnswered, PingFails, StatsRead, Respond, StatsAfterPing
<1>3. ASSUME NEW w \in Waiters, WaitForConnection(w) \/ Timeout(w) PROVE FALSE
  BY <1>3 DEF WaitForConnection, Timeout, requests
<1>4. CASE ConnectionChanges \/ KafkaChanges
  BY <1>4 DEF ConnectionChanges, KafkaChanges, requests
<1> QED
  BY <1>1, <1>2, <1>3, <1>4 DEF Next

(* "healthy" is never answered on the strength of readyState alone, nor of *)
(* the ping of another request.                                            *)
THEOREM HealthyRestsOnPing == Spec => HealthyWasPinged
<1>1. Init => StatsAfterPing
  BY DEF Init, StatsAfterPing
<1>2. TypeOK /\ StatsAfterPing /\ [Next]_vars
        => [\A r \in Requests : answers'[r] # answers[r] /\ answers'[r].database = "healthy"
                                  => r \in pinged]_vars
  BY HealthyStep
<1> QED
  BY <1>1, <1>2, TypeCorrect, StatsStep, PTL DEF Spec, HealthyWasPinged
=============================================================================
