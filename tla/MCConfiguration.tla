--------------------------- MODULE MCConfiguration ---------------------------
(***************************************************************************)
(* The environments tried for Configuration: at most two numbers are set,  *)
(* to the boundaries of their ranges or next to them, with every URI and   *)
(* NODE_ENV; or the variables of Kafka are, each alone or in pairs that    *)
(* belong together.                                                        *)
(***************************************************************************)
EXTENDS Configuration

CONSTANT Boundaries   \* the numbers to try, beside -1 and 0

NoNumbers == [n \in Numbers |-> Unset]

Settings ==
    {[NoNumbers EXCEPT ![n] = i, ![m] = j] :
        n, m \in Numbers, i, j \in Boundaries \cup {-1, 0, Unset, NaN}}

NoKafka == [v \in {"CLIENT_ID", "GROUP_ID", "BROKERS", "LOG_LEVEL",
                   "CONNECTION_TIMEOUT", "REQUEST_TIMEOUT", "RETRY_DELAY",
                   "RETRY_ATTEMPTS", "SASL_USERNAME", "SASL_PASSWORD",
                   "SASL_MECHANISM", "SSL_ENABLED"} |-> Unset]

KafkaSettings ==
         {[NoKafka EXCEPT ![name] = "text"] : name \in {"CLIENT_ID", "GROUP_ID"}}
    \cup {[NoKafka EXCEPT !["LOG_LEVEL"] = level] : level \in {0, 1, 3}}
    \cup {[NoKafka EXCEPT !["RETRY_DELAY"] = 300, !["RETRY_ATTEMPTS"] = attempts] :
             attempts \in {Unset, 3}}
    \cup {[NoKafka EXCEPT !["CONNECTION_TIMEOUT"] = i, !["REQUEST_TIMEOUT"] = j] :
             i, j \in {Unset, NaN, 0}}
    \cup {[NoKafka EXCEPT !["SASL_USERNAME"] = name, !["SASL_PASSWORD"] = password,
                          !["SASL_MECHANISM"] = mechanism] :
             name, password \in {Unset, "", "text"}, mechanism \in {Unset, "scram"}}
    \cup {[NoKafka EXCEPT !["SSL_ENABLED"] = text, !["BROKERS"] = "kafka:9092"] :
             text \in {"true", "TRUE"}}

SomeEnvironments ==
         [numbers : Settings, URI : Schemes, NODE_ENV : NodeEnvs,
          PORT : {Unset}, kafka : {NoKafka}]
    \cup [numbers : {NoNumbers}, URI : Schemes, NODE_ENV : NodeEnvs,
          PORT : {Unset, 8080}, kafka : KafkaSettings]
=============================================================================
