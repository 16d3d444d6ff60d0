---------------------------- MODULE Configuration ----------------------------
(***************************************************************************)
(* From the environment variables to the settings the process runs with:   *)
(*   validate()               src/database/database-config.validation.ts   *)
(*   createMongooseOptions()  src/database/database-config.service.ts      *)
(*   createKafkaConfig()      src/kafka/kafka-config.service.ts            *)
(*   bootstrap()              src/main.ts                                  *)
(*                                                                         *)
(* A variable is Unset, or the integer parseInt() makes of its text, or    *)
(* NaN; of the texts only what the code asks of them is kept.  The bounds, *)
(* defaults and names are the code's; which environments there are is a    *)
(* constant.                                                               *)
(***************************************************************************)
EXTENDS Integers

CONSTANTS Environments, Unset, NaN

(* The variables that validate() checks and returns as numbers. *)
Timeouts == {"SERVER_SELECTION_TIMEOUT", "SOCKET_TIMEOUT", "CONNECT_TIMEOUT",
             "HEARTBEAT_FREQUENCY"}
Numbers  == {"APP_PORT", "MAX_POOL_SIZE", "MIN_POOL_SIZE"} \cup Timeouts

Default == [n \in Numbers |->
              CASE n = "APP_PORT"                 -> 3000
                [] n = "MAX_POOL_SIZE"            -> 10
                [] n = "MIN_POOL_SIZE"            -> 5
                [] n = "SERVER_SELECTION_TIMEOUT" -> 5000
                [] n = "SOCKET_TIMEOUT"           -> 45000
                [] OTHER                          -> 10000]

Lower == [n \in Numbers |-> IF n \in Timeouts THEN 1000 ELSE 1]

Upper == [n \in Numbers |->
            CASE n = "APP_PORT"       -> 65535
              [] n = "MAX_POOL_SIZE"  -> 100
              [] n = "MIN_POOL_SIZE"  -> 50
              [] n = "SOCKET_TIMEOUT" -> 120000
              [] OTHER                -> 60000]

Schemes  == {"mongodb://", "mongodb+srv://", "other", "none"}
NodeEnvs == {"development", "production", "test", "staging", "unknown", "none"}

ASSUME EnvironmentsAssumption ==
    /\ Unset \notin Int /\ NaN \notin Int
    /\ \A e \in Environments : /\ e.numbers \in [Numbers -> Int \cup {Unset, NaN}]
                               /\ e.URI \in Schemes /\ e.NODE_ENV \in NodeEnvs

VARIABLES env,          \* the environment
          settings,     \* what validate() returned, or the error it threw
          options,      \* the options of the mongoose connection
          kafkaConfig,  \* the configuration of the kafkajs clients
          port          \* what the server listens on

vars == <<env, settings, options, kafkaConfig, port>>

None   == [state |-> "none"]
Failed == [state |-> "failed"]

Init == /\ env \in Environments
        /\ settings = None
        /\ options = None /\ kafkaConfig = None /\ port = Unset

-----------------------------------------------------------------------------
(* parseInt(text) || default: 0 is falsy, like NaN. *)
ParseIntOrDefault(n) ==
    IF env.numbers[n] \in {Unset, NaN, 0} THEN Default[n] ELSE env.numbers[n]

InRange(n, value) == Lower[n] <= value /\ value <= Upper[n]

(* mutant: validate() does not compare the two pool sizes *)
NoErrorsSeparately(numbers) ==
    /\ env.NODE_ENV # "unknown"
    /\ env.URI \in {"mongodb://", "mongodb+srv://"}
    /\ \A n \in Numbers : InRange(n, numbers[n])

NoErrors(numbers) ==
    /\ env.NODE_ENV # "unknown"
    /\ env.URI \in {"mongodb://", "mongodb+srv://"}
    /\ \A n \in Numbers : InRange(n, numbers[n])
    /\ numbers["MIN_POOL_SIZE"] <= numbers["MAX_POOL_SIZE"]

(* ConfigModule.forRoot() calls it before any service is constructed. *)
Validate ==
    /\ settings = None
    /\ LET numbers == [n \in Numbers |-> ParseIntOrDefault(n)]
       IN settings' = IF NoErrors(numbers)
                      THEN [state |-> "valid", numbers |-> numbers]
                      ELSE Failed
    /\ UNCHANGED <<env, options, kafkaConfig, port>>

Validated == settings # None /\ settings # Failed

-----------------------------------------------------------------------------
(* ConfigService hands out what validate() has returned; so parseInt() and  *)
(* the defaults of createMongooseOptions() never matter.                    *)
Option(n) == settings.numbers[n]

IsDevelopment == env.NODE_ENV \in {"development", "none"}

CreateMongooseOptions ==
    /\ Validated
    /\ options = None
    /\ options' = [state       |-> "created",
                   maxPoolSize |-> Option("MAX_POOL_SIZE"),
                   minPoolSize |-> Option("MIN_POOL_SIZE"),
                   serverSelectionTimeoutMS |-> Option("SERVER_SELECTION_TIMEOUT"),
                   socketTimeoutMS      |-> Option("SOCKET_TIMEOUT"),
                   connectTimeoutMS     |-> Option("CONNECT_TIMEOUT"),
                   heartbeatFrequencyMS |-> Option("HEARTBEAT_FREQUENCY"),
                   readPreference |-> IF IsDevelopment THEN "primary"
                                                       ELSE "secondaryPreferred",
                   w              |-> IF IsDevelopment THEN "default" ELSE "majority"]
    /\ UNCHANGED <<env, settings, kafkaConfig, port>>

-----------------------------------------------------------------------------
(* Nothing validates the variables of Kafka: a time-out may be NaN. *)
Get(variable, default) ==
    IF env.kafka[variable] = Unset THEN default ELSE env.kafka[variable]

(* levelMap[level] || INFO, with NOTHING = 0, which is falsy. *)
INFO == 4
LogLevel == LET level == Get("LOG_LEVEL", INFO)
            IN IF level \in {1, 2, 4, 5} THEN level ELSE INFO

(* getRetryConfig() takes both of its times from KAFKA_RETRY_DELAY. *)
RetryConfig == [maxRetryTime     |-> Get("RETRY_DELAY", 30000),
                initialRetryTime |-> Get("RETRY_DELAY", 300),
                retries          |-> Get("RETRY_ATTEMPTS", 8)]

(* An empty text is falsy, like none. *)
IsSaslEnabled == /\ Get("SASL_USERNAME", "") # ""
                 /\ Get("SASL_PASSWORD", "") # ""

CreateKafkaConfig ==
    /\ Validated
    /\ kafkaConfig = None
    /\ kafkaConfig' = [state    |-> "created",
                       clientId |-> Get("CLIENT_ID", "progress-service"),
                       groupId  |-> Get("GROUP_ID", "progress-service-group"),
                       brokers  |-> Get("BROKERS", "localhost:9092"),
                       logLevel |-> LogLevel,
                       connectionTimeout |-> Get("CONNECTION_TIMEOUT", 30000),
                       requestTimeout    |-> Get("REQUEST_TIMEOUT", 30000),
                       retry    |-> RetryConfig,
                       sasl     |-> IF IsSaslEnabled THEN Get("SASL_MECHANISM", "plain")
                                                     ELSE "none",
                       ssl      |-> Get("SSL_ENABLED", "false") = "true"]
    /\ UNCHANGED <<env, settings, options, port>>

-----------------------------------------------------------------------------
(* bootstrap() listens on PORT, whatever validate() says of APP_PORT. *)
Listen == /\ options # None /\ kafkaConfig # None
          /\ port = Unset
          /\ port' = IF env.PORT = Unset THEN 3000 ELSE env.PORT
          /\ UNCHANGED <<env, settings, options, kafkaConfig>>

Next == Validate \/ CreateMongooseOptions \/ CreateKafkaConfig \/ Listen

Spec == Init /\ [][Next]_vars

-----------------------------------------------------------------------------
(* No environment gets the process connected with a pool or with time-outs *)
(* outside the documented ranges, or with a pool whose minimum is above    *)
(* its maximum, be the numbers set, defaulted or not numbers at all.       *)
StartedWithinBounds ==
    options # None =>
       /\ 1 <= options.minPoolSize /\ options.minPoolSize <= 50
       /\ options.maxPoolSize <= 100
       /\ options.minPoolSize <= options.maxPoolSize
       /\ 1000 <= options.socketTimeoutMS /\ options.socketTimeoutMS <= 120000
       /\ \A time \in {options.serverSelectionTimeoutMS, options.connectTimeoutMS,
                       options.heartbeatFrequencyMS} : 1000 <= time /\ time <= 60000
=============================================================================
