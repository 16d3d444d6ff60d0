------------------------ MODULE Configuration_proofs ------------------------
(***************************************************************************)
(* Proofs about Configuration, for every environment: TLC tries the        *)
(* numbers next to the bounds, the theorem speaks of all integers.         *)
(***************************************************************************)
EXTENDS Configuration, TLAPS

(* What validate() returns has passed its checks. *)
Checked ==
    settings \notin {None, Failed} =>
       /\ settings.numbers \in [Numbers -> Int]
       /\ \A n \in Numbers : InRange(n, settings.numbers[n])
       /\ settings.numbers["MIN_POOL_SIZE"] <= settings.numbers["MAX_POOL_SIZE"]

EnvTyped == env.numbers \in [Numbers -> Int \cup {Unset, NaN}]

ConfigInv == EnvTyped /\ Checked /\ StartedWithinBounds

(* Number parsing always yields an integer: NaN and 0 become the default. *)
LEMMA ParsedIsInteger ==
    ASSUME EnvTyped, NEW n \in Numbers
    PROVE  ParseIntOrDefault(n) \in Int
<1>1. env.numbers[n] \in Int \cup {Unset, NaN} /\ Default[n] \in Int
  BY DEF EnvTyped, Default
<1> QED
  BY <1>1 DEF ParseIntOrDefault

LEMMA ValidateStep == ConfigInv /\ Validate => ConfigInv'
<1> SUFFICES ASSUME ConfigInv, Validate PROVE ConfigInv'
  OBVIOUS
<1> DEFINE numbers == [n \in Numbers |-> ParseIntOrDefault(n)]
<1>1. EnvTyped' /\ StartedWithinBounds'
  BY DEF ConfigInv, Validate, EnvTyped, StartedWithinBounds
<1>2. Checked'
  <2> SUFFICES ASSUME settings' \notin {None, Failed} PROVE Checked'
    BY DEF Checked
  <2>1. /\ NoErrors(numbers)
        /\ settings' = [state |-> "valid", numbers |-> numbers]
    BY DEF Validate
  <2>2. numbers \in [Numbers -> Int]
    BY ParsedIsInteger DEF ConfigInv
  <2> HIDE DEF numbers
  <2> QED
    BY <2>1, <2>2 DEF Checked, NoErrors
<1> QED
  BY <1>1, <1>2 DEF ConfigInv

LEMMA CreateOptionsStep == ConfigInv /\ CreateMongooseOptions => ConfigInv'
<1> SUFFICES ASSUME ConfigInv, CreateMongooseOptions PROVE ConfigInv'
  OBVIOUS
<1>1. EnvTyped' /\ Checked'
  BY DEF ConfigInv, CreateMongooseOptions, EnvTyped, Checked
<1>2. StartedWithinBounds'
  <2>1. /\ settings.numbers \in [Numbers -> Int]
        /\ \A n \in Numbers : InRange(n, settings.numbers[n])
        /\ settings.numbers["MIN_POOL_SIZE"] <= settings.numbers["MAX_POOL_SIZE"]
    BY DEF ConfigInv, CreateMongooseOptions, Validated, Checked
  <2>2. /\ 1 <= Option("MIN_POOL_SIZE") /\ Option("MIN_POOL_SIZE") <= 50
        /\ Option("MAX_POOL_SIZE") <= 100
        /\ Option("MIN_POOL_SIZE") <= Option("MAX_POOL_SIZE")
    BY <2>1 DEF InRange, Lower, Upper, Numbers, Timeouts, Option
  <2>3. 1000 <= Option("SOCKET_TIMEOUT") /\ Option("SOCKET_TIMEOUT") <= 120000
    BY <2>1 DEF InRange, Lower, Upper, Numbers, Timeouts, Option
  <2>4. \A n \in Timeouts \ {"SOCKET_TIMEOUT"} : 1000 <= Option(n) /\ Option(n) <= 60000
    BY <2>1 DEF InRange, Lower, Upper, Numbers, Timeouts, Option
  <2>5. /\ options'.minPoolSize = Option("MIN_POOL_SIZE")
        /\ options'.maxPoolSize = Option("MAX_POOL_SIZE")
        /\ options'.socketTimeoutMS = Option("SOCKET_TIMEOUT")
        /\ options'.serverSelectionTimeoutMS = Option("SERVER_SELECTION_TIMEOUT")
        /\ options'.connectTimeoutMS = Option("CONNECT_TIMEOUT")
        /\ options'.heartbeatFrequencyMS = Option("HEARTBEAT_FREQUENCY")
    BY DEF CreateMongooseOptions
  <2> QED
    BY <2>2, <2>3, <2>4, <2>5 DEF StartedWithinBounds, Timeouts
<1> QED
  BY <1>1, <1>2 DEF ConfigInv

(* Whatever the environment, a process that gets past validate() runs with *)
(* pool sizes and time-outs inside the documented ranges, and with a pool  *)
(* whose minimum is not above its maximum.                                 *)
THEOREM AlwaysWithinBounds == Spec => []StartedWithinBounds
<1>1. Init => ConfigInv
  BY EnvironmentsAssumption DEF Init, ConfigInv, EnvTyped, Checked, StartedWithinBounds
<1>2. ConfigInv /\ [Next]_vars => ConfigInv'
  <2>1. ConfigInv /\ (CreateKafkaConfig \/ Listen \/ UNCHANGED vars) => ConfigInv'
    BY DEF vars, CreateKafkaConfig, Listen, ConfigInv, EnvTyped, Checked,
           StartedWithinBounds
  <2> QED
    BY <2>1, ValidateStep, CreateOptionsStep DEF Next
<1>3. ConfigInv => StartedWithinBounds
  BY DEF ConfigInv
<1> QED
  BY <1>1, <1>2, <1>3, PTL DEF Spec
=============================================================================
