------------------------- MODULE TenantServiceProofs -------------------------
(***************************************************************************)
(* What the probes of a tenant's Deployment make of the service's answers, *)
(* for all delays, periods and thresholds.                                 *)
(***************************************************************************)
EXTENDS TenantService, Integers, TLAPS

-----------------------------------------------------------------------------
(* The probes' numbers *)

\* The numbers of the two probes.
LEMMA ProbeNumbers ==
    /\ Probes = {"readiness", "liveness"}
    /\ Delay["readiness"] = ReadinessDelay /\ Delay["liveness"] = LivenessDelay
    /\ Period["readiness"] = ReadinessPeriod /\ Period["liveness"] = LivenessPeriod
    /\ Threshold["readiness"] = ReadinessThreshold /\ Threshold["liveness"] = LivenessThreshold
    /\ \A p \in Probes : Period[p] \in Nat \ {0} /\ Threshold[p] \in Nat \ {0} /\ Delay[p] \in Nat
BY ProbesAssumption DEF Probes, Delay, Period, Threshold

\* The products the lags are made of.
LEMMA Rounds ==
    ASSUME NEW n \in Nat, NEW m \in Nat, NEW period \in Nat
    PROVE  /\ n * period \in Nat
           /\ (n + 1) * period = n * period + period
           /\ n < m => n * period + period <= m * period
           /\ 0 * period = 0
<1>1. n * period \in Nat /\ (n + 1) * period = n * period + period /\ 0 * period = 0
  OBVIOUS
<1>2. n < m => (n + 1) * period <= m * period
  <2> SUFFICES ASSUME n < m PROVE (n + 1) * period <= m * period
    OBVIOUS
  <2>1. m - (n + 1) \in Nat
    OBVIOUS
  <2>2. (m - (n + 1)) * period \in Nat
    BY <2>1
  <2>3. m * period = (n + 1) * period + (m - (n + 1)) * period
    BY <2>1
  <2> QED  BY <2>2, <2>3
<1> QED  BY <1>1, <1>2

\* The bounds the history variables stop at are large enough for what is asked of them.
LEMMA LagsTyped ==
    /\ ReadinessLag \in Nat /\ LivenessLag \in Nat /\ SteadyTime \in Nat
    /\ MaxAge \in Nat /\ MaxAge >= LivenessDelay + LivenessLag /\ MaxAge >= ReadinessDelay
    /\ SteadyTime = LivenessPeriod + 1
<1>1. ReadinessLag \in Nat
  BY ProbesAssumption, Rounds DEF ReadinessLag
<1>2. LivenessThreshold - 1 \in Nat /\ LivenessPeriod \in Nat
  BY ProbesAssumption
<1>3. LivenessLag \in Nat
  BY <1>2, Rounds DEF LivenessLag
<1> QED  BY <1>1, <1>3, ProbesAssumption DEF SteadyTime, MaxAge

-----------------------------------------------------------------------------
(* The inductive invariant *)

ServiceTyped ==
    /\ due \in [Probes -> Nat] /\ failures \in [Probes -> Nat]
    /\ Typed

\* The seconds since the last success of the readiness probe and since the
\* first failure in a row of the liveness probe.
SinceSuccess == failures["readiness"] * ReadinessPeriod + ReadinessPeriod - due["readiness"]
SinceFailure == failures["liveness"] * LivenessPeriod - due["liveness"]

\* A ready pod serves, is past the delay, so that the readiness probe has gone
\* on since its last success, and has not been silent for longer than that.
ReadyInv ==
    ready =>
        /\ process = "serving" /\ age >= ReadinessDelay
        /\ failures["readiness"] < ReadinessThreshold
        /\ Answering \/ silent < SinceSuccess

\* A service that is not up yet, with a database, has not been steady: it was
\* the database that let the last one down.
SteadyInv == process # "serving" /\ reachable => steady = 0

\* A container is ended by its last failure.  Since its first failure the
\* database has not answered for a whole round of the probe.
LivenessInv ==
    process # "none" =>
        /\ failures["liveness"] < LivenessThreshold
        /\ failures["liveness"] > 0 =>
            /\ age >= LivenessDelay + SinceFailure
            /\ unsteady >= SinceFailure
            /\ ~reachable \/ steady <= LivenessPeriod - due["liveness"]

ServiceInv == ServiceTyped /\ ReadyInv /\ SteadyInv /\ LivenessInv

-----------------------------------------------------------------------------
(* Every step keeps it *)

\* The invariant holds at first.
LEMMA ServiceInit == Init => ServiceInv
<1> SUFFICES ASSUME Init PROVE ServiceInv
  OBVIOUS
<1>1. due \in [Probes -> Nat] /\ failures \in [Probes -> Nat]
  BY ProbesAssumption DEF Init
<1>2. \A p \in Probes : due[p] \in 0 .. Period[p] /\ failures[p] \in 0 .. Threshold[p]
  BY <1>1, ProbeNumbers DEF Init
<1>3. /\ age \in 0 .. MaxAge /\ backoff \in 0 .. MaxBackoff /\ silent \in 0 .. ReadinessLag
      /\ steady \in 0 .. SteadyTime /\ unsteady \in 0 .. LivenessLag
  BY LagsTyped, ProbesAssumption DEF Init
<1>4. secret \in BOOLEAN /\ reachable \in BOOLEAN /\ ready \in BOOLEAN /\ process \in Processes
  BY Zenon DEF Init, Processes
<1>5. ServiceTyped
  BY <1>1, <1>2, <1>3, <1>4 DEF ServiceTyped, Typed
<1> QED  BY <1>5 DEF ServiceInv, Init, ReadyInv, SteadyInv, LivenessInv

\* What a step may do to the probes' counters and keep their types.
LEMMA TypesKept ==
    ASSUME ServiceTyped,
           secret' \in BOOLEAN, reachable' \in BOOLEAN, ready' \in BOOLEAN, process' \in Processes,
           age' \in 0 .. MaxAge, backoff' \in 0 .. MaxBackoff, silent' \in 0 .. ReadinessLag,
           steady' \in 0 .. SteadyTime, unsteady' \in 0 .. LivenessLag,
           due' \in [Probes -> Nat], failures' \in [Probes -> Nat],
           \A p \in Probes : due[p]' \in 0 .. Period[p] /\ failures[p]' \in 0 .. Threshold[p]
    PROVE  ServiceTyped'
<1>1. DOMAIN due' = Probes /\ DOMAIN failures' = Probes
  OBVIOUS
<1> QED  BY <1>1 DEF ServiceTyped, Typed

\* The numbers of a state, as the provers want them.
LEMMA Counters ==
    ASSUME ServiceTyped
    PROVE  /\ due["readiness"] \in 0 .. ReadinessPeriod /\ due["liveness"] \in 0 .. LivenessPeriod
           /\ failures["readiness"] \in 0 .. ReadinessThreshold
           /\ failures["liveness"] \in 0 .. LivenessThreshold
           /\ age \in Nat /\ silent \in Nat /\ steady \in Nat /\ unsteady \in Nat
           /\ silent <= ReadinessLag /\ unsteady <= LivenessLag /\ age <= MaxAge
BY ProbeNumbers, LagsTyped DEF ServiceTyped, Typed

\* The elapsed times stay below the lags.
LEMMA Elapsed ==
    ASSUME ServiceTyped
    PROVE  /\ SinceSuccess \in Int /\ SinceFailure \in Int
           /\ failures["readiness"] < ReadinessThreshold => SinceSuccess + due["readiness"] <= ReadinessLag
           /\ failures["liveness"] < LivenessThreshold => SinceFailure + due["liveness"] <= LivenessLag
           /\ failures["liveness"] > 0 => SinceFailure + due["liveness"] >= LivenessPeriod
<1> DEFINE f == failures["readiness"]
           g == failures["liveness"]
<1>1. f \in Nat /\ g \in Nat /\ due["readiness"] \in Nat /\ due["liveness"] \in Nat
  BY Counters
<1>2. f * ReadinessPeriod \in Nat /\ g * LivenessPeriod \in Nat
  BY <1>1, Rounds, ProbesAssumption
<1>3. f < ReadinessThreshold => f * ReadinessPeriod + ReadinessPeriod <= ReadinessLag
  BY <1>1, Rounds, ProbesAssumption DEF ReadinessLag
<1>4. g < LivenessThreshold => g * LivenessPeriod <= LivenessLag
  <2> SUFFICES ASSUME g < LivenessThreshold PROVE g * LivenessPeriod <= LivenessLag
    OBVIOUS
  <2>1. LivenessThreshold - 1 \in Nat /\ LivenessPeriod \in Nat
    BY ProbesAssumption
  <2>2. g < LivenessThreshold - 1 => g * LivenessPeriod + LivenessPeriod <= LivenessLag
    BY <1>1, <2>1, Rounds DEF LivenessLag
  <2>3. CASE g = LivenessThreshold - 1
    <3>1. g * LivenessPeriod = LivenessLag
      BY <2>3 DEF LivenessLag
    <3> QED  BY <3>1, <1>2
  <2>4. CASE g < LivenessThreshold - 1
    <3>1. LivenessLag \in Nat
      BY LagsTyped
    <3> QED  BY <2>1, <2>2, <2>4, <1>2, <3>1
  <2> QED  BY <2>3, <2>4, <1>1, ProbesAssumption
<1>5. g > 0 => g * LivenessPeriod >= LivenessPeriod
  <2> SUFFICES ASSUME g > 0 PROVE g * LivenessPeriod >= LivenessPeriod
    OBVIOUS
  <2>1. 0 \in Nat /\ LivenessPeriod \in Nat
    BY ProbesAssumption
  <2>2. 0 * LivenessPeriod + LivenessPeriod <= g * LivenessPeriod
    BY <1>1, <2>1, Rounds
  <2> QED  BY <2>1, <2>2, <1>2, Rounds
<1> QED  BY <1>1, <1>2, <1>3, <1>4, <1>5, ProbesAssumption DEF SinceSuccess, SinceFailure

\* The service connects, hangs or returns from a hanging Ping; the secret comes.
LEMMA ServiceMoves ==
    ASSUME ServiceInv, CreateSecret \/ Connect \/ Hang \/ PingReturns
    PROVE  ServiceInv'
<1>1. /\ UNCHANGED <<reachable, age, due, failures, ready, backoff, silent, steady, unsteady>>
      /\ secret' \in BOOLEAN /\ process' \in Processes
      /\ process = "none" <=> process' = "none"
      /\ process = "serving" => process' = "serving"
      /\ process' = "serving" => process = "serving" \/ reachable
  BY DEF CreateSecret, Connect, Hang, PingReturns, CanConnect, Now, Processes,
         ServiceInv, ServiceTyped, Typed
<1>2. ServiceTyped'
  <2>1. ServiceTyped
    BY DEF ServiceInv
  <2> QED  BY <1>1, <2>1 DEF ServiceTyped, Typed
<1>3. SinceSuccess' = SinceSuccess /\ SinceFailure' = SinceFailure
  BY <1>1 DEF SinceSuccess, SinceFailure
<1>4. ReadyInv' /\ SteadyInv' /\ LivenessInv'
  BY <1>1, <1>3 DEF ServiceInv, ReadyInv, SteadyInv, LivenessInv, Answering
<1> QED  BY <1>2, <1>4 DEF ServiceInv

\* A new container: its age and the failures are reset.
LEMMA ContainerStarts ==
    ASSUME ServiceInv, StartContainer
    PROVE  ServiceInv'
<1>1. /\ process = "none" /\ process' = "connecting" /\ age' = 0
      /\ failures' = [p \in Probes |-> 0]
      /\ UNCHANGED <<secret, reachable, due, ready, backoff, silent, steady, unsteady>>
  BY DEF StartContainer, Now
<1>2. ServiceTyped'
  <2>1. failures' \in [Probes -> Nat] /\ \A p \in Probes : failures[p]' \in 0 .. Threshold[p]
    BY <1>1, ProbeNumbers
  <2>2. age' \in 0 .. MaxAge /\ process' \in Processes
    BY <1>1, LagsTyped DEF Processes
  <2> QED  BY <1>1, <2>1, <2>2 DEF ServiceInv, ServiceTyped, Typed
<1>3. failures["liveness"]' = 0
  BY <1>1, ProbeNumbers
<1>4. ReadyInv' /\ SteadyInv' /\ LivenessInv'
  BY <1>1, <1>3, ProbesAssumption DEF ServiceInv, ReadyInv, SteadyInv, LivenessInv
<1> QED  BY <1>2, <1>4 DEF ServiceInv

\* A probe that succeeds: the database answers in this second.
LEMMA ProbeSucceeds ==
    ASSUME ServiceInv, NEW p \in Probes, Succeed(p)
    PROVE  ServiceInv'
<1>1. /\ process = "serving" /\ reachable /\ age >= Delay[p]
      /\ due' = [due EXCEPT ![p] = Period[p]] /\ failures' = [failures EXCEPT ![p] = 0]
      /\ ready' = (ready \/ p = "readiness")
      /\ UNCHANGED <<secret, reachable, process, age, backoff, silent, steady, unsteady>>
  BY DEF Succeed, Pending, Healthy, Now
<1>2. ServiceTyped'
  <2>1. due' \in [Probes -> Nat] /\ failures' \in [Probes -> Nat]
    BY <1>1, ProbeNumbers DEF ServiceInv, ServiceTyped
  <2>2. \A q \in Probes : due[q]' \in 0 .. Period[q] /\ failures[q]' \in 0 .. Threshold[q]
    BY <1>1, ProbeNumbers DEF ServiceInv, ServiceTyped, Typed
  <2>3. ready' \in BOOLEAN
    BY <1>1
  <2> QED  BY <1>1, <2>1, <2>2, <2>3 DEF ServiceInv, ServiceTyped, Typed
<1>3. ReadyInv'
  <2>1. Answering'
    BY <1>1 DEF Answering
  <2>2. ready' => age >= ReadinessDelay /\ failures["readiness"]' < ReadinessThreshold
    <3>1. CASE p = "readiness"
      BY <1>1, <3>1, ProbeNumbers, ProbesAssumption DEF ServiceInv, ServiceTyped
    <3>2. CASE p # "readiness"
      <4>1. ready' => ready
        BY <1>1, <3>2, Zenon
      <4>2. failures["readiness"]' = failures["readiness"]
        BY <1>1, <3>2, ProbeNumbers DEF ServiceInv, ServiceTyped
      <4> QED  BY <4>1, <4>2 DEF ServiceInv, ReadyInv
    <3> QED  BY <3>1, <3>2
  <2> QED  BY <1>1, <2>1, <2>2 DEF ReadyInv
<1>4. SteadyInv'
  BY <1>1 DEF SteadyInv
<1>5. LivenessInv'
  <2>1. CASE p = "liveness"
    <3>1. failures["liveness"]' = 0
      BY <1>1, <2>1 DEF ServiceInv, ServiceTyped
    <3> QED  BY <3>1, ProbesAssumption DEF LivenessInv
  <2>2. CASE p = "readiness"
    <3>1. failures["liveness"]' = failures["liveness"] /\ due["liveness"]' = due["liveness"]
      BY <1>1, <2>2, ProbeNumbers DEF ServiceInv, ServiceTyped
    <3> QED  BY <1>1, <3>1 DEF ServiceInv, LivenessInv, SinceFailure
  <2> QED  BY <2>1, <2>2 DEF Probes
<1> QED  BY <1>2, <1>3, <1>4, <1>5 DEF ServiceInv

\* A readiness probe that fails, up to the one that makes the pod unready.
LEMMA ReadinessFails ==
    ASSUME ServiceInv, Fail("readiness")
    PROVE  ServiceInv'
<1> DEFINE f == failures["readiness"]
           last == f + 1 >= ReadinessThreshold
<1>1. /\ due["readiness"] = 0 /\ ~Healthy
      /\ due' = [due EXCEPT !["readiness"] = ReadinessPeriod]
      /\ failures' = [failures EXCEPT !["readiness"] = IF last THEN ReadinessThreshold ELSE f + 1]
      /\ ready' = (ready /\ ~last)
      /\ UNCHANGED <<secret, reachable, process, age, backoff, silent, steady, unsteady>>
  BY ProbeNumbers DEF Fail, Pending, Now, ServiceInv, ServiceTyped
<1>2. ServiceTyped'
  <2>1. due' \in [Probes -> Nat] /\ failures' \in [Probes -> Nat]
    BY <1>1, ProbeNumbers DEF ServiceInv, ServiceTyped
  <2>2. \A q \in Probes : due[q]' \in 0 .. Period[q] /\ failures[q]' \in 0 .. Threshold[q]
    BY <1>1, ProbeNumbers DEF ServiceInv, ServiceTyped, Typed
  <2>3. ready' \in BOOLEAN
    BY <1>1
  <2> QED  BY <1>1, <2>1, <2>2, <2>3 DEF ServiceInv, ServiceTyped, Typed
<1>3. ReadyInv'
  <2> SUFFICES ASSUME ready' PROVE ReadyInv'
    BY DEF ReadyInv
  <2>0. ready /\ ~last
    BY <1>1, Zenon
  <2>1. ready /\ ~last /\ f \in Nat
    BY <2>0, Counters DEF ServiceInv
  <2>2. f' = f + 1 /\ f' < ReadinessThreshold /\ due["readiness"]' = ReadinessPeriod
    BY <1>1, <2>1, ProbeNumbers, ProbesAssumption DEF ServiceInv, ServiceTyped
  <2>3. SinceSuccess' = SinceSuccess
    <3>1. f * ReadinessPeriod \in Nat /\ (f + 1) * ReadinessPeriod = f * ReadinessPeriod + ReadinessPeriod
      BY <2>1, Rounds, ProbesAssumption
    <3>2. SinceSuccess = f * ReadinessPeriod + ReadinessPeriod - 0
      BY <1>1 DEF SinceSuccess
    <3>3. SinceSuccess' = (f + 1) * ReadinessPeriod + ReadinessPeriod - ReadinessPeriod
      BY <2>2 DEF SinceSuccess
    <3> QED  BY <3>1, <3>2, <3>3, ProbesAssumption
  <2>4. process = "serving" /\ age >= ReadinessDelay /\ (Answering \/ silent < SinceSuccess)
    BY <2>1 DEF ServiceInv, ReadyInv
  <2> QED  BY <1>1, <2>2, <2>3, <2>4 DEF ReadyInv, Answering
<1>4. SteadyInv'
  BY <1>1 DEF ServiceInv, SteadyInv
<1>5. LivenessInv'
  <2>1. failures["liveness"]' = failures["liveness"] /\ due["liveness"]' = due["liveness"]
    BY <1>1, ProbeNumbers DEF ServiceInv, ServiceTyped
  <2> QED  BY <1>1, <2>1 DEF ServiceInv, LivenessInv, SinceFailure
<1> QED  BY <1>2, <1>3, <1>4, <1>5 DEF ServiceInv

\* A liveness probe that fails, up to the one that ends the container.
LEMMA LivenessFails ==
    ASSUME ServiceInv, Fail("liveness")
    PROVE  ServiceInv'
<1> DEFINE g == failures["liveness"]
           last == g + 1 >= LivenessThreshold
<1>1. /\ due["liveness"] = 0 /\ process # "none" /\ age >= LivenessDelay /\ ~Healthy
      /\ due' = [due EXCEPT !["liveness"] = LivenessPeriod]
      /\ failures' = [failures EXCEPT !["liveness"] = IF last THEN LivenessThreshold ELSE g + 1]
      /\ ready' = (ready /\ ~last)
      /\ process' = IF last THEN "none" ELSE process
      /\ last \/ UNCHANGED backoff
      /\ last => backoff' \in 0 .. MaxBackoff
      /\ UNCHANGED <<secret, reachable, age, silent, steady, unsteady>>
  BY ProbeNumbers DEF Fail, Pending, Now, ServiceInv, ServiceTyped
<1>2. ServiceTyped'
  <2>1. due' \in [Probes -> Nat] /\ failures' \in [Probes -> Nat]
    BY <1>1, ProbeNumbers DEF ServiceInv, ServiceTyped
  <2>2. \A q \in Probes : due[q]' \in 0 .. Period[q] /\ failures[q]' \in 0 .. Threshold[q]
    BY <1>1, ProbeNumbers DEF ServiceInv, ServiceTyped, Typed
  <2>3. ready' \in BOOLEAN /\ process' \in Processes
    BY <1>1 DEF ServiceInv, ServiceTyped, Typed, Processes
  <2>4. backoff' \in 0 .. MaxBackoff
    BY <1>1 DEF ServiceInv, ServiceTyped, Typed
  <2> QED  BY <1>1, <2>1, <2>2, <2>3, <2>4 DEF ServiceInv, ServiceTyped, Typed
<1>3. ReadyInv'
  <2>1. failures["readiness"]' = failures["readiness"] /\ due["readiness"]' = due["readiness"]
    BY <1>1, ProbeNumbers DEF ServiceInv, ServiceTyped
  <2> QED  BY <1>1, <2>1 DEF ServiceInv, ReadyInv, SinceSuccess, Answering
<1>4. SteadyInv'
  BY <1>1 DEF ServiceInv, SteadyInv, Healthy
<1>5. LivenessInv'
  <2> SUFFICES ASSUME process' # "none" PROVE LivenessInv'
    BY DEF LivenessInv
  <2>1. ~last /\ g \in Nat
    BY <1>1, Counters DEF ServiceInv
  <2>2. g' = g + 1 /\ g' < LivenessThreshold /\ due["liveness"]' = LivenessPeriod
    BY <1>1, <2>1, ProbeNumbers, ProbesAssumption DEF ServiceInv, ServiceTyped
  <2>3. SinceFailure' = SinceFailure /\ (g = 0 => SinceFailure = 0)
    <3>1. /\ g * LivenessPeriod \in Nat /\ (g + 1) * LivenessPeriod = g * LivenessPeriod + LivenessPeriod
          /\ 0 * LivenessPeriod = 0
      BY <2>1, Rounds, ProbesAssumption
    <3>2. SinceFailure = g * LivenessPeriod - 0
      BY <1>1 DEF SinceFailure
    <3>3. SinceFailure' = (g + 1) * LivenessPeriod - LivenessPeriod
      BY <2>2 DEF SinceFailure
    <3> QED  BY <3>1, <3>2, <3>3, ProbesAssumption
  <2>4. age >= LivenessDelay + SinceFailure /\ unsteady >= SinceFailure
    <3>1. age \in Nat /\ unsteady \in Nat
      BY Counters DEF ServiceInv
    <3> QED  BY <1>1, <2>1, <2>3, <3>1, ProbesAssumption DEF ServiceInv, LivenessInv
  <2>5. ~reachable \/ steady <= LivenessPeriod - LivenessPeriod
    <3>1. ~reachable \/ steady = 0
      BY <1>1 DEF ServiceInv, SteadyInv, Healthy
    <3> QED  BY <3>1, ProbesAssumption
  <2> QED  BY <1>1, <2>2, <2>3, <2>4, <2>5 DEF LivenessInv
<1> QED  BY <1>2, <1>3, <1>4, <1>5 DEF ServiceInv

\* A second passes.  A probe that is due and whose delay is over has run.
LEMMA SecondPasses ==
    ASSUME ServiceInv, Tick
    PROVE  ServiceInv'
<1> DEFINE d == due["readiness"]
           e == due["liveness"]
           f == failures["readiness"]
           g == failures["liveness"]
<1>1. /\ reachable' \in BOOLEAN
      /\ age' = IF age + 1 < MaxAge THEN age + 1 ELSE MaxAge
      /\ silent' = IF Answering THEN 0 ELSE IF silent + 1 < ReadinessLag THEN silent + 1 ELSE ReadinessLag
      /\ steady' = IF Answering THEN IF steady + 1 < SteadyTime THEN steady + 1 ELSE SteadyTime ELSE 0
      /\ unsteady' = IF steady' = SteadyTime THEN 0
                     ELSE IF unsteady + 1 < LivenessLag THEN unsteady + 1 ELSE LivenessLag
      /\ backoff' = IF backoff = 0 THEN 0 ELSE backoff - 1
      /\ UNCHANGED <<secret, process, failures, ready>>
  BY DEF Tick, UpTo
<1>2. due' = [p \in Probes |-> IF due[p] = 0 THEN Period[p] - 1 ELSE due[p] - 1]
  BY DEF Tick
<1>3. /\ d \in 0 .. ReadinessPeriod /\ e \in 0 .. LivenessPeriod /\ f \in Nat /\ g \in Nat
      /\ age \in Nat /\ silent \in Nat /\ steady \in Nat /\ unsteady \in Nat
      /\ age <= MaxAge
  BY Counters DEF ServiceInv
<1>4. /\ d' = IF d = 0 THEN ReadinessPeriod - 1 ELSE d - 1
      /\ e' = IF e = 0 THEN LivenessPeriod - 1 ELSE e - 1
  BY <1>2, ProbeNumbers
<1>5. /\ d = 0 /\ process # "none" => age < ReadinessDelay
      /\ e = 0 /\ process # "none" => age < LivenessDelay
  BY <1>3, ProbeNumbers, ProbesAssumption DEF Tick, Pending
<1>6. ServiceTyped'
  <2>1. due' \in [Probes -> Nat] /\ \A p \in Probes : due[p]' \in 0 .. Period[p]
    BY <1>2, ProbeNumbers DEF ServiceInv, ServiceTyped, Typed
  <2>2. age' \in 0 .. MaxAge /\ silent' \in 0 .. ReadinessLag /\ steady' \in 0 .. SteadyTime
    BY <1>1, <1>3, LagsTyped
  <2>3. unsteady' \in 0 .. LivenessLag /\ backoff' \in 0 .. MaxBackoff
    BY <1>1, <1>3, LagsTyped, ProbesAssumption DEF ServiceInv, ServiceTyped, Typed
  <2> QED  BY <1>1, <2>1, <2>2, <2>3 DEF ServiceInv, ServiceTyped, Typed
<1>7. ReadyInv'
  <2> SUFFICES ASSUME ready PROVE ReadyInv'
    BY <1>1 DEF ReadyInv
  <2>1. /\ process = "serving" /\ age >= ReadinessDelay /\ f < ReadinessThreshold
        /\ Answering \/ silent < SinceSuccess
    BY DEF ServiceInv, ReadyInv
  <2>2. d' = d - 1 /\ d > 0
    BY <1>3, <1>4, <1>5, <2>1, ProbesAssumption
  <2>3. age' >= ReadinessDelay
    BY <1>1, <1>3, <2>1, LagsTyped, ProbesAssumption
  <2>4. SinceSuccess \in Int /\ SinceSuccess >= 0 /\ SinceSuccess' = SinceSuccess + 1
    <3>1. f * ReadinessPeriod \in Nat
      BY <1>3, Rounds, ProbesAssumption
    <3>2. SinceSuccess = f * ReadinessPeriod + ReadinessPeriod - d
      BY DEF SinceSuccess
    <3>3. SinceSuccess' = f * ReadinessPeriod + ReadinessPeriod - (d - 1)
      BY <1>1, <2>2 DEF SinceSuccess
    <3> QED  BY <1>3, <3>1, <3>2, <3>3, ProbesAssumption
  <2>5. silent' < SinceSuccess'
    <3>1. CASE Answering
      BY <3>1, <2>4, <1>1
    <3>2. CASE ~Answering
      BY <3>2, <1>1, <1>3, <2>1, <2>4, LagsTyped
    <3> QED  BY <3>1, <3>2
  <2> QED  BY <1>1, <2>1, <2>3, <2>5 DEF ReadyInv
<1>8. SteadyInv'
  BY <1>1 DEF SteadyInv, Answering
<1>9. LivenessInv'
  <2> SUFFICES ASSUME process # "none" PROVE LivenessInv'
    BY <1>1 DEF LivenessInv
  <2>1. g < LivenessThreshold
    BY DEF ServiceInv, LivenessInv
  <2> SUFFICES ASSUME g > 0
               PROVE  /\ age' >= LivenessDelay + SinceFailure'
                      /\ unsteady' >= SinceFailure'
                      /\ steady' <= LivenessPeriod - e'
    BY <1>1, <2>1 DEF LivenessInv
  <2>2. /\ age >= LivenessDelay + SinceFailure /\ unsteady >= SinceFailure
        /\ ~reachable \/ steady <= LivenessPeriod - e
    BY DEF ServiceInv, LivenessInv
  <2>3. SinceFailure \in Int /\ SinceFailure >= 0 /\ SinceFailure + e <= LivenessLag
    <3>1. SinceFailure \in Int /\ SinceFailure + e <= LivenessLag /\ SinceFailure + e >= LivenessPeriod
      BY <2>1, Elapsed DEF ServiceInv
    <3> QED  BY <3>1, <1>3, ProbesAssumption
  <2>4. e > 0 /\ e' = e - 1
    BY <1>3, <1>4, <1>5, <2>2, <2>3, ProbesAssumption
  <2>5. SinceFailure' = SinceFailure + 1
    <3>1. g * LivenessPeriod \in Nat
      BY <1>3, Rounds, ProbesAssumption
    <3>2. SinceFailure = g * LivenessPeriod - e
      BY DEF SinceFailure
    <3>3. SinceFailure' = g * LivenessPeriod - (e - 1)
      BY <1>1, <2>4 DEF SinceFailure
    <3> QED  BY <1>3, <3>1, <3>2, <3>3
  <2>6. steady' <= LivenessPeriod - e' /\ steady' # SteadyTime
    <3>1. CASE Answering
      <4>1. steady <= LivenessPeriod - e
        BY <3>1, <2>2 DEF Answering
      <4> QED  BY <3>1, <4>1, <1>1, <1>3, <2>4, LagsTyped, ProbesAssumption
    <3>2. CASE ~Answering
      BY <3>2, <1>1, <1>3, <2>4, LagsTyped, ProbesAssumption
    <3> QED  BY <3>1, <3>2
  <2>7. age' >= LivenessDelay + SinceFailure'
    BY <1>1, <1>3, <2>2, <2>3, <2>4, <2>5, LagsTyped, ProbesAssumption
  <2>8. unsteady' >= SinceFailure'
    BY <1>1, <1>3, <2>2, <2>3, <2>4, <2>5, <2>6, LagsTyped, ProbesAssumption
  <2> QED  BY <2>6, <2>7, <2>8
<1> QED  BY <1>6, <1>7, <1>8, <1>9 DEF ServiceInv

\* Every step keeps the invariant.
LEMMA ServiceStep == ServiceInv /\ [Next]_vars => ServiceInv'
<1> SUFFICES ASSUME ServiceInv, [Next]_vars PROVE ServiceInv'
  OBVIOUS
<1>1. ASSUME NEW p \in Probes, Probe(p) PROVE ServiceInv'
  BY <1>1, ProbeSucceeds, ReadinessFails, LivenessFails DEF Probe, Probes
<1>2. CASE UNCHANGED vars
  BY <1>2 DEF vars, ServiceInv, ServiceTyped, Typed, ReadyInv, SteadyInv, LivenessInv,
              SinceSuccess, SinceFailure, Answering
<1> QED  BY <1>1, <1>2, ServiceMoves, ContainerStarts, SecondPasses DEF Next

\* The invariant holds in every state.
LEMMA ServiceAlways == Spec => []ServiceInv
BY ServiceInit, ServiceStep, PTL DEF Spec

-----------------------------------------------------------------------------
(* What follows *)

\* The types: among them that no probe is later than its period, that no count
\* of failures exceeds its threshold, and that only a service that has reached
\* its database is reported ready.
THEOREM ServiceTypes == Spec => []TypeOK
<1>1. ServiceInv => TypeOK
  BY DEF ServiceInv, ServiceTyped, ReadyInv, TypeOK
<1> QED  BY <1>1, ServiceAlways, PTL

\* Whatever the periods and thresholds of the Deployment's probes are, a pod is
\* not reported ready for longer than ReadinessLag after healthHandler last had
\* an answer from the database.
THEOREM ReadyStaysRecent == Spec => []ReadyIsRecent
<1>1. ServiceInv => ReadyIsRecent
  <2> SUFFICES ASSUME ServiceInv, ready, ~Answering PROVE silent < ReadinessLag
    BY DEF ReadyIsRecent
  <2>1. failures["readiness"] < ReadinessThreshold /\ silent < SinceSuccess
    BY DEF ServiceInv, ReadyInv
  <2>2. SinceSuccess \in Int /\ SinceSuccess + due["readiness"] <= ReadinessLag
    BY <2>1, Elapsed DEF ServiceInv
  <2>3. silent \in Nat /\ due["readiness"] \in Nat
    BY Counters DEF ServiceInv
  <2> QED  BY <2>1, <2>2, <2>3, LagsTyped
<1> QED  BY <1>1, ServiceAlways, PTL

\* The liveness probe ends no container before the delay and the failures it is
\* granted, and no service whose database answered for SteadyTime on end less
\* than LivenessLag seconds ago.
THEOREM KilledAfterTrouble == Spec => KilledOnlyAfterTrouble
<1> DEFINE Killed == process # "none" /\ process' = "none" =>
                        unsteady = LivenessLag /\ age >= LivenessDelay + LivenessLag
<1>1. ServiceInv /\ [Next]_vars => [Killed]_vars
  <2> SUFFICES ASSUME ServiceInv, Next, process # "none", process' = "none"
               PROVE  unsteady = LivenessLag /\ age >= LivenessDelay + LivenessLag
    BY DEF vars
  <2>1. Fail("liveness")
    BY DEF Next, CreateSecret, StartContainer, Connect, Hang, PingReturns, CanConnect,
           Probe, Probes, Succeed, Fail, Tick
  <2> DEFINE g == failures["liveness"]
  <2>2. /\ due["liveness"] = 0 /\ age >= LivenessDelay /\ g + 1 >= LivenessThreshold
    BY <2>1, ProbeNumbers DEF Fail, Pending
  <2>3. g \in Nat /\ age \in Nat /\ unsteady \in Nat /\ unsteady <= LivenessLag
    BY Counters DEF ServiceInv
  <2>4. g < LivenessThreshold /\ g = LivenessThreshold - 1
    BY <2>2, <2>3, ProbesAssumption DEF ServiceInv, LivenessInv
  <2>5. CASE g = 0
    <3>1. LivenessPeriod \in Nat /\ LivenessThreshold - 1 = 0
      BY <2>4, <2>5, ProbesAssumption
    <3>2. LivenessLag = 0
      BY <3>1, Rounds DEF LivenessLag
    <3> QED  BY <2>2, <2>3, <3>2, ProbesAssumption
  <2>6. CASE g > 0
    <3>1. SinceFailure = LivenessLag - 0
      BY <2>2, <2>4 DEF SinceFailure, LivenessLag
    <3>2. age >= LivenessDelay + SinceFailure /\ unsteady >= SinceFailure
      BY <2>6 DEF ServiceInv, LivenessInv
    <3> QED  BY <2>3, <3>1, <3>2, LagsTyped, ProbesAssumption
  <2> QED  BY <2>3, <2>5, <2>6
<1>2. Spec => [][Killed]_vars
  BY <1>1, ServiceAlways, PTL DEF Spec
<1> QED  BY <1>2 DEF KilledOnlyAfterTrouble

=============================================================================
