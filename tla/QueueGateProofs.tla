-------------------------- MODULE QueueGateProofs --------------------------
(***************************************************************************)
(* What QueueGate promises for every threshold, every number of concurrent *)
(* capacity checks and every bound.                                        *)
(***************************************************************************)
EXTENDS QueueGate, TLAPS

LEMMA GateFacts ==
    /\ FailureThreshold \in Nat \ {0} /\ SuccessThreshold \in Nat \ {0}
    /\ MaxLoose \in Nat \ {0} /\ MaxGets \in Nat \ {0} /\ MaxRetries \in Nat
    /\ MostFailures \in Nat \ {0} /\ MaxRetries <= MostFailures
  BY GateAssumption DEF MostFailures

LEMMA OneMoreTyped ==
    ASSUME NEW most \in Nat, NEW n \in 0..most
    PROVE  OneMore(n, most) \in 0..most /\ (most > 0 => OneMore(n, most) > 0)
  BY DEF OneMore

(***************************************************************************)
(* Type correctness.  The counters and the control state are typed apart   *)
(* from each other.                                                        *)
(***************************************************************************)
\* The capacity checks' steps leave the health check's counters alone.
LEMMA CountersFrame ==
    ASSUME CountersTyped, UNCHANGED <<healthVars, fetch, looseCapacityTimers>>
    PROVE  CountersTyped'
  BY DEF CountersTyped, healthVars

LEMMA ControlFrame ==
    ASSUME ControlTyped, UNCHANGED <<healthTimer, capacityTimer, pc, worldVars>>
    PROVE  ControlTyped'
  BY DEF ControlTyped, worldVars

\* The last health check that may fail is the one that shuts the service down.
GivesUp == shutdown \/ failedHealthChecks < MostFailures

\* A failed health check is counted up to the limit, at which the service shuts down,
\* so that the counters stay in their ranges.
THEOREM CountersCorrect == Spec => [](CountersTyped /\ GivesUp)
<1>1. Init => CountersTyped /\ GivesUp
  <2> SUFFICES ASSUME Init PROVE CountersTyped /\ GivesUp
    OBVIOUS
  <2>1. CountersTyped /\ failedHealthChecks < MostFailures
    <3>1. failedHealthChecks = 0 /\ successfulHealthChecks = 0 /\ looseChecks = 0
          /\ looseCapacityTimers = 0 /\ gets = 0 /\ fetch = -1
      BY DEF Init, NotFetching
    <3> QED
      BY <3>1, GateFacts DEF CountersTyped, NotFetching
  <2> QED
    BY <2>1 DEF GivesUp
<1>2. (CountersTyped /\ GivesUp) /\ [Next]_vars => (CountersTyped /\ GivesUp)'
  <2> SUFFICES ASSUME CountersTyped, GivesUp, [Next]_vars PROVE CountersTyped' /\ GivesUp'
    OBVIOUS
  <2> DEFINE Same == UNCHANGED <<shutdown, failedHealthChecks, successfulHealthChecks, gets>>
  <2> USE GateFacts
  <2>0. ASSUME Same PROVE GivesUp'
    BY <2>0 DEF GivesUp
  <2>1. CASE Boot \/ SchemaPause \/ WorldChanges \/ UNCHANGED vars
    <3>1. UNCHANGED <<healthVars, fetch, looseCapacityTimers, shutdown>>
      BY <2>1 DEF Boot, SchemaPause, WorldChanges, vars, healthVars, capacityVars, lifeVars
    <3> QED
      BY <3>1, <2>0, CountersFrame DEF healthVars
  <2>2. CASE PickJob \/ FetchAnswered \/ FetchFails
    <3>1. Same /\ UNCHANGED <<looseChecks, looseCapacityTimers>>
      BY <2>2 DEF PickJob, FetchAnswered, FetchFails, healthVars, capacityVars, lifeVars
    <3>2. fetch' \in {0, NotFetching, fetch + 1} /\ fetch' < FailureThreshold
      BY <2>2 DEF PickJob, FetchAnswered, FetchFails, CountersTyped, NotFetching
    <3> QED
      BY <3>1, <3>2, <2>0 DEF CountersTyped, NotFetching
  <2>3. CASE WebhookGone
    <3>1. /\ failedHealthChecks' = 0 /\ successfulHealthChecks' = 0 /\ fetch' = NotFetching
          /\ looseChecks' \in {looseChecks, OneMore(looseChecks, MaxLoose)}
          /\ UNCHANGED <<gets, looseCapacityTimers>>
      BY <2>3 DEF WebhookGone, startWebhookHealthCheck, capacityVars
    <3>2. CountersTyped' /\ failedHealthChecks' < MostFailures
      BY <3>1, OneMoreTyped DEF CountersTyped, NotFetching
    <3> QED
      BY <3>2 DEF GivesUp
  <2>4. CASE HealthTimerFires
    <3>1. /\ looseChecks' \in {looseChecks, looseChecks - 1} \cap Nat
          /\ gets < MaxGets /\ gets' = gets + 1
          /\ UNCHANGED <<failedHealthChecks, successfulHealthChecks, fetch, looseCapacityTimers>>
      BY <2>4 DEF HealthTimerFires, capacityVars, CountersTyped
    <3>2. UNCHANGED <<shutdown, failedHealthChecks>>
      BY <2>4 DEF HealthTimerFires, lifeVars
    <3> QED
      BY <3>1, <3>2 DEF CountersTyped, GivesUp
  <2>5. CASE HealthCheckSucceeds
    <3>1. /\ gets > 0 /\ gets' = gets - 1 /\ failedHealthChecks' = 0
          /\ successfulHealthChecks' = OneMore(successfulHealthChecks, SuccessThreshold)
          /\ UNCHANGED <<looseChecks, fetch, looseCapacityTimers>>
      BY <2>5 DEF HealthCheckSucceeds, capacityVars
    <3>2. CountersTyped' /\ failedHealthChecks' < MostFailures
      BY <3>1, OneMoreTyped DEF CountersTyped
    <3> QED
      BY <3>2 DEF GivesUp
  <2>6. CASE HealthCheckFails
    <3>1. /\ gets > 0 /\ gets' = gets - 1 /\ successfulHealthChecks' = 0
          /\ failedHealthChecks' = failedHealthChecks + 1
          /\ UNCHANGED <<looseChecks, fetch, looseCapacityTimers>>
      BY <2>6 DEF HealthCheckFails, capacityVars
    <3>2. failedHealthChecks < MostFailures
      BY <2>6 DEF GivesUp, HealthCheckFails
    <3>3. CountersTyped'
      BY <3>1, <3>2 DEF CountersTyped
    <3>4. failedHealthChecks + 1 >= MaxRetries \/ failedHealthChecks' < MostFailures
      BY <3>1, <3>2 DEF CountersTyped, MostFailures
    <3>5. failedHealthChecks + 1 >= MaxRetries => shutdown'
      BY <2>6 DEF HealthCheckFails
    <3> QED
      BY <3>3, <3>4, <3>5 DEF GivesUp
  <2>7. ASSUME NEW c \in Calls, CapacityCheckStarts(c) \/ CapacityTimerFires(c) \/ CallStep(c)
        PROVE  CountersTyped' /\ GivesUp'
    <3>1. UNCHANGED <<healthVars, fetch, shutdown>>
      BY <2>7 DEF CallStep, CapacityCheckStarts, CapacityTimerFires, CapacityRead, QueryFails,
         handleCapacityExhausted, PauseAgain, ArmEpochTimer, handleCapacityAvailable, ResumeQueue,
         lifeVars
    <3>2. \/ UNCHANGED looseCapacityTimers
          \/ looseCapacityTimers > 0 /\ looseCapacityTimers' = looseCapacityTimers - 1
          \/ looseCapacityTimers' = OneMore(looseCapacityTimers, MaxLoose)
      BY <2>7 DEF CallStep, CapacityCheckStarts, CapacityTimerFires, CapacityRead, QueryFails,
         handleCapacityExhausted, PauseAgain, ArmEpochTimer, handleCapacityAvailable, ResumeQueue
    <3>3. CountersTyped'
      BY <3>1, <3>2, OneMoreTyped DEF CountersTyped, healthVars
    <3> QED
      BY <3>1, <3>3, <2>0 DEF healthVars
  <2> QED
    BY <2>1, <2>2, <2>3, <2>4, <2>5, <2>6, <2>7 DEF Next, Fetch, HealthCheck
<1> QED
  BY <1>1, <1>2, PTL DEF Spec

\* The handlers' steps, the timers' names and the flags keep their types.
THEOREM ControlCorrect == Spec => [](ControlTyped /\ FlagsTyped)
<1>1. Init => ControlTyped /\ FlagsTyped
  BY DEF Init, ControlTyped, FlagsTyped, Timers, CallSteps
<1>2. (ControlTyped /\ FlagsTyped) /\ [Next]_vars => (ControlTyped /\ FlagsTyped)'
  <2> SUFFICES ASSUME ControlTyped, FlagsTyped, [Next]_vars PROVE ControlTyped' /\ FlagsTyped'
    OBVIOUS
  <2>1. ControlTyped'
    <3> USE DEF ControlTyped, Timers, CallSteps, healthVars, capacityVars, worldVars
    <3>1. CASE Boot \/ SchemaPause \/ WorldChanges \/ Fetch \/ UNCHANGED vars
      BY <3>1 DEF Boot, SchemaPause, WorldChanges, Fetch, PickJob, FetchAnswered, FetchFails,
         WebhookGone, startWebhookHealthCheck, vars
    <3>2. CASE HealthCheck
      BY <3>2 DEF HealthCheck, HealthTimerFires, HealthCheckSucceeds, HealthCheckFails, CheckAgain
    <3>3. ASSUME NEW c \in Calls, CapacityCheckStarts(c) \/ CapacityTimerFires(c) \/ CallStep(c)
          PROVE  ControlTyped'
      BY <3>3 DEF CallStep, CapacityCheckStarts, CapacityTimerFires, CapacityRead, QueryFails,
         handleCapacityExhausted, PauseAgain, ArmEpochTimer, handleCapacityAvailable, ResumeQueue,
         StepTo
    <3> QED
      BY <3>1, <3>2, <3>3 DEF Next
  <2>2. FlagsTyped'
    <3> USE DEF FlagsTyped, flagVars, lifeVars
    <3>1. CASE Boot \/ SchemaPause \/ WorldChanges \/ Fetch \/ UNCHANGED vars
      BY <3>1 DEF Boot, SchemaPause, WorldChanges, Fetch, PickJob, FetchAnswered, FetchFails,
         WebhookGone, handleWebhookGone, vars
    <3>2. CASE HealthCheck
      BY <3>2 DEF HealthCheck, HealthTimerFires, HealthCheckSucceeds, HealthCheckFails,
         handleWebhookRestored
    <3>3. ASSUME NEW c \in Calls, CapacityCheckStarts(c) \/ CapacityTimerFires(c) \/ CallStep(c)
          PROVE  FlagsTyped'
      BY <3>3 DEF CallStep, CapacityCheckStarts, CapacityTimerFires, CapacityRead, QueryFails,
         handleCapacityExhausted, PauseAgain, ArmEpochTimer, handleCapacityAvailable, ResumeQueue
    <3> QED
      BY <3>1, <3>2, <3>3 DEF Next
  <2> QED
    BY <2>1, <2>2
<1> QED
  BY <1>1, <1>2, PTL DEF Spec

\* Type correctness of the queue's gate.
THEOREM GateTypeCorrect == Spec => []TypeOK
  BY CountersCorrect, ControlCorrect, PTL DEF TypeOK

(***************************************************************************)
(* The health check does not die out during an outage.                     *)
(***************************************************************************)
CheckPending == healthTimer = "armed" \/ looseChecks > 0 \/ gets > 0

LEMMA CheckFrame ==
    ASSUME HealthCheckGoesOn, UNCHANGED <<webhookOk, shutdown, healthTimer, looseChecks, gets>>
    PROVE  HealthCheckGoesOn'
  <1>1. (~webhookOk /\ ~shutdown => CheckPending)'
    BY DEF HealthCheckGoesOn, CheckPending
  <1>2. (looseChecks > 0 \/ gets > 0 => healthTimer # "none")'
    BY DEF HealthCheckGoesOn
  <1> QED
    BY <1>1, <1>2 DEF HealthCheckGoesOn, CheckPending

\* HealthCheckGoesOn holds in every reachable state: while the webhook is down and the
\* service is not shutting down, a timer or a request keeps the health check alive.
THEOREM HealthCheckCorrect == Spec => []HealthCheckGoesOn
<1>1. Init => HealthCheckGoesOn
  <2> SUFFICES ASSUME Init PROVE HealthCheckGoesOn
    OBVIOUS
  <2>1. webhookOk
    BY DEF Init
  <2>2. ~(looseChecks > 0 \/ gets > 0)
    BY DEF Init
  <2> QED
    BY <2>1, <2>2 DEF HealthCheckGoesOn
<1>2. CountersTyped /\ ControlTyped /\ HealthCheckGoesOn /\ [Next]_vars => HealthCheckGoesOn'
  <2> SUFFICES ASSUME CountersTyped, ControlTyped, HealthCheckGoesOn, [Next]_vars
               PROVE  HealthCheckGoesOn'
    OBVIOUS
  <2>1. CASE Boot \/ SchemaPause \/ WorldChanges \/ PickJob \/ FetchAnswered \/ FetchFails
             \/ UNCHANGED vars
    <3>1. UNCHANGED <<webhookOk, shutdown, healthTimer, looseChecks, gets>>
      BY <2>1 DEF Boot, SchemaPause, WorldChanges, PickJob, FetchAnswered, FetchFails, vars,
         flagVars, healthVars, lifeVars
    <3> QED
      BY <3>1, CheckFrame
  <2>2. CASE WebhookGone
    <3>1. \/ healthTimer' = "armed"
          \/ /\ healthTimer # "none" /\ healthTimer' = healthTimer
             /\ looseChecks' = OneMore(looseChecks, MaxLoose)
      BY <2>2 DEF WebhookGone, startWebhookHealthCheck
    <3>2. OneMore(looseChecks, MaxLoose) > 0
      BY GateFacts DEF CountersTyped, OneMore
    <3>3. CheckPending'
      BY <3>1, <3>2 DEF CheckPending
    <3>4. healthTimer' # "none"
      BY <3>1
    <3> QED
      BY <3>3, <3>4 DEF HealthCheckGoesOn, CheckPending
  <2>3. CASE HealthTimerFires
    <3>1. gets' > 0
      BY <2>3 DEF HealthTimerFires, CountersTyped
    <3>2. healthTimer' # "none"
      <4>1. CASE healthTimer = "armed" /\ healthTimer' = "fired"
        BY <4>1
      <4>2. CASE looseChecks > 0 /\ UNCHANGED healthTimer
        BY <4>2 DEF HealthCheckGoesOn
      <4> QED
        BY <2>3, <4>1, <4>2 DEF HealthTimerFires
    <3> QED
      BY <3>1, <3>2 DEF HealthCheckGoesOn
  <2>4. CASE HealthCheckSucceeds
    <3>1. healthTimer # "none"
      BY <2>4 DEF HealthCheckSucceeds, HealthCheckGoesOn
    <3>2. (webhookOk' /\ healthTimer' = healthTimer) \/ healthTimer' = "armed"
      BY <2>4 DEF HealthCheckSucceeds, handleWebhookRestored, CheckAgain
    <3> QED
      BY <3>1, <3>2 DEF HealthCheckGoesOn
  <2>5. CASE HealthCheckFails
    <3>1. healthTimer # "none"
      BY <2>5 DEF HealthCheckFails, HealthCheckGoesOn
    <3>2. (shutdown' /\ healthTimer' = healthTimer) \/ healthTimer' = "armed"
      BY <2>5 DEF HealthCheckFails, CheckAgain
    <3> QED
      BY <3>1, <3>2 DEF HealthCheckGoesOn
  <2>6. ASSUME NEW c \in Calls, CapacityCheckStarts(c) \/ CapacityTimerFires(c) \/ CallStep(c)
        PROVE  HealthCheckGoesOn'
    <3>1. UNCHANGED <<webhookOk, shutdown, healthTimer, looseChecks, gets>>
      BY <2>6 DEF CallStep, CapacityCheckStarts, CapacityTimerFires, CapacityRead, QueryFails,
         handleCapacityExhausted, PauseAgain, ArmEpochTimer, handleCapacityAvailable, ResumeQueue,
         flagVars, healthVars, lifeVars
    <3> QED
      BY <3>1, CheckFrame
  <2> QED
    BY <2>1, <2>2, <2>3, <2>4, <2>5, <2>6 DEF Next, Fetch, HealthCheck
<1> QED
  BY <1>1, <1>2, CountersCorrect, ControlCorrect, PTL DEF Spec

(***************************************************************************)
(* During an outage no capacity check decides to resume the queue, so that *)
(* only a decision taken before it can.                                    *)
(***************************************************************************)
NothingOnItsWay ==
    ~webhookOk /\ ~raced => paused /\ \A c \in Calls : pc[c] # "resume"
OutageAfterBoot == (fetch # NotFetching => booted) /\ (~webhookOk => booted)
OutageInv == NothingOnItsWay /\ OutageAfterBoot

\* OutageKeepsQueueClosed holds in every reachable state, for any number of capacity
\* checks at once and whatever else pauses the queue.
THEOREM OutageCorrect == Spec => []OutageKeepsQueueClosed
<1>1. Init => OutageInv
  BY DEF Init, OutageInv, NothingOnItsWay, OutageAfterBoot
<1>2. ControlTyped /\ OutageInv /\ [Next]_vars => OutageInv'
  <2> SUFFICES ASSUME ControlTyped, OutageInv, [Next]_vars PROVE OutageInv'
    OBVIOUS
  <2> USE DEF OutageInv, NothingOnItsWay, OutageAfterBoot
  <2>1. CASE Boot \/ SchemaPause \/ WorldChanges \/ PickJob \/ FetchAnswered \/ FetchFails
             \/ UNCHANGED vars
    BY <2>1 DEF Boot, SchemaPause, WorldChanges, PickJob, FetchAnswered, FetchFails, vars, flagVars,
       capacityVars, lifeVars
  <2>2. CASE WebhookGone
    <3>1. raced' \/ \A c \in Calls : pc[c] # "resume"
      BY <2>2 DEF WebhookGone, handleWebhookGone
    <3> QED
      BY <2>2, <3>1 DEF WebhookGone, handleWebhookGone, capacityVars, lifeVars
  <2>3. CASE HealthTimerFires \/ HealthCheckFails
    BY <2>3 DEF HealthTimerFires, HealthCheckFails, flagVars, capacityVars, lifeVars
  <2>4. CASE HealthCheckSucceeds
    BY <2>4 DEF HealthCheckSucceeds, handleWebhookRestored, flagVars, capacityVars, lifeVars
  <2>5. ASSUME NEW c \in Calls,
               CapacityCheckStarts(c) \/ CapacityTimerFires(c) \/ QueryFails(c) \/ PauseAgain(c)
               \/ ArmEpochTimer(c) \/ handleCapacityExhausted(c)
        PROVE  OutageInv'
    <3>1. \A d \in Calls : pc'[d] = "resume" => pc[d] = "resume"
      BY <2>5 DEF CapacityCheckStarts, CapacityTimerFires, QueryFails, PauseAgain, ArmEpochTimer,
         handleCapacityExhausted, StepTo, ControlTyped
    <3>2. UNCHANGED <<booted, webhookOk, raced, fetch>> /\ (paused => paused')
      BY <2>5 DEF CapacityCheckStarts, CapacityTimerFires, QueryFails, PauseAgain, ArmEpochTimer,
         handleCapacityExhausted, flagVars, lifeVars
    <3> QED
      BY <3>1, <3>2
  <2>6. ASSUME NEW c \in Calls, CapacityRead(c) PROVE OutageInv'
    <3>1. capacity # "resume"
      BY DEF ControlTyped
    <3>2. \A d \in Calls : pc'[d] = "resume" => pc[d] = "resume"
      BY <2>6, <3>1 DEF CapacityRead, StepTo, ControlTyped
    <3> QED
      BY <2>6, <3>2 DEF CapacityRead, flagVars, lifeVars
  <2>7. ASSUME NEW c \in Calls, handleCapacityAvailable(c) PROVE OutageInv'
    <3>1. \A d \in Calls : pc'[d] = "resume" => pc[d] = "resume" \/ webhookOk
      BY <2>7 DEF handleCapacityAvailable, MayResume, StepTo, ControlTyped
    <3> QED
      BY <2>7, <3>1 DEF handleCapacityAvailable, lifeVars
  <2>8. ASSUME NEW c \in Calls, ResumeQueue(c) PROVE OutageInv'
    <3>1. webhookOk \/ raced
      BY <2>8 DEF ResumeQueue
    <3> QED
      BY <2>8, <3>1 DEF ResumeQueue, flagVars, lifeVars
  <2> QED
    BY <2>1, <2>2, <2>3, <2>4, <2>5, <2>6, <2>7, <2>8 DEF Next, Fetch, HealthCheck, CallStep
<1>3. OutageInv => OutageKeepsQueueClosed
  BY DEF OutageInv, NothingOnItsWay, OutageKeepsQueueClosed
<1> QED
  BY <1>1, <1>2, <1>3, ControlCorrect, PTL DEF Spec
=============================================================================
