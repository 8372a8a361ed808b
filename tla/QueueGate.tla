----------------------------- MODULE QueueGate -----------------------------
(***************************************************************************)
(* Who closes and who opens the graph-update queue.                        *)
(*                                                                         *)
(* The consumer pauses its queue while the provider's webhook is down      *)
(* (ProviderWebhookService checks its health on a timer) and while the     *)
(* capacity is exhausted (BlockchainService.checkCapacity, called for      *)
(* every block and by a timer at the end of the epoch).  The handlers of   *)
(* both share the queue and two flags, and await Redis and the chain in    *)
(* between.  Each action is the code between two awaits.                   *)
(*                                                                         *)
(* All commands to the queue go through one connection, so a pause or a    *)
(* resume takes effect in the order of the calls; the answer to isPaused   *)
(* is the one of the moment it was asked.  Nothing here outlives the       *)
(* process: a restart is Init again.                                       *)
(***************************************************************************)
EXTENDS Integers

CONSTANTS
    FailureThreshold,  \* WEBHOOK_FAILURE_THRESHOLD
    SuccessThreshold,  \* HEALTH_CHECK_SUCCESS_THRESHOLD
    MaxRetries,        \* HEALTH_CHECK_MAX_RETRIES
    Calls,             \* BOUND: calls of checkCapacity() alive at once
    MaxLoose,          \* BOUND: timers no name leads to, of each kind; more count as this many
    MaxGets            \* BOUND: health requests on their way at once

ASSUME GateAssumption ==
    /\ {FailureThreshold, SuccessThreshold, MaxLoose, MaxGets} \subseteq Nat \ {0}
    /\ MaxRetries \in Nat

NotFetching == -1

VARIABLES
    booted, shutdown,
    paused,                             \* the graph-update queue is paused
    webhookOk, capacityExhausted,       \* the flags of the consumer
    failedHealthChecks, successfulHealthChecks,
    healthTimer, looseChecks,           \* the timer under its name, timers without one
    gets,                               \* health requests on their way
    capacityTimer, looseCapacityTimers,
    pc,                                 \* step of each capacity check
    fetch,                              \* failures in a row of the running fetch
    provider, capacity,                 \* the webhook and the capacity themselves
    raced                               \* HISTORY: the outage began with a resume on its way

flagVars == <<webhookOk, capacityExhausted, raced>>
healthVars == <<failedHealthChecks, successfulHealthChecks, healthTimer, looseChecks, gets>>
capacityVars == <<capacityTimer, looseCapacityTimers, pc>>
worldVars == <<provider, capacity>>
lifeVars == <<booted, shutdown>>
vars == <<lifeVars, paused, flagVars, healthVars, capacityVars, fetch, worldVars>>

Timers == {"none", "armed", "fired"}       \* the name is unused; used; used by a timer gone off
CallSteps == {"idle", "read", "available", "exhausted", "resume", "info", "arm"}

MostFailures == IF MaxRetries = 0 THEN 1 ELSE MaxRetries   \* the first one is always made

CountersTyped ==
    /\ failedHealthChecks \in 0..MostFailures
    /\ successfulHealthChecks \in 0..SuccessThreshold
    /\ looseChecks \in 0..MaxLoose /\ looseCapacityTimers \in 0..MaxLoose
    /\ gets \in 0..MaxGets
    /\ fetch \in NotFetching..FailureThreshold - 1
ControlTyped ==
    /\ healthTimer \in Timers /\ capacityTimer \in Timers
    /\ pc \in [Calls -> CallSteps]
    /\ provider \in {"up", "down"} /\ capacity \in {"available", "exhausted"}
FlagsTyped == {booted, shutdown, paused, webhookOk, capacityExhausted, raced} \subseteq BOOLEAN
TypeOK == CountersTyped /\ ControlTyped /\ FlagsTyped

Init ==
    /\ booted = FALSE /\ shutdown = FALSE
    /\ paused = TRUE                    \* by the consumer's constructor
    /\ webhookOk = TRUE /\ capacityExhausted = FALSE /\ raced = FALSE
    /\ failedHealthChecks = 0 /\ successfulHealthChecks = 0
    /\ healthTimer = "none" /\ looseChecks = 0 /\ gets = 0
    /\ capacityTimer = "none" /\ looseCapacityTimers = 0
    /\ pc = [c \in Calls |-> "idle"]
    /\ fetch = NotFetching
    /\ provider \in {"up", "down"} /\ capacity = "available"

OneMore(n, most) == IF n < most THEN n + 1 ELSE n

Boot ==
    /\ ~shutdown /\ ~booted /\ booted' = TRUE
    /\ paused' = FALSE
    /\ UNCHANGED <<shutdown, flagVars, healthVars, capacityVars, fetch, worldVars>>

(***************************************************************************)
(* The consumer's fetch of a user's graph from the webhook, and what it    *)
(* starts when too many requests in a row have failed.                     *)
(***************************************************************************)
PickJob ==
    /\ ~shutdown /\ booted /\ ~paused /\ fetch = NotFetching
    /\ fetch' = 0
    /\ UNCHANGED <<lifeVars, paused, flagVars, healthVars, capacityVars, worldVars>>

FetchAnswered ==     \* the next page, or the end of the fetch
    /\ ~shutdown /\ fetch # NotFetching /\ provider = "up"
    /\ fetch' \in {0, NotFetching}
    /\ UNCHANGED <<lifeVars, paused, flagVars, healthVars, capacityVars, worldVars>>

FetchFails ==
    /\ ~shutdown /\ fetch # NotFetching /\ fetch + 1 < FailureThreshold
    /\ provider = "down"
    /\ fetch' = fetch + 1
    /\ UNCHANGED <<lifeVars, paused, flagVars, healthVars, capacityVars, worldVars>>

startWebhookHealthCheck ==   \* a name in use is an error, but the timer runs all the same
    /\ failedHealthChecks' = 0 /\ successfulHealthChecks' = 0
    /\ IF healthTimer = "none"
       THEN healthTimer' = "armed" /\ UNCHANGED looseChecks
       ELSE looseChecks' = OneMore(looseChecks, MaxLoose) /\ UNCHANGED healthTimer
    /\ UNCHANGED gets

handleWebhookGone ==
    /\ webhookOk' = FALSE /\ paused' = TRUE
    /\ raced' = (raced \/ \E c \in Calls : pc[c] = "resume")
    /\ UNCHANGED capacityExhausted

WebhookGone ==
    /\ ~shutdown /\ fetch # NotFetching /\ fetch + 1 >= FailureThreshold
    /\ provider = "down"
    /\ startWebhookHealthCheck /\ handleWebhookGone
    /\ fetch' = NotFetching
    /\ UNCHANGED <<lifeVars, capacityVars, worldVars>>

(***************************************************************************)
(* The health check: GET /health, then the next timer, 'webhook.healthy'   *)
(* or the shutdown of the service.                                         *)
(***************************************************************************)
HealthTimerFires ==
    /\ ~shutdown
    /\ \/ healthTimer = "armed" /\ healthTimer' = "fired" /\ UNCHANGED looseChecks
       \/ looseChecks > 0 /\ looseChecks' = looseChecks - 1 /\ UNCHANGED healthTimer
    /\ gets < MaxGets /\ gets' = gets + 1
    /\ UNCHANGED <<lifeVars, paused, flagVars, failedHealthChecks, successfulHealthChecks,
                   capacityVars, fetch, worldVars>>

CheckAgain_Mutant == healthTimer' = "none"     \* MUTANT: deletes the old timer, sets no new one
CheckAgain == healthTimer' = "armed"           \* deletes the named timer, even one still to go off

handleWebhookRestored ==
    /\ webhookOk' = TRUE /\ raced' = FALSE
    /\ paused' = IF capacityExhausted THEN paused ELSE FALSE
    /\ UNCHANGED capacityExhausted

HealthCheckSucceeds ==
    /\ ~shutdown /\ gets > 0 /\ provider = "up"
    /\ gets' = gets - 1
    /\ failedHealthChecks' = 0
    /\ successfulHealthChecks' = OneMore(successfulHealthChecks, SuccessThreshold)
    /\ IF successfulHealthChecks + 1 >= SuccessThreshold
       THEN handleWebhookRestored /\ UNCHANGED healthTimer
       ELSE CheckAgain /\ UNCHANGED <<paused, flagVars>>
    /\ UNCHANGED <<lifeVars, looseChecks, capacityVars, fetch, worldVars>>

HealthCheckFails_Mutant ==  \* MUTANT: gives up one check late
    /\ ~shutdown /\ gets > 0 /\ provider = "down"
    /\ gets' = gets - 1
    /\ successfulHealthChecks' = 0
    /\ failedHealthChecks' = failedHealthChecks + 1
    /\ IF failedHealthChecks + 1 > MaxRetries
       THEN shutdown' = TRUE /\ UNCHANGED healthTimer
       ELSE CheckAgain /\ UNCHANGED shutdown
    /\ UNCHANGED <<booted, paused, flagVars, looseChecks, capacityVars, fetch, worldVars>>

HealthCheckFails ==
    /\ ~shutdown /\ gets > 0 /\ provider = "down"
    /\ gets' = gets - 1
    /\ successfulHealthChecks' = 0
    /\ failedHealthChecks' = failedHealthChecks + 1
    /\ IF failedHealthChecks + 1 >= MaxRetries
       THEN shutdown' = TRUE /\ UNCHANGED healthTimer
       ELSE CheckAgain /\ UNCHANGED shutdown
    /\ UNCHANGED <<booted, paused, flagVars, looseChecks, capacityVars, fetch, worldVars>>

(***************************************************************************)
(* checkCapacity() and the handlers of its two events.                     *)
(***************************************************************************)
StepTo(c, step) == pc' = [pc EXCEPT ![c] = step]

CapacityCheckStarts(c) ==    \* for a block or, once, at boot
    /\ ~shutdown /\ booted /\ pc[c] = "idle"
    /\ StepTo(c, "read")
    /\ UNCHANGED <<lifeVars, paused, flagVars, healthVars, capacityTimer, looseCapacityTimers,
                   fetch, worldVars>>

CapacityTimerFires(c) ==
    /\ ~shutdown /\ pc[c] = "idle" /\ StepTo(c, "read")
    /\ \/ capacityTimer = "armed" /\ capacityTimer' = "fired" /\ UNCHANGED looseCapacityTimers
       \/ /\ looseCapacityTimers > 0 /\ looseCapacityTimers' = looseCapacityTimers - 1
          /\ UNCHANGED capacityTimer
    /\ UNCHANGED <<lifeVars, paused, flagVars, healthVars, fetch, worldVars>>

CapacityRead(c) ==
    /\ ~shutdown /\ pc[c] = "read"
    /\ StepTo(c, capacity)              \* 'capacity.available' or 'capacity.exhausted'
    /\ UNCHANGED <<lifeVars, paused, flagVars, healthVars, capacityTimer, looseCapacityTimers,
                   fetch, worldVars>>

QueryFails(c) ==     \* in checkCapacity, or in the handler after its first pause
    /\ ~shutdown /\ pc[c] \in {"read", "info"}
    /\ StepTo(c, "idle")
    /\ UNCHANGED <<lifeVars, paused, flagVars, healthVars, capacityTimer, looseCapacityTimers,
                   fetch, worldVars>>

handleCapacityExhausted_Mutant(c) ==     \* MUTANT: pauses only when the flag was not set
    /\ ~shutdown /\ pc[c] = "exhausted"
    /\ capacityExhausted' = TRUE
    /\ paused' = IF capacityExhausted THEN paused ELSE TRUE
    /\ StepTo(c, IF capacityExhausted THEN "idle" ELSE "info")
    /\ UNCHANGED <<lifeVars, webhookOk, raced, healthVars, capacityTimer, looseCapacityTimers, fetch,
                   worldVars>>

handleCapacityExhausted(c) ==
    /\ ~shutdown /\ pc[c] = "exhausted"
    /\ capacityExhausted' = TRUE /\ paused' = TRUE
    /\ StepTo(c, "info")
    /\ UNCHANGED <<lifeVars, webhookOk, raced, healthVars, capacityTimer, looseCapacityTimers, fetch,
                   worldVars>>

PauseAgain(c) ==     \* when the chain has answered, whatever happened since
    /\ ~shutdown /\ pc[c] = "info"
    /\ paused' = TRUE
    /\ StepTo(c, "arm")
    /\ UNCHANGED <<lifeVars, flagVars, healthVars, capacityTimer, looseCapacityTimers, fetch,
                   worldVars>>

ArmEpochTimer(c) ==  \* a name in use is an error, but the timer runs all the same
    /\ ~shutdown /\ pc[c] = "arm" /\ StepTo(c, "idle")
    /\ IF capacityTimer = "none"
       THEN capacityTimer' = "armed" /\ UNCHANGED looseCapacityTimers
       ELSE /\ looseCapacityTimers' = OneMore(looseCapacityTimers, MaxLoose)
            /\ UNCHANGED capacityTimer
    /\ UNCHANGED <<lifeVars, paused, flagVars, healthVars, fetch, worldVars>>

MayResume_NoWebhook == paused          \* MUTANT: the webhook is not asked about
MayResume_Never == FALSE               \* MUTANT: only 'webhook.healthy' resumes
MayResume == webhookOk /\ paused       \* as isPaused finds it

handleCapacityAvailable(c) ==
    /\ ~shutdown /\ pc[c] = "available"
    /\ capacityExhausted' = FALSE
    /\ capacityTimer' = "none"
    /\ StepTo(c, IF MayResume THEN "resume" ELSE "idle")
    /\ UNCHANGED <<lifeVars, paused, webhookOk, raced, healthVars, looseCapacityTimers, fetch,
                   worldVars>>

ResumeQueue(c) ==    \* when Redis has answered
    /\ ~shutdown /\ pc[c] = "resume" /\ StepTo(c, "idle")
    /\ paused' = FALSE
    /\ UNCHANGED <<lifeVars, flagVars, healthVars, capacityTimer, looseCapacityTimers, fetch,
                   worldVars>>

CallStep(c) ==
    \/ CapacityRead(c) \/ QueryFails(c) \/ handleCapacityExhausted(c) \/ PauseAgain(c)
    \/ ArmEpochTimer(c) \/ handleCapacityAvailable(c) \/ ResumeQueue(c)

(***************************************************************************)
(* The transaction monitor's pause, the webhook and the chain.             *)
(***************************************************************************)
SchemaPause ==      \* after InvalidSchemaId
    /\ ~shutdown /\ booted
    /\ paused' = TRUE
    /\ UNCHANGED <<lifeVars, flagVars, healthVars, capacityVars, fetch, worldVars>>

WorldChanges ==
    /\ ~shutdown
    /\ \/ provider' \in {"up", "down"} /\ UNCHANGED capacity
       \/ capacity' \in {"available", "exhausted"} /\ UNCHANGED provider
    /\ UNCHANGED <<lifeVars, paused, flagVars, healthVars, capacityVars, fetch>>

Fetch == PickJob \/ FetchAnswered \/ FetchFails \/ WebhookGone
HealthCheck == HealthTimerFires \/ HealthCheckSucceeds \/ HealthCheckFails

Next ==
    \/ Boot \/ Fetch \/ HealthCheck \/ SchemaPause \/ WorldChanges
    \/ \E c \in Calls : CapacityCheckStarts(c) \/ CapacityTimerFires(c) \/ CallStep(c)

Spec == Init /\ [][Next]_vars

\* Timers go off, what is awaited is answered, every block checks the capacity, and
\* the queries of these checks do not fail for ever.  Nothing is assumed of the jobs.
Fairness ==
    /\ WF_vars(Boot) /\ WF_vars(HealthTimerFires)
    /\ WF_vars(HealthCheckSucceeds \/ HealthCheckFails)
    /\ \A c \in Calls :
          WF_vars(CapacityCheckStarts(c)) /\ WF_vars(CallStep(c)) /\ SF_vars(CapacityRead(c))

FairSpec == Spec /\ Fairness

(***************************************************************************)
(* Properties                                                              *)
(***************************************************************************)
\* The queue is not open while the webhook is known to be down, although every block's
\* capacity check may resume it: only a resume that was on its way when the outage began
\* opens it before the "sequential healthy responses" of checkProviderWebhook (:54).
OutageKeepsQueueClosed == ~webhookOk => paused \/ raced

\* While the webhook is down its health is being checked, by the timer of that name,
\* by one without a name or by a request on its way, although an outage that starts
\* while the name is in use loses its timer's name, and each check deletes the named
\* timer whoever set it.  And deleteTimeout finds the name it throws without.
HealthCheckGoesOn ==
    /\ ~webhookOk /\ ~shutdown => healthTimer = "armed" \/ looseChecks > 0 \/ gets > 0
    /\ looseChecks > 0 \/ gets > 0 => healthTimer # "none"

\* There is one timer for the end of the epoch: a duplicate is ignored (:206).
OneCapacityTimer == looseCapacityTimers = 0

\* When the webhook answers again for good, and the capacity is available for good, a
\* paused queue is resumed, whoever paused it, unless the service shuts down.
Recovered == provider = "up" /\ capacity = "available"
QueueReopens == []<>~Recovered \/ []<>(~paused \/ shutdown)

\* An open queue is paused again, or the capacity found available, when the flag says
\* exhausted: a resume that was decided before the exhaustion has no lasting effect.
ExhaustionPausesAgain ==
    (capacityExhausted /\ ~paused) ~> (paused \/ ~capacityExhausted \/ shutdown)
=============================================================================
