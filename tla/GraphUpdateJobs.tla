-------------------------- MODULE GraphUpdateJobs --------------------------
(***************************************************************************)
(* The life of a graph-update job of the reconnection service.             *)
(*                                                                         *)
(* Four asynchronous processes share the Redis-backed job queue and the    *)
(* cache of watched transactions:                                          *)
(*   - the graph-update consumer (GraphUpdateQueueConsumerService and the  *)
(*     part of ReconnectionGraphService it calls), which turns a job into  *)
(*     transactions and parks the job until they are settled;              *)
(*   - the transaction monitor (TxMonitorQueueConsumerService), a child    *)
(*     job of the parked one, which turns the settled transactions into a  *)
(*     verdict on it;                                                      *)
(*   - the completion monitor (GraphUpdateCompletionMonitorService), which *)
(*     reads the chain's blocks and settles transactions in the cache;     *)
(*   - the delegation scanner and the transitive updates, which enqueue.   *)
(* Each action is the code between two awaits of one of them.  BullMQ, the *)
(* chain and the provider's webhook are external: modelled from their use. *)
(***************************************************************************)
EXTENDS Integers, FiniteSets

CONSTANTS
    Requests,     \* ids of the jobs asked for: [user, transitive, dead = FALSE]
    Pages,        \* pages of each user's graph that the provider's data changes
    BatchLimit,   \* page updates in one transaction (capacityBatchLimit)
    MaxTxs,       \* BOUND: transactions ever sent
    MaxAttempts,  \* the queue's `attempts` option
    MaxEnqueues,  \* BOUND: times a job is asked for
    MaxCrashes,   \* BOUND: crashes of the service
    ChainErrors,  \* module errors a transaction may fail with
    OddOutcomes,  \* among "neither" (the block's events tell neither success nor failure)
                  \* and "other" (a failure that is not a module error)
    Revocable,    \* users whose delegation, or its schema grants, may be missing at times
    OrderedAdds,  \* TRUE: the child added without await reaches Redis first
    Outages       \* TRUE: the webhook or the capacity may fail and pause the queue

ASSUME RequestsAssumption ==
    /\ Requests # {}
    /\ \A r \in Requests : r = [user |-> r.user, transitive |-> r.transitive, dead |-> FALSE]
ASSUME BoundsAssumption ==
    /\ {BatchLimit, MaxAttempts} \subseteq Nat \ {0}
    /\ {MaxTxs, MaxEnqueues, MaxCrashes} \subseteq Nat
    /\ {OrderedAdds, Outages} \subseteq BOOLEAN
ASSUME ErrorsAssumption ==
    /\ ChainErrors \cap {"none", "pending", "expired", "success", "unsent", "pool", "dead",
                         "neither", "other"} = {}
    /\ OddOutcomes \subseteq {"neither", "other"}
    /\ "other" \in OddOutcomes => MaxCrashes > 0     \* it ends the process

(***************************************************************************)
(* Jobs.  `DeadLetter(r)` is the id with the dead-letter prefix; the cache *)
(* key of a job drops its transitive flag but keeps the prefix, so that    *)
(* the two jobs of one user share their tracked transactions.              *)
(***************************************************************************)
DeadLetter(r) == [user |-> r.user, transitive |-> r.transitive, dead |-> TRUE]
Jobs == Requests \cup {DeadLetter(r) : r \in Requests}
AnyJob == CHOOSE j \in Jobs : TRUE        \* filler for idle workers
JobKey(j) == [user |-> j.user, dead |-> j.dead]
Users == {r.user : r \in Requests}
Txs == 1..MaxTxs

JobStates == {"Unprocessed", "Submitted", "ChainFailureRetry",
              "ChainFailureNoRetry", "MonitorSuccess"}
Places == {"absent", "waiting", "active", "waitingChildren", "failed"}
Outcomes == {"success"} \cup ChainErrors
Fates == {"unsent", "pool", "dead"} \cup Outcomes \cup OddOutcomes
Statuses == {"none", "pending", "expired"} \cup Outcomes

VARIABLES
    place,        \* where BullMQ keeps each job ("waiting" includes delayed)
    state,        \* job.data.state
    attemptsMade, \* failed attempts, saturating at MaxAttempts
    children,     \* unprocessed tx-monitor children of each job
    inflight,     \* children added without await, not in Redis yet
    paused,       \* the graph-update queue is paused
    stalled,      \* jobs, or children of jobs, that already stalled once
    watch,        \* the cache: status of each tracked tx, "none" if untracked
    fate,         \* what the chain did with each tx
    txJob,        \* sourceJobId of each tx
    txPages,      \* the page updates in each tx
    onchain,      \* pages of each user already updated on chain
    cpc, cjob, ctodo, ctx,      \* consumer: step, job, pages to send, tx just sent
    mpc, mjob, msnap, mstate,   \* tx monitor: step, job, tx statuses read, state read
    bpc, bblock, bhits,         \* completion monitor: step, block, txs to upsert
    seen,         \* txs whose deciding block is at or below lastSeenBlockNumber
    enqueues, crashes           \* `crashes` counts every end of the process, up to MaxCrashes

queueVars   == <<place, state, attemptsMade, children, inflight, paused, stalled>>
chainVars   == <<fate, txJob, txPages, onchain>>
workerVars  == <<cpc, cjob, ctodo, ctx>>
monitorVars == <<mpc, mjob, msnap, mstate>>
scanVars    == <<bpc, bblock, bhits, seen>>
boundVars   == <<enqueues, crashes>>
vars == <<queueVars, watch, chainVars, workerVars, monitorVars, scanVars, boundVars>>

ConsumerSteps == {"idle", "reset", "check", "fetch", "send", "record", "untrack", "track",
                  "await", "mark", "caught", "deadRemove", "deadAdd", "throw", "fatal", "complete"}
MonitorSteps == {"idle", "txns", "source", "remove", "pause", "write", "finish"}
ScanSteps == {"boot", "skip", "idle", "upsert", "expire"}

NoStatus == [t \in Txs |-> "none"]

TypeOK ==
    /\ place \in [Jobs -> Places]
    /\ state \in [Jobs -> JobStates]
    /\ attemptsMade \in [Jobs -> 0..MaxAttempts]
    /\ children \in [Jobs -> Nat]
    /\ inflight \in [Jobs -> Nat]
    /\ paused \in BOOLEAN
    /\ stalled \subseteq Jobs \X {"job", "child"}
    /\ watch \in [Txs -> Statuses]
    /\ fate \in [Txs -> Fates]
    /\ txJob \in [Txs -> Jobs]
    /\ txPages \in [Txs -> SUBSET Pages]
    /\ onchain \in [Users -> SUBSET Pages]
    /\ cpc \in ConsumerSteps /\ cjob \in Jobs /\ ctodo \subseteq Pages /\ ctx \in 0..MaxTxs
    /\ mpc \in MonitorSteps /\ mjob \in Jobs /\ msnap \in [Txs -> Statuses] /\ mstate \in JobStates
    /\ bpc \in ScanSteps /\ bblock \subseteq Txs /\ bhits \subseteq Txs
    /\ seen \subseteq Txs
    /\ enqueues \in 0..MaxEnqueues /\ crashes \in 0..MaxCrashes

Init ==
    /\ place = [j \in Jobs |-> "absent"]
    /\ state = [j \in Jobs |-> "Unprocessed"]
    /\ attemptsMade = [j \in Jobs |-> 0]
    /\ children = [j \in Jobs |-> 0]
    /\ inflight = [j \in Jobs |-> 0]
    /\ paused = TRUE
    /\ stalled = {}
    /\ watch = NoStatus
    /\ fate = [t \in Txs |-> "unsent"]
    /\ txJob = [t \in Txs |-> AnyJob]
    /\ txPages = [t \in Txs |-> {}]
    /\ onchain = [u \in Users |-> {}]
    /\ cpc = "idle" /\ cjob = AnyJob /\ ctodo = {} /\ ctx = 0
    /\ mpc = "idle" /\ mjob = AnyJob /\ msnap = NoStatus /\ mstate = "Unprocessed"
    /\ bpc = "boot" /\ bblock = {} /\ bhits = {}
    /\ seen = {}
    /\ enqueues = 0 /\ crashes = 0

(***************************************************************************)
(* The cache of watched transactions: one Redis hash per job key.          *)
(***************************************************************************)
TxsOf(j) == {t \in Txs : JobKey(txJob[t]) = JobKey(j)}
doesJobKeyExist_Mutant(j) == \E t \in Txs : txJob[t] = j /\ watch[t] # "none"  \* the id, not its key
doesJobKeyExist_Retries(j) ==        \* looked for in retries only; a stalled job is none
    attemptsMade[j] > 0 /\ \E t \in TxsOf(j) : watch[t] # "none"
doesJobKeyExist(j) == \E t \in TxsOf(j) : watch[t] # "none"
getAllPendingTxns == {t \in Txs : watch[t] = "pending"}
getAllTxnsForJob(j) == [t \in Txs |-> IF t \in TxsOf(j) THEN watch[t] ELSE "none"]
removeJob(j) == watch' = [t \in Txs |-> IF t \in TxsOf(j) THEN "none" ELSE watch[t]]
upsertWatchedTxn(t, status) == watch' = [watch EXCEPT ![t] = status]

(***************************************************************************)
(* BullMQ.  A locked job (active, or with an active child) is not removed; *)
(* adding a job whose id exists changes nothing.                           *)
(***************************************************************************)
Locked(j) == place[j] = "active" \/ (mpc # "idle" /\ mjob = j)

Fresh(j, p) ==   \* no trace of the job's earlier runs, nor of its waiting children
    /\ place' = [place EXCEPT ![j] = p]
    /\ state' = [state EXCEPT ![j] = "Unprocessed"]
    /\ attemptsMade' = [attemptsMade EXCEPT ![j] = 0]
    /\ children' = [children EXCEPT ![j] = 0]
    /\ stalled' = stalled \ ({j} \X {"job", "child"})

QueueRemove(j) ==
    IF Locked(j) THEN UNCHANGED <<place, state, attemptsMade, children, stalled>>
    ELSE Fresh(j, "absent")

QueueAdd(j) ==
    place' = IF place[j] = "absent" THEN [place EXCEPT ![j] = "waiting"] ELSE place

QueueReplace(j) ==   \* remove, then add
    IF Locked(j) THEN UNCHANGED <<place, state, attemptsMade, children, stalled>>
    ELSE Fresh(j, "waiting")

AttemptsLeft(j) == attemptsMade[j] + 1 < MaxAttempts
CountAttempt(j) == attemptsMade' = [attemptsMade EXCEPT ![j] = IF @ < MaxAttempts THEN @ + 1 ELSE @]

AttemptFails_Mutant(j) ==    \* removeOnFail: the last failure removes the job
    /\ CountAttempt(j)
    /\ place' = [place EXCEPT ![j] = IF AttemptsLeft(j) THEN "waiting" ELSE "absent"]
AttemptFails(j) ==   \* the processor threw: retry with backoff while attempts remain
    /\ CountAttempt(j)
    /\ place' = [place EXCEPT ![j] = IF AttemptsLeft(j) THEN "waiting" ELSE "failed"]

ChildDone(j) ==      \* the last unprocessed child releases a parked parent
    /\ children' = [children EXCEPT ![j] = @ - 1]
    /\ place' = IF place[j] = "waitingChildren" /\ children[j] = 1
                THEN [place EXCEPT ![j] = "waiting"] ELSE place

(***************************************************************************)
(* Asking for a job: the scanner on a delegation to the provider           *)
(* (transitive jobs), the update of a connected user (the others).         *)
(***************************************************************************)
ScannerEnqueue(j) ==
    /\ enqueues < MaxEnqueues /\ j.transitive
    /\ enqueues' = enqueues + 1
    /\ place' = IF place[j] \in {"failed", "absent"} THEN [place EXCEPT ![j] = "waiting"] ELSE place
    /\ UNCHANGED <<state, attemptsMade, children, inflight, paused, stalled, watch, chainVars,
                   workerVars, monitorVars, scanVars, crashes>>

TransitiveEnqueue(j) ==   \* by the consumer, while it processes a user outside Users
    /\ enqueues < MaxEnqueues /\ ~j.transitive
    /\ cpc = "idle"
    /\ enqueues' = enqueues + 1
    /\ QueueReplace(j)
    /\ UNCHANGED <<inflight, paused, watch, chainVars, workerVars, monitorVars, scanVars, crashes>>

(***************************************************************************)
(* The graph-update consumer: one worker, one job at a time.               *)
(***************************************************************************)
FirstStep(s) ==      \* the switch of process()
    CASE s = "Unprocessed"         -> "check"
      [] s = "Submitted"           -> "fatal"
      [] s = "ChainFailureRetry"   -> "reset"
      [] s = "ChainFailureNoRetry" -> "throw"
      [] s = "MonitorSuccess"      -> "complete"

GoTo(step) == cpc' = step /\ UNCHANGED <<cjob, ctodo, ctx>>
Idle == cpc' = "idle" /\ cjob' = AnyJob /\ ctodo' = {} /\ ctx' = 0

Pick(j) ==
    /\ cpc = "idle" /\ ~paused
    /\ place[j] = "waiting"
    /\ place' = [place EXCEPT ![j] = "active"]
    /\ cpc' = FirstStep(state[j]) /\ cjob' = j
    /\ UNCHANGED <<state, attemptsMade, children, inflight, paused, stalled, watch, chainVars,
                   ctodo, ctx, monitorVars, scanVars, boundVars>>

ResetForRetry ==     \* updateData(Unprocessed), then throw
    /\ cpc = "reset"
    /\ state' = [state EXCEPT ![cjob] = "Unprocessed"]
    /\ GoTo("throw")
    /\ UNCHANGED <<place, attemptsMade, children, inflight, paused, stalled, watch, chainVars,
                   monitorVars, scanVars, boundVars>>

CheckKey ==          \* a job whose key is tracked only gets another monitor child
    /\ cpc = "check"
    /\ GoTo(IF doesJobKeyExist(cjob) THEN "track" ELSE "fetch")
    /\ UNCHANGED <<queueVars, watch, chainVars, monitorVars, scanVars, boundVars>>

MissingPages(u) == Pages \ onchain[u]    \* the import bundles against the provider's data

Granted(u) ==        \* what formConnections finds the user to have granted the provider
    IF u \in Revocable THEN SUBSET Pages ELSE {Pages}

FetchGraph ==        \* webhook answers, chain state is imported, updates are exported
    /\ cpc = "fetch"
    /\ \E granted \in Granted(cjob.user) : ctodo' = MissingPages(cjob.user) \cap granted
    /\ cpc' = IF ctodo' = {} THEN "complete" ELSE "send"
    /\ UNCHANGED <<queueVars, watch, chainVars, cjob, ctx, monitorVars, scanVars, boundVars>>

FetchFails ==        \* the webhook's error is thrown as it is; any later one is caught
    /\ cpc = "fetch"
    /\ \E step \in {"caught", "untrack"} : GoTo(step)
    /\ UNCHANGED <<queueVars, watch, chainVars, monitorVars, scanVars, boundVars>>

NextTx(t) == fate[t] = "unsent" /\ \A s \in 1..(t - 1) : fate[s] # "unsent"
Batch(b) == b \subseteq ctodo /\ (b = ctodo \/ Cardinality(b) = BatchLimit)
            /\ Cardinality(b) <= BatchLimit

Submit(t, b) ==      \* the node takes the transaction into its pool
    /\ NextTx(t) /\ Batch(b)
    /\ fate' = [fate EXCEPT ![t] = "pool"]
    /\ txJob' = [txJob EXCEPT ![t] = cjob]
    /\ txPages' = [txPages EXCEPT ![t] = b]

SendBatch ==
    /\ cpc = "send"
    /\ \E t \in Txs, b \in SUBSET ctodo :
          /\ Submit(t, b)
          /\ ctx' = t /\ cpc' = "record" /\ ctodo' = ctodo \ b
    /\ UNCHANGED <<queueVars, watch, onchain, cjob, monitorVars, scanVars, boundVars>>

SendFails ==         \* no answer, or an error: the transaction may be in the pool all the same
    /\ cpc = "send"
    /\ \/ UNCHANGED <<fate, txJob, txPages>>
       \/ \E t \in Txs, b \in SUBSET ctodo : Submit(t, b)
    /\ cpc' = "untrack" /\ UNCHANGED <<cjob, ctodo, ctx>>
    /\ UNCHANGED <<queueVars, watch, onchain, monitorVars, scanVars, boundVars>>

RecordTx ==          \* the end of processSingleBatch
    /\ cpc = "record"
    /\ upsertWatchedTxn(ctx, "pending")
    /\ cpc' = IF ctodo = {} THEN "track" ELSE "send"
    /\ ctx' = 0
    /\ UNCHANGED <<queueVars, chainVars, cjob, ctodo, monitorVars, scanVars, boundVars>>

Untrack ==           \* the catch of updateUserGraph
    /\ cpc = "untrack"
    /\ removeJob(cjob)
    /\ GoTo("caught")
    /\ UNCHANGED <<queueVars, chainVars, monitorVars, scanVars, boundVars>>

TrackTxs ==          \* txMonitorQueue.add, not awaited
    /\ cpc = "track"
    /\ inflight' = [inflight EXCEPT ![cjob] = @ + 1]
    /\ GoTo("await")
    /\ UNCHANGED <<place, state, attemptsMade, children, paused, stalled, watch, chainVars,
                   monitorVars, scanVars, boundVars>>

ChildAdded(j) ==     \* the add reaches Redis; it is rejected if the parent is gone
    /\ inflight[j] > 0
    /\ inflight' = [inflight EXCEPT ![j] = @ - 1]
    /\ children' = IF place[j] = "absent" THEN children ELSE [children EXCEPT ![j] = @ + 1]
    /\ UNCHANGED <<place, state, attemptsMade, paused, stalled, watch, chainVars, workerVars,
                   monitorVars, scanVars, boundVars>>

ShouldWait_Mutant(j) == TRUE         \* parked without looking for children
ShouldWait(j) == children[j] > 0     \* what moveToWaitingChildren answers

AwaitChildren ==
    /\ cpc = "await"
    /\ OrderedAdds => inflight[cjob] = 0
    /\ IF ShouldWait(cjob)
       THEN place' = [place EXCEPT ![cjob] = "waitingChildren"] /\ GoTo("mark")
       ELSE GoTo("caught") /\ UNCHANGED place
    /\ UNCHANGED <<state, attemptsMade, children, inflight, paused, stalled, watch, chainVars,
                   monitorVars, scanVars, boundVars>>

MarkSubmitted ==     \* updateData(Submitted), after the job was parked and unlocked
    /\ cpc = "mark"
    /\ state' = [state EXCEPT ![cjob] = "Submitted"]
    /\ Idle
    /\ UNCHANGED <<place, attemptsMade, children, inflight, paused, stalled, watch, chainVars,
                   monitorVars, scanVars, boundVars>>

Caught ==            \* the catch of updateGraph; capacityInfo may throw in its turn
    /\ cpc = "caught"
    /\ \/ /\ ~cjob.dead /\ attemptsMade[cjob] = 1
          /\ GoTo("deadRemove")
       \/ GoTo("throw")
    /\ UNCHANGED <<queueVars, watch, chainVars, monitorVars, scanVars, boundVars>>

RemoveDeadLetter ==  \* the removal of the job itself does nothing: it is active
    /\ cpc = "deadRemove"
    /\ QueueRemove(DeadLetter(cjob))
    /\ GoTo("deadAdd")
    /\ UNCHANGED <<inflight, paused, watch, chainVars, monitorVars, scanVars, boundVars>>

AddDeadLetter ==
    /\ cpc = "deadAdd"
    /\ QueueAdd(DeadLetter(cjob))
    /\ GoTo("throw")
    /\ UNCHANGED <<state, attemptsMade, children, inflight, paused, stalled, watch, chainVars,
                   monitorVars, scanVars, boundVars>>

ThrowError ==
    /\ cpc = "throw"
    /\ AttemptFails(cjob)
    /\ Idle
    /\ UNCHANGED <<state, children, inflight, paused, stalled, watch, chainVars, monitorVars,
                   scanVars, boundVars>>

ThrowUnrecoverable ==
    /\ cpc = "fatal"
    /\ place' = [place EXCEPT ![cjob] = "failed"]
    /\ CountAttempt(cjob)
    /\ Idle
    /\ UNCHANGED <<state, children, inflight, paused, stalled, watch, chainVars, monitorVars,
                   scanVars, boundVars>>

CompleteJob ==       \* process() returned; removeOnComplete deletes the job
    /\ cpc = "complete"
    /\ IF children[cjob] = 0 THEN Fresh(cjob, "absent")
       ELSE AttemptFails(cjob) /\ UNCHANGED <<state, children, stalled>>
    /\ Idle
    /\ UNCHANGED <<inflight, paused, watch, chainVars, monitorVars, scanVars, boundVars>>

Consumer ==
    \/ \E j \in Jobs : Pick(j)
    \/ ResetForRetry \/ CheckKey \/ FetchGraph \/ FetchFails \/ SendBatch \/ SendFails
    \/ RecordTx \/ Untrack \/ TrackTxs \/ AwaitChildren \/ MarkSubmitted \/ Caught
    \/ RemoveDeadLetter \/ AddDeadLetter \/ ThrowError \/ ThrowUnrecoverable \/ CompleteJob

(***************************************************************************)
(* The transaction monitor: one worker over the children of parked jobs.   *)
(***************************************************************************)
RetryErrors == {"StalePageState", "ProofHasExpired", "ProofNotYetValid", "InvalidSignature"}
PauseErrors == {"InvalidSchemaId"}

Failures(snap) == {snap[t] : t \in Txs} \cap ChainErrors
NoRetry(snap) == \E e \in Failures(snap) : e \notin RetryErrors
Fatal(snap) == \E e \in Failures(snap) : e \notin RetryErrors \cup PauseErrors
MustPause(snap) == \E e \in Failures(snap) : e \in PauseErrors

Verdict_Unhandled(snap, old) ==      \* a state process() has no case for
    IF Fatal(snap) THEN "MonitorFailedNoRetry" ELSE old
Verdict_ExpiredPasses(snap, old) ==  \* an expired transaction is no failure
    IF Failures(snap) = {} THEN "MonitorSuccess"
    ELSE IF ~NoRetry(snap) THEN "ChainFailureRetry" ELSE "ChainFailureNoRetry"
Verdict(snap, old) ==   \* an empty set of transactions has all succeeded
    IF \A t \in Txs : snap[t] \in {"none", "success"} THEN "MonitorSuccess"
    ELSE IF ~NoRetry(snap) THEN "ChainFailureRetry"
    ELSE IF Fatal(snap) THEN "ChainFailureNoRetry"
    ELSE old

HasPending_Mutant(snap) == FALSE     \* the verdict does not wait
HasPending_Tracked(snap) == \E t \in Txs : snap[t] # "none"   \* settled ones too
HasPending(snap) == \E t \in Txs : snap[t] = "pending"

MonitorGoTo(step) == mpc' = step /\ UNCHANGED <<mjob, msnap, mstate>>
MonitorIdle == mpc' = "idle" /\ mjob' = AnyJob /\ msnap' = NoStatus /\ mstate' = "Unprocessed"

PickChild(j) ==
    /\ mpc = "idle" /\ children[j] > 0
    /\ mpc' = "txns" /\ mjob' = j
    /\ UNCHANGED <<queueVars, watch, chainVars, workerVars, msnap, mstate, scanVars, boundVars>>

ReadTxns ==
    /\ mpc = "txns"
    /\ msnap' = getAllTxnsForJob(mjob)
    /\ mpc' = "source"
    /\ UNCHANGED <<queueVars, watch, chainVars, workerVars, mjob, mstate, scanVars, boundVars>>

ReadSource ==        \* still pending: the child is delayed by one block
    /\ mpc = "source"
    /\ IF HasPending(msnap)
       THEN MonitorIdle
       ELSE mpc' = "remove" /\ mstate' = state[mjob] /\ UNCHANGED <<mjob, msnap>>
    /\ UNCHANGED <<queueVars, watch, chainVars, workerVars, scanVars, boundVars>>

ForgetTxns ==        \* the statuses are deleted before the verdict is stored
    /\ mpc = "remove"
    /\ removeJob(mjob)
    /\ MonitorGoTo(IF MustPause(msnap) THEN "pause" ELSE "write")
    /\ UNCHANGED <<queueVars, chainVars, workerVars, scanVars, boundVars>>

PauseOnSchema ==
    /\ mpc = "pause"
    /\ paused' = TRUE
    /\ MonitorGoTo("write")
    /\ UNCHANGED <<place, state, attemptsMade, children, inflight, stalled, watch, chainVars,
                   workerVars, scanVars, boundVars>>

WriteVerdict ==
    /\ mpc = "write"
    /\ state' = [state EXCEPT ![mjob] = Verdict(msnap, mstate)]
    /\ MonitorGoTo("finish")
    /\ UNCHANGED <<place, attemptsMade, children, inflight, paused, stalled, watch, chainVars,
                   workerVars, scanVars, boundVars>>

FinishChild ==
    /\ mpc = "finish"
    /\ ChildDone(mjob)
    /\ MonitorIdle
    /\ stalled' = stalled \ {<<mjob, "child">>}
    /\ UNCHANGED <<state, attemptsMade, inflight, paused, watch, chainVars, workerVars,
                   scanVars, boundVars>>

TxMonitor ==
    \/ \E j \in Jobs : PickChild(j)
    \/ ReadTxns \/ ReadSource \/ ForgetTxns \/ PauseOnSchema \/ WriteVerdict \/ FinishChild

(***************************************************************************)
(* The completion monitor.  A block is the set of transactions it decides: *)
(* included in it, or mortal no longer.  Blocks that decide nothing are    *)
(* not modelled; the death of an included transaction comes later.         *)
(***************************************************************************)
Decided == {t \in Txs : fate[t] \notin {"unsent", "pool"}}

BootCheck ==
    /\ bpc = "boot"
    /\ bpc' = IF getAllPendingTxns = {} THEN "skip" ELSE "idle"
    /\ UNCHANGED <<queueVars, watch, chainVars, workerVars, monitorVars, bblock, bhits, seen,
                   boundVars>>

SkipToHead ==
    /\ bpc = "skip"
    /\ seen' = seen \cup Decided
    /\ bpc' = "idle"
    /\ UNCHANGED <<queueVars, watch, chainVars, workerVars, monitorVars, bblock, bhits, boundVars>>

ReadBlock(b) ==      \* the block's transactions among those pending now
    /\ bpc = "idle"
    /\ b \subseteq Decided \ seen
    /\ b # {} \/ seen \cap getAllPendingTxns # {}
    /\ bblock' = b
    /\ bhits' = {t \in b \cap getAllPendingTxns : fate[t] # "dead"}
    /\ bpc' = "upsert"
    /\ UNCHANGED <<queueVars, watch, chainVars, workerVars, monitorVars, seen, boundVars>>

SettleTx(t) ==       \* writes the whole status back, whatever the cache holds now
    /\ bpc = "upsert" /\ t \in bhits /\ fate[t] # "other"
    /\ upsertWatchedTxn(t, IF fate[t] = "neither" THEN "pending" ELSE fate[t])
    /\ bhits' = bhits \ {t}
    /\ UNCHANGED <<queueVars, chainVars, workerVars, monitorVars, bpc, bblock, seen, boundVars>>

Died_TooSoon(t) == t \in seen \/ fate[t] \in {"pool", "dead"}    \* birth instead of death
Died_Never(t) == FALSE                                           \* no expiry
Died(t) == t \in seen \/ (t \in bblock /\ fate[t] = "dead")

ReadExpired ==       \* death <= current block, among those pending now
    /\ bpc = "upsert" /\ bhits = {}
    /\ bhits' = {t \in getAllPendingTxns : Died(t)}
    /\ bpc' = "expire"
    /\ UNCHANGED <<queueVars, watch, chainVars, workerVars, monitorVars, bblock, seen, boundVars>>

ExpireTx(t) ==
    /\ bpc = "expire" /\ t \in bhits
    /\ upsertWatchedTxn(t, "expired")
    /\ bhits' = bhits \ {t}
    /\ UNCHANGED <<queueVars, chainVars, workerVars, monitorVars, bpc, bblock, seen, boundVars>>

SetLastSeen ==
    /\ bpc = "expire" /\ bhits = {}
    /\ seen' = seen \cup bblock
    /\ bpc' = "idle" /\ bblock' = {} /\ UNCHANGED bhits
    /\ UNCHANGED <<queueVars, watch, chainVars, workerVars, monitorVars, boundVars>>

CompletionMonitor ==
    \/ BootCheck \/ SkipToHead \/ ReadExpired \/ SetLastSeen
    \/ \E b \in SUBSET Txs : ReadBlock(b)
    \/ \E t \in Txs : SettleTx(t) \/ ExpireTx(t)

(***************************************************************************)
(* The chain: a pooled transaction is included, with some outcome, or its  *)
(* mortal period passes.  An upsertPage whose prevHash is not the page's   *)
(* current hash fails, and with it the whole batch.  What a transaction    *)
(* did of which the events tell neither is open.                           *)
(***************************************************************************)
Include(t, outcome) ==
    /\ fate[t] = "pool"
    /\ fate' = [fate EXCEPT ![t] = outcome]
    /\ \/ /\ outcome \in {"success", "neither"}
          /\ txPages[t] \cap onchain[txJob[t].user] = {}
          /\ onchain' = [onchain EXCEPT ![txJob[t].user] = @ \cup txPages[t]]
       \/ outcome # "success" /\ UNCHANGED onchain
    /\ UNCHANGED <<queueVars, watch, txJob, txPages, workerVars, monitorVars, scanVars, boundVars>>

OutliveMortality(t) ==
    /\ fate[t] = "pool"
    /\ fate' = [fate EXCEPT ![t] = "dead"]
    /\ UNCHANGED <<queueVars, watch, txJob, txPages, onchain, workerVars, monitorVars, scanVars,
                   boundVars>>

Settle(t) == OutliveMortality(t) \/ \E o \in Outcomes \cup OddOutcomes : Include(t, o)

(***************************************************************************)
(* The queue's pause: webhook.gone and capacity.exhausted against          *)
(* webhook.healthy, capacity.available and the boot of the consumer.       *)
(***************************************************************************)
PauseQueue ==
    /\ Outages
    /\ ~paused /\ paused' = TRUE
    /\ UNCHANGED <<place, state, attemptsMade, children, inflight, stalled, watch, chainVars,
                   workerVars, monitorVars, scanVars, boundVars>>

ResumeQueue ==
    /\ paused /\ paused' = FALSE
    /\ UNCHANGED <<place, state, attemptsMade, children, inflight, stalled, watch, chainVars,
                   workerVars, monitorVars, scanVars, boundVars>>

(***************************************************************************)
(* The end of the process, from outside or by its own doing: getTxStatus   *)
(* throws at a failure that is no module error, for it has no asModule,    *)
(* nobody catches it, and it throws again when the block is read again.    *)
(* What Redis holds survives; a locked job stalls, and returns to its      *)
(* queue once, or fails (a child's failure fails its parked parent).       *)
(***************************************************************************)
JobStalls_Mutant(p) == p     \* no recovery of stalled jobs
JobStalls(p) ==
    IF p[cjob] # "active" THEN p
    ELSE [p EXCEPT ![cjob] = IF <<cjob, "job">> \in stalled THEN "failed" ELSE "waiting"]
ChildDies == mpc # "idle" /\ <<mjob, "child">> \in stalled
ParentFails(p) == IF ChildDies /\ p[mjob] = "waitingChildren"
                  THEN [p EXCEPT ![mjob] = "failed"] ELSE p

StartAgain ==
    /\ crashes' = IF crashes < MaxCrashes THEN crashes + 1 ELSE crashes
    /\ place' = ParentFails(JobStalls(place))
    /\ children' = IF ChildDies THEN [children EXCEPT ![mjob] = @ - 1] ELSE children
    /\ stalled' = stalled \cup {<<j, "job">> : j \in {k \in Jobs : place[k] = "active"}}
                          \cup (IF mpc = "idle" THEN {} ELSE {<<mjob, "child">>})
    /\ inflight' = [j \in Jobs |-> 0]
    /\ paused' = TRUE
    /\ Idle /\ MonitorIdle
    /\ bpc' = "boot" /\ bblock' = {} /\ bhits' = {}
    /\ UNCHANGED <<state, attemptsMade, watch, chainVars, seen, enqueues>>

Crash == crashes < MaxCrashes /\ StartAgain

SettleThrows ==
    /\ bpc = "upsert" /\ \E t \in bhits : fate[t] = "other"
    /\ StartAgain

Environment ==
    \/ \E j \in Requests : ScannerEnqueue(j) \/ TransitiveEnqueue(j)
    \/ \E j \in Jobs : ChildAdded(j)
    \/ \E t \in Txs : Settle(t)
    \/ PauseQueue \/ ResumeQueue \/ Crash

Next == Consumer \/ TxMonitor \/ CompletionMonitor \/ SettleThrows \/ Environment

Spec == Init /\ [][Next]_vars

(***************************************************************************)
(* Fairness.  The service runs: every started handler goes on.  BullMQ     *)
(* takes jobs and children from their queues in order, so a waiting one is *)
(* not passed over for ever however often the queue is paused (SF).  The   *)
(* webhook and capacity recover in the end, blocks go on being produced,   *)
(* and a mortal transaction is included or dies.                           *)
(***************************************************************************)
ConsumerStep == cpc # "idle" /\ Consumer
MonitorStep == mpc # "idle" /\ TxMonitor

Fairness ==
    /\ \A j \in Jobs : SF_vars(Pick(j)) /\ SF_vars(PickChild(j)) /\ WF_vars(ChildAdded(j))
    /\ WF_vars(ConsumerStep) /\ WF_vars(MonitorStep) /\ WF_vars(CompletionMonitor \/ SettleThrows)
    /\ \A t \in Txs : WF_vars(Settle(t))
    /\ WF_vars(ResumeQueue)

FairSpec == Spec /\ Fairness

(***************************************************************************)
(* Safety                                                                  *)
(***************************************************************************)
\* No page of a user's graph is in two tracked unsettled transactions of the same
\* job key: updateGraph (:117) submits only for a key that is not tracked, whatever
\* the two workers, the crashes and the sibling job of the same user do.  Not counted is
\* one that is pending only because its block told neither success nor failure: the write
\* of its old status may bring it back after it was untracked.
Live == {t \in getAllPendingTxns : fate[t] # "neither"}
OneLiveSubmission ==
    \A s, t \in Live :
        s # t /\ JobKey(txJob[s]) = JobKey(txJob[t]) => txPages[s] \cap txPages[t] = {}

\* A settled status in the cache is what the chain did with the transaction, and a
\* transaction marked expired can no longer be included, even though processCurrentBlock
\* writes back statuses read before other processes changed the cache.
CacheAgreesWithChain ==
    \A t \in Txs : /\ watch[t] \in Outcomes => fate[t] = watch[t]
                   /\ watch[t] = "expired" => t \in Decided
                   /\ watch[t] # "none" => fate[t] # "unsent"

\* A parked job has a monitor child that will release it, and a child has a parent:
\* moveToWaitingChildren parks only over a child that is in Redis, and no removal
\* (dead letter, transitive update) or crash separates the two.
ParkedHasMonitor ==
    \A j \in Jobs : /\ place[j] = "waitingChildren" => children[j] > 0
                    /\ children[j] > 0 => place[j] # "absent"

\* The consumer keeps the lock of the job it works on until it parks, fails or
\* completes it: no other handler moves an active job.
WorkerOwnsJob ==
    /\ \A j \in Jobs : place[j] = "active" <=> cpc \notin {"idle", "mark"} /\ cjob = j
    /\ cpc = "mark" => place[cjob] \in {"waitingChildren", "waiting"}

\* The next four are about a service that has not crashed yet: a crash between two
\* writes of Redis may leave a job without its transactions (README, 7).  Nor is the graph
\* of a user who has not granted it updated: formConnections finds no actions then.
Updated(u) == onchain[u] = Pages \/ u \in Revocable

\* A job leaves the queue as completed only when every page the provider's graph
\* changes has been updated on chain.
CompletedMeansUpdated ==
    [][crashes = 0 => \A j \in Jobs : place[j] = "active" /\ place'[j] = "absent"
                          => Updated(j.user)]_vars

\* A request for an update, whoever makes it, is not lost between the queue, the
\* consumer, the monitors and the dead letters: it stays until the graph is on chain or
\* it has visibly failed, as UpdateRequests says.
RequestOf(j) == CASE place[j] = "absent" -> "none" [] place[j] = "failed" -> "failed"
                  [] OTHER -> "open"
Requested == INSTANCE UpdateRequests WITH
    request <- [j \in Jobs |-> RequestOf(j)], onchain <- onchain, crashed <- crashes > 0,
    Excused <- Revocable
KeepsRequests == Requested!Spec

\* A tracked transaction is not forgotten while it is pending.
NoPendingForgotten ==
    [][crashes = 0 => \A t \in Txs : watch[t] = "pending" => watch'[t] # "none"]_vars

\* The monitor's success verdict, logged as "All transactions completed", is written
\* only when the user's pages are on chain.
SuccessVerdictSound ==
    [][crashes = 0 /\ mpc = "write" /\ mpc' = "finish" /\ state'[mjob] = "MonitorSuccess"
          => Updated(mjob.user)]_vars

\* The monitor never writes 'Submitted' as its verdict on a job it is about to release:
\* process() (:60) says of such a job that processing it "should not happen".
VerdictResolves ==
    [][mpc = "write" /\ mpc' = "finish" => state'[mjob] # "Submitted"]_vars

\* A scanner retry of a failed job starts the update over.
RetryStartsOver ==
    [][\A j \in Jobs : place[j] = "failed" /\ place'[j] = "waiting"
                          => state'[j] = "Unprocessed"]_vars

(***************************************************************************)
(* Liveness                                                                *)
(***************************************************************************)
\* The monitor throws at the block of such a transaction each time the service is started,
\* and comes no further: what waits for it then waits for ever (getTxStatus, :53-55).
MonitorStuck == \E t \in Txs : fate[t] = "other"

\* A queued job is resolved: completed, or failed for good.  It does not stay parked on its
\* monitor child, which is delayed while transactions are pending, and retries do not go on
\* for ever, whatever the webhook, the pauses, the crashes and the verdicts of the chain,
\* unless the monitor is stuck.
QueuedIsResolved ==
    \A j \in Jobs :
        place[j] = "waiting" ~> place[j] \in {"absent", "failed"} \/ MonitorStuck

\* The completion monitor does not leave a tracked transaction pending, not even one of
\* which the block told nothing: it expires.  Unless the monitor is stuck.
PendingIsSettled ==
    \A t \in Txs : watch[t] = "pending" ~> watch[t] # "pending" \/ MonitorStuck

=============================================================================
