# Reconnection service: verification project

TLA+ models of the reconnection service (TypeScript, under `src/`), the TLC
configurations that check them on small instances, and TLAPS proofs of the results that
matter most for every value of the constants. Paths below are relative to `src/src/`
unless they say otherwise.

- [1. The system](#1-the-system)
- [2. The modules](#2-the-modules)
- [3. The runs](#3-the-runs)
- [4. Bounds](#4-bounds)
- [5. Fairness](#5-fairness)
- [6. What is proved](#6-what-is-proved)
- [7. What the code does against its own words](#7-what-the-code-does-against-its-own-words)
- [8. Not modelled](#8-not-modelled)
- [9. Plan](#9-plan)

## 1. The system

The service migrates users' social graphs to a chain (Frequency). When a user delegates to
the provider, or when one of a user's connections does, a *graph-update job* asks the
provider's webhook for the user's graph, imports what the chain has, submits the difference
as a batch of page updates in mortal transactions, and waits for the chain to settle them.
Everything runs on Node's one thread; what is concurrent is what happens between two
`await`s. Jobs, the cache of watched transactions and the scanners' positions are in Redis and
survive a restart; flags, timers and locks do not.

### Components

| Component | Code | State | Operations |
|---|---|---|---|
| Graph-update consumer | `processor/graph-update-queue-consumer.service.ts` | `webhookOk`, `capacityExhausted`, the pause of its queue | `process` (one job at a time), `updateGraph`; handlers of `webhook.gone`, `webhook.healthy`, `capacity.exhausted`, `capacity.available`; boot |
| Reconnection graph service | `processor/reconnection-graph.service.ts` | none of its own; writes the transaction cache | `updateUserGraph`: fetch, import, export, `processSingleBatch`; `getUserGraphFromProvider` with its failures in a row; enqueues the transitive updates |
| Transaction monitor | `processor/tx-monitor-queue-consumer.service.ts` | none; children of parked jobs | `process`: reads the tracked transactions of a job, writes the verdict into the job, forgets the transactions; pauses the queue on a schema error |
| Completion monitor | `processor/graph-update-completion-monitor.service.ts` | `lastSeenBlockNumber` of its own, capacity used per epoch | a block scan that settles pending transactions and expires those whose mortality has passed; skips to the head at boot when nothing is pending |
| Transaction cache | `cache/reconnection-cache-mgr.service.ts` | one Redis hash per job key: status of each transaction | `upsertWatchedTxn`, `removeJob`, `doesJobKeyExist`, `getAllPendingTxns`, `getAllTxnsForJob` |
| Blockchain scanner | `blockchain-scanner.service.ts` | `scanInProgress`, `lastSeenBlockNumber` | `scan`, the checks before and in it, the copy of the older key |
| Delegation scanner | `graph-update-scanner.service.ts` | as above | a scan by interval, at boot and when the queue drains; `getJob`, `retry` or `add` for each delegation |
| Provider webhook | `processor/provider-webhook.service.ts` | counters of failed and successful health checks, the health-check timer | health check, its next timer, `webhook.healthy`, shutdown after too many failures |
| Capacity checks | `blockchain/blockchain.service.ts` | none (a timer in the consumer) | `checkCapacity` for every block and at the end of the epoch |
| Job queues | `processor/processor.module.ts` and BullMQ | places, data, attempts, children of jobs | add, remove, retry, park on children, stall |
| Nonce service | `processor/nonce.service.ts`, `cache/cache-utils.ts`, `src/lua` | expiring keys, one per reserved nonce | `getNextNonce` |

How they interact: the scanner and the consumer *enqueue* jobs; the consumer *adds a child*
in the monitor's queue and parks the job; the completion monitor and the consumer *write*
the transaction cache the transaction monitor reads and deletes; the transaction monitor
*writes the parked job's data*, and its child's end *releases* the job; the webhook, the
capacity checks and the transaction monitor *pause or resume* the queue, through events or
directly; the queue's `drained` event *starts a scan*.

### What is hard in it

- Four processes read a part of Redis, await, and write back what they read: the cached
  status of a transaction is a whole value written over whatever is there by then.
- A child is added to a queue without an `await`, and the parent is parked right after it;
  the parent's data are updated after it was parked and unlocked.
- A crash may fall between any two of these steps; stalled jobs come back once.
- A transaction may be sent though sending it threw; it may fail, or die unseen.
- The scan's flag is tested before an `await` and set after it.
- Births and deaths of transactions are computed for the head of the chain, their era starts
  at the finalized block; what a block includes may be tracked after the block was processed.
- The update of one user asks for the updates of others, whose jobs may be waiting, parked
  on older transactions or at work.
- Nonces are reserved by keys that live two seconds, against an index that may be old.
- Three reasons pause the queue, two flags remember two of them, and handlers that await
  the chain or Redis in the middle act on flags read before.

`PROJECT.json` lists these hazards line by line, each with the properties that would show
it going wrong.

### What makes each part correct

- *Consumer, monitors, cache* (GraphUpdateJobs): the cached status agrees with the chain; a
  job is not submitted twice; a parked job has a child that will release it; a completed job's
  pages are on chain; every job is resolved in the end.
- *Migration* (TransitiveUpdates): nothing is published but the provider's connections between
  users who delegated (Migration); all of these are on the chain when the service comes to rest,
  and it does.
- *Completion monitor* (CompletionMonitor): a transaction called expired is dead; an included one
  is missed only if its block was passed before it was tracked; the capacity of an epoch is not
  counted twice; everything tracked is settled.
- *Scanners* (BlockchainScanner): no block is stepped over; no delegation is lost; every
  block is scanned in the end.
- *Queue gate* (QueueGate): the queue is closed while the webhook is down, the health check
  never falls asleep during an outage, and the queue reopens when all is well again.
- *Nonces* (NonceAllocator): no nonce is used twice while its key lives; a skipped one is used
  in the end.

## 2. The modules

| Module | Extends | Models |
|---|---|---|
| `UpdateRequests` | | abstract: what the job queue promises to whoever asks for an update |
| `GraphUpdateJobs` | (INSTANCE `UpdateRequests`) | the life of a job through the consumer, both monitors, the cache, BullMQ and the chain |
| `MCGraphUpdateJobs` | `GraphUpdateJobs` | the sets of jobs for TLC |
| `GraphUpdateJobsProofs` | `GraphUpdateJobs`, TLAPS | its theorems on types, the cache, the queue and what is submitted |
| `GraphUpdateOutcomeProofs` | `GraphUpdateJobsProofs`, TLAPS | its theorems on what becomes of a job, the refinement of `UpdateRequests` among them |
| `Migration` | | abstract: what the service promises of the social graph |
| `TransitiveUpdates` | (INSTANCE `Migration`) | how the updates of several users make one graph; implements `Migration` |
| `MCTransitiveUpdates` | `TransitiveUpdates` | three users and their connections for TLC |
| `TransitiveUpdatesProofs` | `TransitiveUpdates`, TLAPS | its theorems, the refinement of `Migration` among them |
| `BlockchainScanner` | | the scan both scanners inherit, with the delegation scanner's block processing |
| `MCBlockchainScanner` | `BlockchainScanner` | the delegations in each block for TLC |
| `BlockchainScannerProofs` | `BlockchainScanner`, TLAPS | its theorems |
| `CompletionMonitor` | `BlockchainScanner` | sending, settling and expiring transactions block by block, composed with the scan; implements `BlockchainScanner` |
| `MCCompletionMonitor` | `CompletionMonitor` | the empty delegations and the bound on faults for TLC |
| `CompletionMonitorProofs` | `CompletionMonitor`, `BlockchainScannerProofs`, TLAPS | its theorems, the refinement of the scanner among them |
| `NonceAllocator` | | the reservation of nonces |
| `NonceAllocatorProofs` | `NonceAllocator`, TLAPS | its theorems |
| `QueueGate` | | who pauses and resumes the queue: webhook, capacity, schema errors |
| `QueueGateProofs` | `QueueGate`, TLAPS | its theorems |

An action is the code between two `await`s of one process. `PROJECT.json` (`map`) gives the
lines of each definition.

### GraphUpdateJobs

A job id is a record `[user, transitive, dead]`: the code's id string is the MSA id, the
provider id and the transitive flag, `dsnpId:providerId:true`, with the dead-letter prefix before
it. `JobKey` is the key under which the cache keeps a job's transactions: `makeJobKey` strips
the suffix `:true` or `:false` and keeps the prefix, so the transitive and the plain job of one
user share a key, and a dead letter has one of its own.

| State | In the code |
|---|---|
| `place`, `attemptsMade`, `children`, `inflight`, `stalled`, `paused` | BullMQ: the set a job is in (delayed counts as waiting), failed attempts, unprocessed children, children added without `await` that have not reached Redis, jobs that stalled once, the pause |
| `state` | `job.data.state` |
| `watch` | the cache, `"none"` for a transaction that is not tracked |
| `fate`, `txJob`, `txPages`, `onchain` | the chain: what became of each transaction, whose it is, the pages in it, the pages updated |
| `cpc`, `cjob`, `ctodo`, `ctx` | the consumer: its step, its job, the pages still to send, the transaction just sent |
| `mpc`, `mjob`, `msnap`, `mstate` | the transaction monitor: step, job, the statuses and the state it read |
| `bpc`, `bblock`, `bhits`, `seen` | the completion monitor: step, block, the transactions it will write, the transactions decided at or below `lastSeenBlockNumber` |

The consumer runs `Pick`, then the switch of `process()` (`FirstStep`). For an unprocessed
job: `CheckKey` (`doesJobKeyExist`), `FetchGraph` or `FetchFails`, for each batch
`SendBatch` and `RecordTx` or `SendFails`, `Untrack` (the `catch` of `updateUserGraph`),
`TrackTxs` (the child, not awaited, which `ChildAdded` brings to Redis), `AwaitChildren`
(`moveToWaitingChildren`), `MarkSubmitted`; or `Caught` (the `catch` of `updateGraph`) with the
dead letter, and `ThrowError`. A retry by verdict is `ResetForRetry`; `CompleteJob` and
`ThrowUnrecoverable` end the job. The transaction monitor runs `PickChild`, `ReadTxns`,
`ReadSource`, `ForgetTxns`, `PauseOnSchema`, `WriteVerdict`, `FinishChild`. The completion
monitor runs `BootCheck`, `SkipToHead`, and per block `ReadBlock`, `SettleTx`, `ReadExpired`,
`ExpireTx`, `SetLastSeen`.

`formConnections` finds no actions when the user's delegation is gone, and leaves out what the
schema grants do not cover; the job then completes with nothing, or with less, sent. `Granted`
says what `FetchGraph` may find, for the users in `Revocable`; `Updated` excuses these users in
the properties on outcomes (`Excused` in UpdateRequests).

`OddOutcomes` are what the completion monitor does not expect of an included transaction. Of
`"neither"` its block tells neither success nor failure, and `SettleTx` writes back the status it
had read, `"pending"`, whatever the cache holds by then. At `"other"`, a failure that is no
module error, `getTxStatus` throws (`SettleThrows`): nobody catches it, the process ends, and as
the block's number is not written the same block comes again after each start. `SettleThrows`
and `Crash` are the two ways to `StartAgain`.

Abstractions: a page is a model value, and an update of a page that is on chain already fails
its batch (its `prevHash` is stale); a block is the set of transactions it decides, and blocks
that decide nothing are left out; `getAllPendingTxns` is one step (it reads hash after hash);
a crash restarts the three processes together, as they are one. The graph of a user does not
change while the job lives: with a changing graph "all pages are on chain" would have no
meaning.

`UpdateRequests` is the abstract specification: a job is asked for (`request` is open), and
the request stays until all the user's pages are on chain (`Complete`) or the job has failed for
good (`Fail`), after which it may be asked for again. A dead letter may be taken back
(`Withdraw`), for the job it was made from takes its place; `Publish` puts pages on the chain at
any time; and after a `Crash` open requests may fail and a request may be closed too early. The
refinement mapping reads `request` off `place` (`RequestOf`): a job that is absent is not asked
for, a failed one has failed, any other is open, whoever works on it.

### BlockchainScanner

`Delegations` chooses between the delegation scanner and the completion monitor. `pc`, `cur`
and `todo` are per call of `scan()`, since calls may overlap. `Boot` reads the older key and
copies it; in the delegation scanner the first scan does not wait for it. `Call` starts a scan
(in the completion monitor the check resolves at once, so the flag is set in the same step),
`CheckInitialScanParameters` answers with the queue's size and sets the flag, `GetLastSeen`,
`GetHash`, `CheckScanParameters` (the high-water mark), per delegation `LookAtJob` then
`AddJob` or `RetryJob`, `ProcessedBlock`, `SetLastSeen`. What `scan()` throws nobody catches:
`ScanThrows` and `Restart` are the process dying and starting again. `Spec` is the delegation
scanner; `BaseSpec` adds what the completion monitor does besides, `SkipTo` at boot and
`MonitorThrows`, and is what CompletionMonitor implements. The consumer is what the
scanner can see of it, `JobStep`; GraphUpdateJobs models it in full. A job that became active
fetches the graph (`FetchGraph`) or finds transactions of the user tracked, those of the user's
other job for example, and parks without fetching (`AwaitTracked`). `handled`, `asked`, `served`
(a job fetched after the delegation) and `joined` (a job found tracked transactions after it) are
history variables.

### CompletionMonitor

The model has explicit blocks, `1..MaxBlock`, and adds to the scanner's variables those of the
chain (`era`, `included`, `outcome`), the cache (`status`, `death`, `used`: the capacity counted
per epoch) and of two processes. The sender is `processSingleBatch`: `ReadBlockNumber`, `Send` or
`SendFails`, `Record`. The monitor's boot is `CheckPending`, `ReadHead`, `SkipToHead`, then the
scanner's copy of the key. `processCurrentBlock` is `ReadPending`, `SettleTx` for each
transaction found, `GetEpochCapacity`, `SetEpochCapacity`, `ReadExpired`, `ExpireTx`,
`EndOfBlock`. Around it, `Call`, `GetLastSeen`, `GetHash`, `CheckScanParameters`, `ProcessedBlock`
and `SetLastSeen` are BlockchainScanner's own actions. `SettleThrows` is `getTxStatus` at a failure
that is no module error: the process ends, and the block is the first one after the restart.
`Forget` is a `removeJob` of the transaction monitor or of a failing update, at any time.

`Birth` and `Death` are what polkadot computes: the start of the period that holds the block
given, and its end. `Outcomes` are what the block's events tell: success, a module error
(`failed`), neither, or another error (`other`). Every transaction costs one unit of capacity.
`passed` is a history variable: the transactions whose block the monitor had read or skipped
when they were tracked.

### TransitiveUpdates

The scanner gives every user who delegated a transitive job; a job goes through `PickJob`,
`AwaitTracked` (the key exists: nothing is fetched) or `StartUpdate`, `FetchGraph` (the
webhook's answer and the import), a `QueueConnection` for each connected user whose plain job
is removed and added anew, and `NothingToSend` or `SendUpdates`; then `Judge` and `Verdict` end
it. A `bidirectional` connection of the code is the pair of its two directions. What the chain
takes of a job is all of it or nothing: the batch was made for the pages as imported
(`prevHash`), so it fails on pages that changed since (`PagesAreStale`). The remaining mechanics
of jobs, batches and the cache are GraphUpdateJobs'. `Staged` restricts the environment: users
delegate one after the other, each when the service is at rest, as in the repository's
sequence diagram.

`Migration` is the abstract specification: users delegate, and some connections of a user who
delegated, to others who did, become public. It has the same `delegated` and `onchain`, so the
refinement mapping is the identity, and everything else in TransitiveUpdates is a stutter.

### NonceAllocator

`GetNonce` reads the account's next index, `Reserve` is the Lua script with the computation
after it (`IncrementNonce`, or `Full` when all keys exist), `Send` gives the transaction to the
node, which refuses a nonce that is taken. `Expire` may remove a key at any time. `Calls` are
calls of `processSingleBatch` at once: one process makes one at a time, several instances share
Redis and the account. `unguarded` is a history variable: nonces that no key guards (any more).
`peekNextNonce` changes nothing and is left out.

### QueueGate

`webhookOk`, `capacityExhausted`, `failedHealthChecks`, `successfulHealthChecks` are the fields
of the code. A timer of `SchedulerRegistry` is found by its name, but it runs whether its name
could be registered or not: `healthTimer` and `capacityTimer` are the named ones, `looseChecks`
and `looseCapacityTimers` count those without a name. Events are emitted and handled in the
order of emission; an event and its first synchronous handler code are one action
(`WebhookGone`, `HealthCheckSucceeds`, `handleCapacityExhausted`, `handleCapacityAvailable`).
All commands to the queue go through one connection, so that a pause or a resume takes effect
in the order of the calls while its caller still waits for the answer. Nothing outlives the
process, so a restart is `Init`. `raced` is a history variable: a capacity check that had decided
to resume the queue was waiting for its answer when the outage began.

## 3. The runs

`tlc -config <run>.cfg <module>`; where a configuration says `CHECK_DEADLOCK FALSE` the system
does stop: when there is nothing left to do within the bounds (GraphUpdateJobs,
NonceAllocator), when the chain ends (BlockchainScanner, CompletionMonitor) or by its own
shutdown (QueueGate). The two runs of TransitiveUpdates check deadlock: its scans go on.

| Run | Module | Checks | Shows |
|---|---|---|---|
| `jobs_crashes` | MCGraphUpdateJobs | `TypeOK`, `WorkerOwnsJob`, `CacheAgreesWithChain`, `OneLiveSubmission`, `CompletedMeansUpdated`, `KeepsRequests`, `SuccessVerdictSound`, `NoPendingForgotten` | one job, with crashes, attempts, the dead letter and both odd outcomes: the lock holds, no page is in two tracked live transactions, and the cache never contradicts the chain; as long as nothing has crashed, a job completes and is called successful only when its pages are on chain, and no pending transaction is forgotten; the refinement of `UpdateRequests` |
| `jobs_siblings` | MCGraphUpdateJobs | `OneLiveSubmission`, `ParkedHasMonitor` | the transitive and the plain job of one user, an unordered child, a queue paused at any time, a stale `"pending"` written back and missing grants, without a crash: never two tracked live transactions with one page, never a parked job without a child |
| `jobs_liveness` | MCGraphUpdateJobs | `QueuedIsResolved`, `PendingIsSettled` | a crash, an expiry, an outcome the block does not tell, a retry and a dead letter: all jobs end, none stays parked, and no transaction stays pending, unless the monitor is stuck |
| `jobs_partial_batch` | MCGraphUpdateJobs | `CompletedMeansUpdated` (violated) | see section 7 |
| `jobs_schema_error` | MCGraphUpdateJobs | `VerdictResolves` (violated) | see section 7 |
| `migration_staged` | MCTransitiveUpdates | `TypeOK`, `QuietMeansMirrored`, `ImplementsMigration`, `ConnectionsAreMirrored` | three users who migrate one after the other, with failing jobs and transactions: the refinement, and every connection of users who delegated is on the chain at rest, to which the service comes |
| `migration_overlap` | MCTransitiveUpdates | `QuietMeansMirrored` (violated) | see section 7 |
| `monitor_blocks` | MCCompletionMonitor | `MonitorTypeOK`, `ExpiredIsDead`, `MissedOnlyIfPassed`, `NeverOvercounted`, `ScansAreExclusive`, `ScansLikeTheScanner`, `TrackedIsSettled` | two transactions and every interleaving of sending, tracking, booting and block processing, with a restart or an unexpected outcome |
| `scan_delegations` | MCBlockchainScanner | `TypeOK`, `NoBlockSkipped`, `DelegationNotLost` | the delegation scanner's scans overlap, die and restart, and still step over no block; while every user delegates once no delegation is lost, but to a job that found tracked transactions |
| `scan_liveness` | MCBlockchainScanner | `EveryBlockIsScanned` | after an older version, every block is scanned in the end although scans are deferred, stop at the mark and die |
| `gate_recovery` | QueueGate | `TypeOK`, `HealthCheckGoesOn`, `OutageKeepsQueueClosed`, `QueueReopens`, `ExhaustionPausesAgain` | outages, exhaustion and schema errors together: a health check is always pending in an outage, the queue is closed in it unless a resume was on its way at its beginning, it reopens, and a stale resume does not last |
| `nonce_gaps` | NonceAllocator | `TypeOK`, `NonceIsFresh`, `SkippedNonceIsFilled` | two instances at once, keys that expire at any time, calls that die and transactions the pool drops: no nonce twice while its key lives, and no gap that stays |

Every property has a mutant of the code in `PROJECT.json`: an operator next to the one it
replaces (`..._Mutant` and the like), a bug of the kind that code could have, under which TLC
finds the property violated.

Some preconditions are part of what the passing runs show; section 7 says what happens
without them. `CompletedMeansUpdated`, `SuccessVerdictSound`, `NoPendingForgotten` and, in its
`Complete`, `KeepsRequests` speak of the time before the first crash, for a job alone, with
one batch and with the user's grants (no user is `Revocable` in `jobs_crashes`).
`OneLiveSubmission` does not count a transaction of which its block told nothing.
`QueuedIsResolved` and `PendingIsSettled` except `MonitorStuck`: a transaction of which the block
tells a failure that is no module error. `DelegationNotLost` is for users who delegate once, and
excepts a delegation whose job found tracked transactions. `QuietMeansMirrored` and `ConnectionsAreMirrored` are for `Staged`
delegations and leave out users with a failed job. `OutageKeepsQueueClosed` leaves out an outage
that began with a resume on its way, `MissedOnlyIfPassed` names the two ways of missing a
transaction that the code has, `NeverOvercounted` supposes that the events of included
transactions tell their outcome (one that stays pending is counted again), and `TrackedIsSettled`
that no included transaction has an outcome at which the monitor throws.

## 4. Bounds

Every bound is a constant marked `BOUND` or a guard that names it.

- *Jobs*: one user with one job, or with both of its jobs. Users interact only through the
  queue's order and pause; what jobs share, the key of the cache, is shared by the two jobs
  of one user. The dead letter adds a second job to each.
- `MaxTxs`: a transaction, and the one that replaces it after an expiry, an error or a lost
  answer. `jobs_liveness` has one: the second adds the same loop again.
- `OddOutcomes`: both where there is one job; siblings have `"neither"`, since `"other"` ends the
  process and they run without a crash. `Revocable` has the user where siblings share a key,
  and nobody where the properties are about what is on chain.
- `BatchLimit = 1` and two pages make two batches; one page makes one.
- `MaxAttempts`: 2 in `jobs_crashes` and `jobs_liveness`, so that an attempt fails, the dead
  letter is made and both go on; 1 where siblings multiply the states.
- `MaxCrashes`: `Crash` happens that many times; `SettleThrows` may happen at every start, and
  `crashes`, which counts both, stays at the bound. Two: a job stalls, comes back, stalls again and
  fails. In `jobs_crashes`, `FewFaults` bounds failed attempts, crashes and odd outcomes together:
  two of one kind or of two, at any step. `jobs_liveness` has no such bound.
- `ChainErrors`: one error per class the verdict tells apart: to be retried
  (`StalePageState`, as an expiry is, which every run has), never to be retried
  (`UnauthorizedDelegate`), to be retried after a pause (`InvalidSchemaId`).
- After a throw the model's monitor may read another block first, where the code reads the same
  one: it may do more than the code, which is safe for the invariants; the liveness properties
  leave this case out.
- `OrderedAdds = TRUE` says that the child added without `await` reaches Redis before the
  parent is parked, as it does on one connection; `jobs_siblings` does without.
- *Scanner*: three or four blocks, two calls at once (a third could only repeat what the
  second does), and two users, each of whom delegates in one block. `HighWater = 1`, so that the
  mark is reached between the two delegations and the scan has to go on later.
- *Migration*: three users, of whom one connection goes both ways and two go one way, so
  that the transitive update is needed in each direction; `MaxFailures = 2` failed jobs or
  transactions. `migration_overlap` needs none.
- *Monitor*: two transactions (what overlaps is one being tracked while another is settled), a
  chain of four blocks, a period of three and epochs of two: a transaction lives, is
  included or dies within the chain, and an epoch has blocks of both. `FinalityLag = 1`, below the
  period. The chain's last block comes when the sender and the boot are done, so that what is
  tracked sees one more block. The guard of `Send` is an assumption on time: signing is not
  delayed after the reading of the block number until that block is finalized, which takes
  the chain several blocks; without it the era may start a period later than the death that
  is computed. `ReadBlockNumber` starts nothing that would not expire within the chain. `OneFault` bounds restarts, unexpected outcomes and forgotten
  transactions together to one. `Outcomes` leaves out `failed`, which the monitor treats like
  `success` except for the value it writes.
- *Nonces*: `KeysToCheck = 2` for 50, so that all keys exist when two calls hold them; the first
  indices `0..2`, two faults. The proofs have these as constants of any value.
- *Gate*: two capacity checks at once, so that the second overtakes the first. `MaxLoose`
  saturates: more timers without a name count as that many; the proofs hold for every value.
  Two failures in a row are an outage, two good answers its end, two more failures the
  shutdown.

## 5. Fairness

*Jobs.* A handler that was started goes on (`WF` of the steps of each process): Node runs
every callback, and a query that is not answered throws in the end. BullMQ takes jobs in
order, so no waiting job is passed over for ever, however often the queue is paused in
between (`SF` of `Pick` and `PickChild`). A transaction in the pool is included or its
mortality passes. The completion monitor goes on, be it by throwing
(`WF` of `CompletionMonitor \/ SettleThrows`). A paused queue is resumed some time, which is what `gate_recovery` shows
of the gate. Nothing is assumed of crashes, failures of the chain or enqueues.

*Scanner.* An interval calls `scan()` again and again; a scan that is in progress goes on; the
consumer ends every job, which is `QueuedIsResolved` of GraphUpdateJobs (its exception, a
completion monitor that is stuck, would stop the scans too: the queue would not become empty);
an active job fetches, joins tracked transactions or fails. `SF` stands where an
interruption by a crash, or by a job that fails, must not last for ever.
`scan_liveness` has one call of `scan()` at a time: with two, one of them may find a
failed job, see the other retry it first, throw, and end the process, over and over, and no
fairness the code justifies rules this out.

*Monitor.* The chain grows; what the sender, the boot, the interval's scan and the block
processing await is answered. Nothing is assumed of sending, forgetting or restarts.

*Migration.* The interval starts a scan when the queue is empty, and it goes on; a waiting job
is picked and worked on (`QueuedIsResolved` of GraphUpdateJobs); a transaction in the pool is
decided; a child whose transactions are settled is processed. Nothing is assumed of
delegations or failures.

*Nonces.* Calls that are alive are answered, keys expire, and there is a next call: the
transactions that wait behind a gap are called expired when their era is over, and the retry
of their job sends again. Nothing is assumed of inclusion, dropping or faults.

*Gate.* Timers go off, an awaited request is answered, every block starts a capacity check
(unless one is still at it), and the queries of these checks do not fail for ever (`SF` of
`CapacityRead`). Nothing is assumed of the jobs, nor of how long an outage takes;
`QueueReopens` has the recovery of both as its hypothesis.

## 6. What is proved

The theorems hold for every value of the constants that the modules' assumptions allow:
any set of users and jobs, any pages, any number of transactions, attempts and crashes, any
chain, any number of scans, any thresholds, any number of capacity checks, any social graph, any
period, any number of keys and instances. The assumptions only say what kind of value a
constant has, that the names of module errors are not those of the statuses, that a process which may throw
(`"other"` in `OddOutcomes`) may crash (`MaxCrashes > 0`), that the finalized
block is less than a period behind, and that the users of the migration are finitely many (the
size of the queue is the number of its jobs). A theorem that needs more than that says so after
ASSUME, and the table repeats it.

| Theorem | States | Argument |
|---|---|---|
| `JobsTypeCorrect` | `TypeOK` of the jobs | inductive with `MonitorHasChild` (the monitor works on a job that has an unprocessed child: `children` does not go below 0) and `HitsAreIncluded` (the completion monitor writes outcomes only for included transactions): `TypeInv` |
| `CacheCorrect` | `CacheAgreesWithChain` | with `WritesAgree`, which says of every process what it still holds in its hands to write: a transaction just sent is not unsent, what is to be settled has its outcome, what is to be expired is decided. The fate of a decided transaction is final, so a stale write still tells the truth |
| `QueueCorrect`, `WorkerCorrect` | `WorkerOwnsJob` and `ParkedHasMonitor` | one inductive invariant: a parked job has a child, and whoever removes a job (dead letter, transitive update) finds it neither active nor with a child at work |
| `SubmissionCorrect` | `OneLiveSubmission` | the consumer submits only pages that are in no live transaction of its key, since the key was not tracked when it looked, and what it sent itself since is not in `ctodo` |
| `CompletionCorrect` | `CompletedMeansUpdated`, if `OneUpdateAtATime` | `OutcomeInv`, which follows a success from the chain back to the consumer: a transaction that was sent has all that its user's pages lack (`TxsComplete`); a job has one child (`OneChild`), which finds tracked transactions to judge (`HasTxs`); what it read of them still tells the truth and leaves out none that is pending (`SnapTrue`), and what the completion monitor has still to write is tracked, so that it brings nothing back (`HitsPending`, `NoneForgotten`); so the verdict of success, wherever it is noted by then, is true (`SuccessTrue`), and what a failing update forgets was settled (`NonePending`). All of it is about users who are not `Revocable`, which `Updated` builds into the property |
| `VerdictCorrect` | `SuccessVerdictSound`, if `OneUpdateAtATime` | `OutcomeInv`: `WriteVerdict` is the one step in question, and a snapshot without failures holds a success |
| `PendingKept` | `NoPendingForgotten`, if `OneUpdateAtATime` | `OutcomeInv`, `SnapTrue` for the monitor's `ForgetTxns` and `NonePending` for the consumer's `Untrack` |
| `RequestsKept` | `KeepsRequests`, if `OneUpdateAtATime` | a refinement, step by step, with crashes: each action moves at most the job in question; only `CompleteJob` and `RemoveDeadLetter` close a request, and the first rests on `OutcomeInv` |
| `SubmittedNotProcessed` | before any crash no job in state `Submitted` is processed, if `ChainErrors` has no `PauseErrors` and `MarkSubmitted` finds the job still parked and unjudged (`MarkedInTime`) | `MarkedIsParked`: a job in state `Submitted` is parked or just being marked, and its verdict, which without a pausing error sets the state (`NoRetry` implies `Fatal`), is written before it is released. So there are two ways to "should not happen": the finding of `jobs_schema_error`, and a mark that comes after the verdict (section 7) |
| `ScanTyped`, `ScannerTypeCorrect` | `TypeOK` of the scanner | with `ScanInChain`: a scan past `GetHash` is at a block the chain has |
| `BlocksOfBase`, `BlocksCorrect` | `NoBlockSkipped` | `BlocksInv`: everything below any scan's block, and that block too when only its number is to be written, is handled; it does not need exclusive scans |
| `MonitorScansAreExclusive` | `ScansAreExclusive`, if `~Delegations` | `FlagInv`: a running scan has the flag set, and there is one |
| `DelegationKept` | `DelegationNotLost`, if every user delegates in one block at most | `JobsAreAskedFor`: a parked job's graph was fetched after the delegation, or the job found tracked transactions after it (`joined`, which the property excepts) |
| `GateTypeCorrect` | `TypeOK` of the gate | with `GivesUp`: as long as the service runs, the failures are below the limit |
| `HealthCheckCorrect` | `HealthCheckGoesOn` | both conjuncts together: the name is kept while a check is on its way, so deleting it never throws before the next timer is set |
| `OutageCorrect` | `OutageKeepsQueueClosed` | `OutageInv`: during an outage that began with no resume on its way the queue is paused and no capacity check is at its resume, since `handleCapacityAvailable` reads the flag before it decides; and an outage is after the boot, whose resume reads no flag |
| `MonitorTypeCorrect` | `MonitorTypeOK` | inductive with `ScanInv` and `HeadInv` (the blocks that are read are in the chain, from the scanner's theorem through the refinement) and `EraInv` (what is settled has an outcome) |
| `CapacityCorrect` | `NeverOvercounted` | `CountInv`: there is a set of transactions whose capacity is stored, and another of those at hand in the block being processed; the two share none and no status of theirs is pending any more, but of those still to be settled, and what is stored for an epoch is at most the number of the first set's in it. Nobody can read a transaction as pending again that belongs to either |
| `MonitorRefinesScanner` | `ScansLikeTheScanner` | a refinement, step by step: the actions on the scanner's variables are the scanner's own, the others leave these alone; `SettleThrows` is `MonitorThrows` |
| `MonitorIsExclusive` | `ScansAreExclusive` of the monitor | the scanner's theorem through the refinement |
| `ExpiryCorrect` | `ExpiredIsDead` | `EraInv`: the sender holds a number of the era (`SenderOnTime`), so that the death it computes is the end of that era (`DeathIsEndOfEra`, the arithmetic of polkadot's `birth` and `death`) and the one in the cache is (`DeathsSet`); what the monitor is about to call expired has come to it (`HitsTracked`) |
| `MissCorrect` | `MissedOnlyIfPassed` | `MissInv`: a pending transaction whose block is handled, is being processed past its settling, or is about to be skipped is in `passed`, or its events told nothing, or it is among the ones at hand to be settled. Rests on the scanner's theorems: one scan at a time, and no block below it unhandled |
| `TypeCorrect` | `TypeOK` of the migration | inductive as it stands |
| `MigrationRefined` | `ImplementsMigration` | `PoolSound`: what the webhook answered are users who delegated, and a transaction in the pool adds its own user's connections to such; then `Include` is `Publish`, `Delegate` is `Delegate`, and all else stutters |
| `MirrorCorrect` | `QuietMeansMirrored`, if `Staged` | `MirrorInv`. Its core is `CoverInv`: at every moment a connection of two users who delegated is on the chain, or one of them has a failed job or is a newcomer not yet scanned, or a job of the one who is connected is under way, or the other one's transitive job has still to ask for one. For a step to leave one of these ways only for another it takes `TxInv` (a tracked transaction has all its user lacks; a transitive job never finds one when it is picked), `NewcomerInv` (one newcomer at a time, and beside a transitive job none of the same user and no other transitive one) and `WorkInv` (the webhook's answer is still true when it is used) |
| `NonceTypeCorrect` | `TypeOK` of the nonces | with `AskedInRange`: an index that was read is one of those asked for |
| `NonceCorrect` | `NonceIsFresh` | `FreshInv`: a nonce that is taken or about to be sent has its key or is unguarded, and the script gives out none that has its key. The index that was read may be as old as it likes |

`tlapm GraphUpdateJobsProofs.tla`, and likewise for the other six modules.

`OneUpdateAtATime` is the hypothesis of the theorems on outcomes: each user has one job beside
its dead letter (`OneJobPerUser`), the pages fit in one batch (`OneBatch`), and the child that
is added without `await` is in Redis before the job is parked (`OrderedAdds`). It is what the
code needs, no more: TLC finds each of `CompletedMeansUpdated`, `SuccessVerdictSound` and
`NoPendingForgotten` violated, without a crash, when any one of the three is dropped
(`jobs_crashes` without `FewFaults`, with `MaxCrashes = 0`, `OddOutcomes = {}` and: `Requests <-
Siblings`, `MaxEnqueues = 2`; `Pages` of two and `BatchLimit = 1`; `OrderedAdds = FALSE`,
where `NoPendingForgotten` takes `MaxAttempts = 3`). The users are as many as one likes: what
they share is the consumer, the monitors and the queue. `Staged` is likewise needed for
`MirrorCorrect`, which is the finding of `migration_overlap`. Both are about how users and the
provider behave, which the code does not control: `Staged` is the repository's own example, and
a user's graph fits in one batch when few of its pages change.

Only model-checked: the liveness properties (`QueuedIsResolved`, `PendingIsSettled`,
`EveryBlockIsScanned`, `QueueReopens`, `ExhaustionPausesAgain`,
`TrackedIsSettled`, `ConnectionsAreMirrored`, `SkippedNonceIsFilled`), since
liveness under fairness and `ENABLED` are beyond the prover. Every invariant and every action
property that a passing run checks, and every refinement, is stated by a theorem. Induction over
data and `RECURSIVE` operators are beyond the prover too; the modules have neither.

## 7. What the code does against its own words

Three runs find what the code says of itself not to hold:

- `jobs_partial_batch`: "we don't need to track them because we're already going to fail/retry
  this job" (`processor/reconnection-graph.service.ts:133`). The second batch is not sent and
  the first is untracked; the completion monitor, which had read it as pending, writes it
  back; the retry finds the key and only awaits that one; the job completes without the second
  batch.
- `jobs_schema_error`: a job in state `Submitted` "should not happen"
  (`processor/graph-update-queue-consumer.service.ts:60`). When every failure is
  `InvalidSchemaId` the monitor leaves the state as it was, and the job fails for good
  after the pause that was to save it.
- `migration_overlap`: the new user's job asks for the updates of the connected users, "Request
  Provider's DSNP graph for <connection>" and "Update & re-encrypt <connection>'s Graph (Charlie
  added)" (`src/docs/example-sequence-diagram.md:57`, `:62`; also `src/README.md:33`). When such a
  user's own transaction is still tracked, that job finds the key, awaits the transaction, which
  was made without the new connection, and completes
  (`processor/graph-update-queue-consumer.service.ts:117`). The connection is missing until
  something else asks for an update of that user.

The models also exhibit what follows. No line of the repository says otherwise, or the line
does not bind the code so strictly, so it is no finding; each is reached by the constants given,
from the configuration in brackets.

- Two calls of `scan()` pass the test of `scanInProgress` (`blockchain-scanner.service.ts:55`), which
  is set after an `await` (`:67`): `ScansAreExclusive` [`scan_delegations`]. The other properties
  of the scanner hold all the same, but not its liveness: with overlapping scans both find a
  failed job, the second one's retry throws, and the process ends; fairness does not rule
  out that this goes on for ever: `EveryBlockIsScanned` [`scan_liveness` with `Scans = {1, 2}`,
  `Users = {u1}`, `Delegators <- Twice`, `MaxBlock = 2`, `Legacy <- NoLegacy`, `MaxCrashes = 0`].
- A crash after the transaction monitor has forgotten the transactions and before it wrote its
  verdict makes the repeated verdict "all completed" (`tx-monitor-queue-consumer.service.ts:65`
  and `:76`): `SuccessVerdictSound` without its hypothesis that nothing crashed [`jobs_crashes`].
- The sibling job's verdict takes the statuses along, without a crash; the other job's monitor
  finds none and says "completed": `SuccessVerdictSound` [`jobs_crashes` with
  `Requests <- Siblings`, `MaxEnqueues = 2`, `MaxCrashes = 0`, `OddOutcomes = {}`].
- The scanner's retry of a job that failed for good leaves its state, so it fails again at once:
  `RetryStartsOver` [`jobs_schema_error` with `MaxAttempts = 2`, `MaxEnqueues = 2`,
  `ChainErrors = {"UnauthorizedDelegate"}`].
- A transaction fails with an error that is not a module error: `getTxStatus` throws
  (`processor/graph-update-completion-monitor.service.ts:53-55`), the process exits, and does so
  again at the same block after each restart. The transaction stays pending, is never
  expired, and its job stays parked, as does every job that parks after it: `QueuedIsResolved`,
  `PendingIsSettled` without `MonitorStuck` [`jobs_liveness`], and `TrackedIsSettled` without
  its hypothesis [`monitor_blocks`].
- The state `Submitted` is written after the job was parked
  (`processor/graph-update-queue-consumer.service.ts:142`). When the whole verdict falls in
  between, the mark overwrites it, and the job fails as one that "should not" be processed
  though the verdict was another, with no schema error: the invariant
  `crashes = 0 => cpc # "fatal"` [`jobs_crashes`].
- Of a transaction of which the block told neither success nor failure the old status is written
  back (`processor/graph-update-completion-monitor.service.ts:60-63`, `:96`), so that one that was
  forgotten meanwhile is pending again, beside the one that replaced it: `OneLiveSubmission` with
  `getAllPendingTxns` for `Live` [`jobs_partial_batch` with `OddOutcomes = {"neither"}`].
- A delegation between a job's fetch and its end is answered by `add`, which does nothing for
  an id that exists: `DelegationNotLost` [`scan_delegations` with `Delegators <- Twice`, `MaxBlock = 2`].
- A user delegates while a transaction of the user's plain job, which another user's update asked
  for, is tracked: the new transitive job finds the key, fetches nothing and completes with that
  transaction (`processor/graph-update-queue-consumer.service.ts:117`). The exception `joined` of
  `DelegationNotLost` is this case [`scan_delegations` without it], and `migration_overlap` shows
  what is lost by it.
- The first scan does not wait for the migration of the block number:
  `ResumesAfterLegacy` [`scan_delegations` with `Legacy = 2`, `Scans = {1}`].
- A crash between the settling of a block's transactions and `setEpochCapacity` loses their
  capacity, since they are not pending any more when the block is read again
  (`processor/graph-update-completion-monitor.service.ts:96`, `:99`): the service's limit
  (`src/ENVIRONMENT.md`) is passed by as much. `NeverOvercounted` states the other direction.
- A capacity check that saw the queue paused and the webhook up resumes the queue after an
  outage has begun in between: `OutageKeepsQueueClosed` without `raced` [`gate_recovery`].
- Every exhausted check arms a timer, of which one has the name: `OneCapacityTimer`
  [`gate_recovery`, as an invariant].

## 8. Not modelled

- *Graph state manager*: a wrapper of the native graph library. Its result is the set of pages
  that change. Key pairs, schemas and the layout of pages belong to it.
- *Re-organisations of the chain*: the latest block is the best one
  (`blockchain/blockchain.service.ts:164`). The code has no step that looks at a block number
  again, so a fork would break every property about the chain in the same way; the models' chain
  does not fork.
- *Transactions that others send* from the provider's account: the code has no handling of them
  beyond an error of the chain.
- *Missing delegations in TransitiveUpdates*: users delegate and do not take it back. What the code
  does when a delegation or a schema grant is missing (`formConnections`,
  `processor/reconnection-graph.service.ts:308-312`, `:324-327`) is `Granted` in GraphUpdateJobs.
- *The provider's answer about who migrated*: a `connectionTo` is followed without a look at the
  other user's delegation (`processor/reconnection-graph.service.ts:342-359`). That the service
  publishes connections between users who delegated only (`ImplementsMigration`) supposes, with the
  sequence diagram, that the webhook names no others.
- *The moment of the import* within an update: pages are imported
  (`processor/reconnection-graph.service.ts:72`) before `formConnections` awaits, and
  TransitiveUpdates reads them when it sends. Under `Staged` no other update of the user falls in
  between; the previous hash (`PagesAreStale`) fails the batch otherwise.
- *The limits of capacity*: what they are compared with is in CompletionMonitor (`used`), the
  outcome of the comparison is a choice of the environment in QueueGate.
- *Debug dispositions* of the consumer, the development controller, the health endpoint: not
  part of the service's flow.
- *Configuration*: its values are constants; that they are validated is not modelled.
- *Loss of Redis*: the service ends itself when Redis stays away; then it is `Crash`.
- *Deployment, set-up script, mock webhook*: not part of the running service.

## 9. Plan

Done, in this order: GraphUpdateJobs with UpdateRequests, BlockchainScanner, QueueGate,
TransitiveUpdates with Migration, CompletionMonitor, NonceAllocator, each with its proofs.

Left:

1. Proofs of what holds beyond the theorems' hypotheses: the outcome of a job after a crash that
   falls outside the monitor's window, and for siblings whose updates do not overlap.
2. The consumer as BlockchainScanner sees it (`JobStep`) as a refinement of UpdateRequests, so
   that the scanner's and the jobs' theorems speak of the same queue.
3. `checkCapacity` with amounts, the total limit and the service limit as a percentage or a
   number, composed with the count of CompletionMonitor.
4. Numbers: `WEBHOOK_RETRY_INTERVAL_SECONDS` (`src/ENVIRONMENT.md:24`) is passed on where
   milliseconds are taken (`processor/provider-webhook.service.ts:85`,
   `processor/reconnection-graph.service.ts:207`); `CapacityLowError` is handled
   (`processor/graph-update-queue-consumer.service.ts:158`) but never thrown.
