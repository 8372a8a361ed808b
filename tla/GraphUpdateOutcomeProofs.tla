---------------------- MODULE GraphUpdateOutcomeProofs ----------------------
(***************************************************************************)
(* Proofs about what becomes of a job: it completes only when the user's   *)
(* graph is on the chain, the monitor's verdict says so only then, and no  *)
(* pending transaction is forgotten on the way.  The jobs do not promise   *)
(* it in general (README, 6): here a user has one job, whose updates fit   *)
(* in one transaction, and the child that is added without await is in     *)
(* Redis before the job is parked.                                         *)
(***************************************************************************)
EXTENDS GraphUpdateJobsProofs, FiniteSetTheorems

Dies == Crash \/ SettleThrows        \* a step that ends the process

OneJobPerUser == \A r, s \in Requests : r.user = s.user => r = s
OneBatch == IsFiniteSet(Pages) /\ Cardinality(Pages) <= BatchLimit

\* These are all the pages that the user's graph lacks, or all that the user has granted.
Whole(ps, u) == ps \cup onchain[u] = Pages \/ u \in Revocable

PendingOf(j) == TxsOf(j) \cap getAllPendingTxns

\* Every transaction that was sent contains all that its user's pages lack.
TxsComplete ==
    /\ \A t \in Txs : fate[t] # "unsent" => Whole(txPages[t], txJob[t].user)
    /\ \A t \in Txs : fate[t] = "success" => Updated(txJob[t].user)
    /\ cpc = "send" => Whole(ctodo, cjob.user)
    /\ cpc = "record" => ctodo = {} /\ ctx \in Txs /\ txJob[ctx] = cjob

\* A job has one child at most, and only while it is parked or about to be.
OneChild ==
    /\ \A j \in Jobs : inflight[j] > 0 => cpc = "await" /\ cjob = j /\ inflight[j] = 1 /\ children[j] = 0
    /\ \A j \in Jobs : children[j] > 0 =>
           children[j] = 1 /\ (place[j] = "waitingChildren" \/ (cpc = "await" /\ cjob = j))

\* The child finds transactions to judge, until it has judged them.
NeedsTxs(j) == children[j] > 0 \/ inflight[j] > 0 \/ (cpc = "track" /\ cjob = j)
Judged(j) == mjob = j /\ mpc \in {"pause", "write", "finish"}
HasTxs == \A j \in Jobs : NeedsTxs(j) => doesJobKeyExist(j) \/ Judged(j)

\* What it read is about transactions of its job, still tells the truth about success, and
\* leaves out none that is pending.
SnapTrue ==
    /\ mpc \in {"idle", "txns"} => msnap = NoStatus
    /\ mpc \in {"source", "remove", "pause", "write"} => \E t \in Txs : msnap[t] # "none"
    /\ \A t \in Txs : msnap[t] # "none" => txJob[t] = mjob /\ fate[t] # "unsent"
    /\ \A t \in Txs : msnap[t] = "success" => fate[t] = "success"
    /\ mpc \in {"source", "remove"} => \A t \in PendingOf(mjob) : msnap[t] = "pending"
    /\ mpc = "remove" => ~HasPending(msnap)

\* Wherever success is noted, the pages are on the chain.
SuccessTrue ==
    /\ \A j \in Jobs : state[j] = "MonitorSuccess" => Updated(j.user)
    /\ mstate = "MonitorSuccess" => mpc # "idle" /\ Updated(mjob.user)
    /\ cpc = "complete" => Updated(cjob.user)

\* What the consumer forgets when an update fails is not pending.
NonePending == cpc \in {"fetch", "send", "untrack"} => PendingOf(cjob) = {}

\* Nor has anybody untracked what the completion monitor is about to write back.
HitsPending == bpc = "upsert" => bhits \subseteq getAllPendingTxns

NoneForgotten == NonePending /\ HitsPending

OutcomeInv ==
    TxsComplete /\ (crashes = 0 => OneChild /\ HasTxs /\ SnapTrue /\ SuccessTrue /\ NoneForgotten)

LEMMA KeyIsJob ==
    ASSUME OneJobPerUser
    PROVE  /\ \A j, k \in Jobs : JobKey(j) = JobKey(k) => j = k
           /\ \A j \in Jobs : j.user \in Users
<1>1. \A j \in Jobs : \E r \in Requests : j.user = r.user /\ (j = IF j.dead THEN DeadLetter(r) ELSE r)
  BY RequestsAssumption DEF Jobs, DeadLetter
<1>2. \A j \in Jobs : j.user \in Users
  BY <1>1 DEF Users
<1>3. ASSUME NEW j \in Jobs, NEW k \in Jobs, JobKey(j) = JobKey(k) PROVE j = k
  <2>1. j.user = k.user /\ j.dead = k.dead
    BY <1>3 DEF JobKey
  <2> QED
    BY <1>1, <2>1 DEF OneJobPerUser
<1> QED
  BY <1>2, <1>3

\* The transactions of a job are its own.
LEMMA TxsOfJob ==
    ASSUME OneJobPerUser, TypeInv, NEW j \in Jobs
    PROVE  TxsOf(j) = {t \in Txs : txJob[t] = j}
BY KeyIsJob DEF TxsOf, TypeInv, TypeOK

(***************************************************************************)
(* Transactions.                                                           *)
(***************************************************************************)
LEMMA BatchIsAll ==
    ASSUME OneBatch, ctodo \subseteq Pages, NEW b, Batch(b)
    PROVE  b = ctodo
<1>1. IsFiniteSet(ctodo) /\ Cardinality(ctodo) <= Cardinality(Pages) /\ Cardinality(ctodo) \in Nat
      /\ Cardinality(Pages) \in Nat
  BY FS_Subset, FS_CardinalityType DEF OneBatch
<1>2. Cardinality(b) = BatchLimit => Cardinality(ctodo) <= Cardinality(b)
  BY <1>1, BoundsAssumption DEF OneBatch
<1>3. b \subseteq ctodo /\ (b = ctodo \/ Cardinality(b) = BatchLimit)
  BY DEF Batch
<1>4. ASSUME Cardinality(ctodo) <= Cardinality(b), b # ctodo PROVE FALSE
  <2>1. Cardinality(b) < Cardinality(ctodo) /\ Cardinality(b) \in Nat
    BY <1>1, <1>3, <1>4, FS_Subset, FS_CardinalityType
  <2> QED
    BY <1>1, <1>4, <2>1
<1> QED
  BY <1>2, <1>3, <1>4

LEMMA TxsFrame ==
    ASSUME TxsComplete, UNCHANGED <<fate, txJob, txPages, onchain>>,
           UNCHANGED <<cpc, cjob, ctodo, ctx>> \/ cpc' \notin {"send", "record"}
    PROVE  TxsComplete'
BY DEF TxsComplete, Whole, Updated

LEMMA TxsSubmit ==
    ASSUME TypeInv, TxsComplete, OneBatch, cpc = "send", onchain' = onchain,
           NEW t \in Txs, NEW b \in SUBSET ctodo, Submit(t, b)
    PROVE  /\ \A s \in Txs : fate'[s] # "unsent" => Whole(txPages[s], txJob[s].user)'
           /\ \A s \in Txs : fate'[s] = "success" => Updated(txJob[s].user)'
           /\ txJob'[t] = cjob /\ b = ctodo
<1>1. b = ctodo
  BY BatchIsAll DEF Submit, TypeInv, TypeOK
<1>2. /\ fate' = [fate EXCEPT ![t] = "pool"] /\ txJob' = [txJob EXCEPT ![t] = cjob]
      /\ txPages' = [txPages EXCEPT ![t] = ctodo]
  BY <1>1 DEF Submit
<1>3. fate \in [Txs -> Fates] /\ txJob \in [Txs -> Jobs] /\ txPages \in [Txs -> SUBSET Pages]
  BY DEF TypeInv, TypeOK
<1>4. fate'[t] = "pool" /\ txJob'[t] = cjob /\ txPages'[t] = ctodo
  BY <1>2, <1>3
<1>5. \A s \in Txs : s # t => fate'[s] = fate[s] /\ txJob'[s] = txJob[s] /\ txPages'[s] = txPages[s]
  BY <1>2, <1>3
<1> QED
  BY <1>1, <1>4, <1>5 DEF TxsComplete, Whole, Updated

\* The chain takes nothing back, and has no other pages.
LEMMA OnchainGrows ==
    ASSUME TypeInv, OneJobPerUser, [Next]_vars
    PROVE  /\ \A u \in Users : onchain[u] \subseteq onchain'[u] /\ onchain'[u] \subseteq Pages
           /\ \A u \in Users : Updated(u) => Updated(u)'
<1>1. onchain' = onchain \/ \E t \in Txs : Settle(t)
  BY DEF Next, Consumer, Pick, ResetForRetry, CheckKey, FetchGraph, FetchFails, SendBatch, SendFails,
     RecordTx, Untrack, TrackTxs, AwaitChildren, MarkSubmitted, Caught, RemoveDeadLetter,
     AddDeadLetter, ThrowError, ThrowUnrecoverable, CompleteJob, TxMonitor, PickChild, ReadTxns,
     ReadSource, ForgetTxns, PauseOnSchema, WriteVerdict, FinishChild, CompletionMonitor, BootCheck,
     SkipToHead, ReadBlock, SettleTx, ReadExpired, ExpireTx, SetLastSeen, Environment,
     ScannerEnqueue, TransitiveEnqueue, ChildAdded, PauseQueue, ResumeQueue, Crash, SettleThrows,
     StartAgain, vars, chainVars
<1>2. onchain \in [Users -> SUBSET Pages] /\ txPages \in [Txs -> SUBSET Pages]
  BY DEF TypeInv, TypeOK
<1>3. ASSUME NEW t \in Txs, Settle(t), NEW u \in Users
      PROVE  onchain[u] \subseteq onchain'[u] /\ onchain'[u] \subseteq Pages
  <2>1. onchain' = onchain \/ onchain' = [onchain EXCEPT ![txJob[t].user] = @ \cup txPages[t]]
    BY <1>3 DEF Settle, Include, OutliveMortality
  <2> QED
    BY <1>2, <1>3, <2>1
<1> QED
  BY <1>1, <1>2, <1>3 DEF Updated

LEMMA TxsSettle ==
    ASSUME TypeInv, TxsComplete, OneJobPerUser, NEW t \in Txs, Settle(t),
           \A u \in Users : onchain[u] \subseteq onchain'[u] /\ onchain'[u] \subseteq Pages
    PROVE  TxsComplete'
<1>1. \A s \in Txs : txJob[s].user \in Users
  BY KeyIsJob DEF TypeInv, TypeOK
<1>2. cjob.user \in Users
  BY KeyIsJob DEF TypeInv, TypeOK
<1>3. /\ fate[t] = "pool" /\ UNCHANGED <<txJob, txPages, workerVars>>
      /\ \A s \in Txs : s # t => fate'[s] = fate[s]
  BY DEF Settle, Include, OutliveMortality, TypeInv, TypeOK
<1>4. fate'[t] = "success" => Updated(txJob[t].user)'
  <2>1. fate'[t] = "success" => Include(t, "success")
    BY OutcomesAreFinal DEF Settle, Include, OutliveMortality, TypeInv, TypeOK
  <2>2. Include(t, "success") => onchain'[txJob[t].user] = onchain[txJob[t].user] \cup txPages[t]
    BY <1>1 DEF Include, TypeInv, TypeOK
  <2>3. fate'[t] = "success" => onchain'[txJob[t].user] \subseteq Pages
    BY <1>1
  <2> QED
    BY <1>3, <2>1, <2>2, <2>3 DEF TxsComplete, Whole, Updated
<1>5. \A s \in Txs : fate'[s] # "unsent" => fate[s] # "unsent"
  BY <1>3
<1>6. \A s \in Txs : fate'[s] # "unsent" => Whole(txPages[s], txJob[s].user)'
  <2> TAKE s \in Txs
  <2>1. onchain[txJob[s].user] \subseteq onchain'[txJob[s].user] /\ onchain'[txJob[s].user] \subseteq Pages
    BY <1>1
  <2>2. txPages[s] \subseteq Pages
    BY DEF TypeInv, TypeOK
  <2> QED
    BY <1>3, <1>5, <2>1, <2>2 DEF TxsComplete, Whole
<1>7. \A s \in Txs : fate'[s] = "success" => Updated(txJob[s].user)'
  <2> TAKE s \in Txs
  <2>1. onchain[txJob[s].user] \subseteq onchain'[txJob[s].user] /\ onchain'[txJob[s].user] \subseteq Pages
    BY <1>1
  <2> QED
    BY <1>3, <1>4, <2>1 DEF TxsComplete, Updated
<1>8. cpc = "send" => ctodo \cup onchain'[cjob.user] = Pages \/ cjob.user \in Revocable
  BY <1>2 DEF TxsComplete, Whole, TypeInv, TypeOK
<1> QED
  BY <1>3, <1>6, <1>7, <1>8 DEF TxsComplete, Whole, workerVars

LEMMA TxsNext ==
    ASSUME TypeInv, TxsComplete, OneJobPerUser, OneBatch, [Next]_vars
    PROVE  TxsComplete'
<1> USE DEF chainVars, workerVars
<1>1. CASE FetchGraph
  <2>1. cjob.user \in Users /\ onchain[cjob.user] \subseteq Pages
    BY KeyIsJob DEF TypeInv, TypeOK
  <2> QED
    BY <1>1, <2>1 DEF FetchGraph, Granted, MissingPages, TxsComplete, Whole, Updated
<1>2. CASE SendBatch
  <2>1. PICK t \in Txs, b \in SUBSET ctodo :
            Submit(t, b) /\ ctx' = t /\ cpc' = "record" /\ ctodo' = ctodo \ b
    BY <1>2 DEF SendBatch
  <2>2. cpc = "send" /\ onchain' = onchain /\ cjob' = cjob
    BY <1>2 DEF SendBatch
  <2> QED
    BY <2>1, <2>2, TxsSubmit DEF TxsComplete
<1>3. CASE SendFails
  <2>1. CASE UNCHANGED <<fate, txJob, txPages>>
    BY <1>3, <2>1, TxsFrame DEF SendFails
  <2>2. ASSUME NEW t \in Txs, NEW b \in SUBSET ctodo, Submit(t, b) PROVE TxsComplete'
    BY <1>3, <2>2, TxsSubmit DEF SendFails, TxsComplete
  <2> QED
    BY <1>3, <2>1, <2>2 DEF SendFails
<1>4. CASE RecordTx
  BY <1>4, TxsFrame DEF RecordTx, TxsComplete
<1>5. ASSUME NEW t \in Txs, Settle(t) PROVE TxsComplete'
  BY <1>5, OnchainGrows, TxsSettle
<1>6. ASSUME NEW j \in Jobs, Pick(j) PROVE TxsComplete'
  BY <1>6, TxsFrame DEF Pick, FirstStep, JobStates, TypeInv, TypeOK
<1>7. CASE ConsumerStep /\ ~(FetchGraph \/ SendBatch \/ SendFails \/ RecordTx)
  BY <1>7, TxsFrame
  DEF ConsumerStep, Consumer, Pick, ResetForRetry, CheckKey, FetchFails, Untrack, TrackTxs,
      AwaitChildren, MarkSubmitted, Caught, RemoveDeadLetter, AddDeadLetter, ThrowError,
      ThrowUnrecoverable, CompleteJob, GoTo, Idle, TxsComplete
<1>8. CASE TxMonitor \/ CompletionMonitor
  BY <1>8, TxsFrame
  DEF TxMonitor, PickChild, ReadTxns, ReadSource, ForgetTxns, PauseOnSchema, WriteVerdict, FinishChild,
      CompletionMonitor, BootCheck, SkipToHead, ReadBlock, SettleTx, ReadExpired, ExpireTx, SetLastSeen
<1>9. CASE (Environment /\ \A t \in Txs : ~Settle(t)) \/ SettleThrows \/ UNCHANGED vars
  BY <1>9, TxsFrame
  DEF Environment, ScannerEnqueue, TransitiveEnqueue, ChildAdded, PauseQueue, ResumeQueue, Crash,
      SettleThrows, StartAgain, Idle, vars
<1> QED
  BY <1>1, <1>2, <1>3, <1>4, <1>5, <1>6, <1>7, <1>8, <1>9
  DEF Next, Consumer, ConsumerStep, Environment, ResetForRetry, CheckKey, FetchFails, Untrack,
      TrackTxs, AwaitChildren, MarkSubmitted, Caught, RemoveDeadLetter, AddDeadLetter, ThrowError,
      ThrowUnrecoverable, CompleteJob

(***************************************************************************)
(* The children of a job.                                                  *)
(***************************************************************************)
LEMMA ChildFrame ==
    ASSUME OneChild, inflight' = inflight,
           \A j \in Jobs : \/ children'[j] = children[j] /\ (place[j] = "waitingChildren" => place'[j] = place[j])
                           \/ children'[j] = 0,
           UNCHANGED <<cpc, cjob>> \/ cpc # "await"
    PROVE  OneChild'
BY DEF OneChild

\* Replacing or removing a job forgets its child.
LEMMA ChildFresh ==
    ASSUME TypeInv, OneChild, NEW k \in Jobs, NEW p \in Places, Fresh(k, p), inflight' = inflight,
           cpc # "await"
    PROVE  OneChild'
<1>1. \A j \in Jobs : \/ children'[j] = children[j] /\ place'[j] = place[j]
                      \/ children'[j] = 0
  BY DEF Fresh, TypeInv, TypeOK
<1> QED
  BY <1>1, ChildFrame

\* At work, the consumer's job has neither a child nor one on its way.
LEMMA NoChildAtWork ==
    ASSUME TypeInv, QueueInv, OneChild, cpc \notin {"idle", "mark", "await"}
    PROVE  /\ children[cjob] = 0 /\ \A j \in Jobs : inflight[j] = 0
           /\ mpc # "idle" => mjob # cjob
<1>1. place[cjob] = "active" /\ cjob \in Jobs
  BY DEF QueueInv, WorkerOwnsJob, TypeInv, TypeOK
<1>2. children[cjob] \in Nat /\ \A j \in Jobs : inflight[j] \in Nat
  BY <1>1 DEF TypeInv, TypeOK
<1>3. children[cjob] = 0 /\ \A j \in Jobs : inflight[j] = 0
  BY <1>1, <1>2 DEF OneChild
<1> QED
  BY <1>3 DEF TypeInv, MonitorHasChild

LEMMA OneChildNext ==
    ASSUME TypeInv, QueueInv, OneChild, OrderedAdds, [Next]_vars, ~Dies
    PROVE  OneChild'
<1> USE DEF queueVars, workerVars
<1>0. /\ place \in [Jobs -> Places] /\ children \in [Jobs -> Nat] /\ inflight \in [Jobs -> Nat]
      /\ cjob \in Jobs /\ mjob \in Jobs
  BY DEF TypeInv, TypeOK
<1>1. ASSUME NEW j \in Jobs, Pick(j) PROVE OneChild'
  BY <1>0, <1>1, ChildFrame DEF Pick
<1>2. CASE TrackTxs
  <2>1. children[cjob] = 0 /\ \A j \in Jobs : inflight[j] = 0
    BY <1>2, NoChildAtWork DEF TrackTxs
  <2>2. /\ UNCHANGED <<place, children, cjob>> /\ cpc = "track" /\ cpc' = "await"
        /\ inflight' = [inflight EXCEPT ![cjob] = @ + 1]
    BY <1>2 DEF TrackTxs, GoTo
  <2> QED
    BY <1>0, <2>1, <2>2 DEF OneChild
<1>3. ASSUME NEW j \in Jobs, ChildAdded(j) PROVE OneChild'
  <2>1. cpc = "await" /\ cjob = j /\ inflight[j] = 1 /\ children[j] = 0 /\ place[j] = "active"
    BY <1>0, <1>3 DEF ChildAdded, OneChild, QueueInv, WorkerOwnsJob
  <2>2. /\ UNCHANGED <<place, cpc, cjob>> /\ children' = [children EXCEPT ![j] = @ + 1]
        /\ inflight' = [inflight EXCEPT ![j] = @ - 1]
    BY <1>3, <2>1 DEF ChildAdded
  <2> QED
    BY <1>0, <2>1, <2>2 DEF OneChild
<1>4. CASE AwaitChildren
  <2>1. cpc = "await" /\ inflight[cjob] = 0
    BY <1>4 DEF AwaitChildren
  <2>2. \A j \in Jobs : inflight'[j] = 0 /\ children'[j] = children[j]
    BY <1>0, <1>4, <2>1 DEF AwaitChildren, OneChild
  <2>3. \A j \in Jobs : j # cjob => place'[j] = place[j]
    BY <1>0, <1>4 DEF AwaitChildren
  <2>4. children[cjob] > 0 => place'[cjob] = "waitingChildren"
    BY <1>0, <1>4 DEF AwaitChildren, ShouldWait
  <2> QED
    BY <1>0, <2>1, <2>2, <2>3, <2>4 DEF OneChild
<1>5. CASE RemoveDeadLetter
  BY <1>5, ChildFrame, ChildFresh, DeadLetterJob, <1>0
  DEF RemoveDeadLetter, QueueRemove, GoTo, Places
<1>6. CASE AddDeadLetter \/ ThrowError \/ ThrowUnrecoverable
  <2>1. \A j \in Jobs : place[j] = "waitingChildren" => place'[j] = place[j]
    BY <1>0, <1>6 DEF AddDeadLetter, QueueAdd, ThrowError, AttemptFails, ThrowUnrecoverable, QueueInv, WorkerOwnsJob
  <2> QED
    BY <1>6, <2>1, ChildFrame DEF AddDeadLetter, ThrowError, ThrowUnrecoverable
<1>7. CASE CompleteJob
  <2>1. children[cjob] = 0
    BY <1>7, NoChildAtWork DEF CompleteJob
  <2> QED
    BY <1>0, <1>7, <2>1, ChildFresh DEF CompleteJob, Places
<1>8. CASE FinishChild
  <2>1. children[mjob] = 1
    BY <1>0, <1>8 DEF FinishChild, OneChild, TypeInv, MonitorHasChild
  <2>2. \A j \in Jobs : \/ children'[j] = children[j] /\ place'[j] = place[j]
                        \/ children'[j] = 0
    BY <1>0, <1>8, <2>1 DEF FinishChild, ChildDone
  <2> QED
    BY <1>8, <2>2, ChildFrame DEF FinishChild
<1>9. ASSUME NEW j \in Requests, ScannerEnqueue(j) \/ TransitiveEnqueue(j) PROVE OneChild'
  <2>1. CASE ScannerEnqueue(j)
    BY <1>0, <2>1, ChildFrame, JobsFacts DEF ScannerEnqueue
  <2>2. CASE TransitiveEnqueue(j)
    BY <2>2, ChildFrame, ChildFresh, JobsFacts DEF TransitiveEnqueue, QueueReplace, Places
  <2> QED
    BY <1>9, <2>1, <2>2
<1>10. CASE \/ ResetForRetry \/ CheckKey \/ FetchGraph \/ FetchFails \/ SendBatch \/ SendFails
            \/ RecordTx \/ Untrack \/ MarkSubmitted \/ Caught
  BY <1>10, ChildFrame
  DEF ResetForRetry, CheckKey, FetchGraph, FetchFails, SendBatch, SendFails, RecordTx, Untrack,
      MarkSubmitted, Caught, GoTo
<1>11. CASE (TxMonitor /\ ~FinishChild) \/ CompletionMonitor
  BY <1>11, ChildFrame
  DEF TxMonitor, PickChild, ReadTxns, ReadSource, ForgetTxns, PauseOnSchema, WriteVerdict,
      CompletionMonitor, BootCheck, SkipToHead, ReadBlock, SettleTx, ReadExpired, ExpireTx, SetLastSeen
<1>12. CASE PauseQueue \/ ResumeQueue \/ (\E t \in Txs : Settle(t)) \/ UNCHANGED vars
  BY <1>12, ChildFrame DEF PauseQueue, ResumeQueue, Settle, Include, OutliveMortality, vars
<1> QED
  BY <1>1, <1>2, <1>3, <1>4, <1>5, <1>6, <1>7, <1>8, <1>9, <1>10, <1>11, <1>12
  DEF Next, Consumer, Environment, Dies

(***************************************************************************)
(* The transactions of a child's job.                                      *)
(***************************************************************************)
LEMMA HasTxsFrame ==
    ASSUME HasTxs, \A t \in Txs : watch[t] # "none" => watch'[t] # "none" /\ txJob'[t] = txJob[t],
           \A j \in Jobs : NeedsTxs(j)' => NeedsTxs(j),
           \A j \in Jobs : Judged(j) => Judged(j)'
    PROVE  HasTxs'
<1>1. \A j \in Jobs : doesJobKeyExist(j) => doesJobKeyExist(j)'
  BY DEF doesJobKeyExist, TxsOf
<1> QED
  BY <1>1 DEF HasTxs

\* Forgetting the transactions of a job leaves those of the others.
LEMMA HasTxsRemove ==
    ASSUME HasTxs, NEW k \in Jobs, removeJob(k), UNCHANGED txJob, ~NeedsTxs(k)' \/ Judged(k)',
           \A j \in Jobs : NeedsTxs(j)' => NeedsTxs(j), OneJobPerUser, TypeInv,
           \A j \in Jobs : Judged(j) => Judged(j)'
    PROVE  HasTxs'
<1>1. \A t \in Txs : watch'[t] = IF txJob[t] = k THEN "none" ELSE watch[t]
  BY TxsOfJob DEF removeJob
<1>2. \A j \in Jobs : j # k /\ doesJobKeyExist(j) => doesJobKeyExist(j)'
  BY <1>1, KeyIsJob DEF doesJobKeyExist, TxsOf, TypeInv, TypeOK
<1> QED
  BY <1>2 DEF HasTxs

\* Sending concerns a transaction of which the cache knows nothing.
LEMMA SubmitUnwatched ==
    ASSUME TypeInv, CacheInv, NEW t \in Txs, NEW b, Submit(t, b)
    PROVE  /\ watch[t] = "none" /\ fate[t] = "unsent" /\ fate'[t] = "pool"
           /\ \A s \in Txs : s # t => fate'[s] = fate[s] /\ txJob'[s] = txJob[s]
BY DEF Submit, NextTx, CacheInv, CacheAgreesWithChain, TypeInv, TypeOK

LEMMA HasTxsNext ==
    ASSUME TypeInv, CacheInv, QueueInv, TxsComplete, OneChild, HasTxs, OneJobPerUser, [Next]_vars, ~Dies
    PROVE  HasTxs'
<1> USE DEF queueVars, chainVars, workerVars, monitorVars
<1>0. /\ place \in [Jobs -> Places] /\ children \in [Jobs -> Nat] /\ inflight \in [Jobs -> Nat]
      /\ cjob \in Jobs /\ mjob \in Jobs /\ watch \in [Txs -> Statuses]
  BY DEF TypeInv, TypeOK
<1>1. CASE CheckKey
  <2>1. /\ UNCHANGED <<children, inflight, mjob, mpc, cjob>> /\ cpc = "check"
        /\ cpc' = IF doesJobKeyExist(cjob) THEN "track" ELSE "fetch"
    BY <1>1 DEF CheckKey, GoTo
  <2>2. \A j \in Jobs : doesJobKeyExist(j)' = doesJobKeyExist(j) /\ Judged(j)' = Judged(j)
    BY <1>1, <2>1 DEF CheckKey, doesJobKeyExist, TxsOf, Judged
  <2> QED
    BY <2>1, <2>2 DEF HasTxs, NeedsTxs
<1>2. CASE SendBatch \/ SendFails
  <2>1. \A t \in Txs : watch[t] # "none" => watch'[t] # "none" /\ txJob'[t] = txJob[t]
    BY <1>2, SubmitUnwatched DEF SendBatch, SendFails
  <2> QED
    BY <1>2, <2>1, HasTxsFrame DEF SendBatch, SendFails, NeedsTxs, Judged
<1>3. CASE RecordTx
  <2>1. ctx \in Txs /\ txJob[ctx] = cjob /\ cpc = "record" /\ cpc' = "track"
    BY <1>3 DEF RecordTx, TxsComplete
  <2>2. watch' = [watch EXCEPT ![ctx] = "pending"] /\ UNCHANGED <<txJob, cjob, children, inflight, mjob, mpc>>
    BY <1>3 DEF RecordTx, upsertWatchedTxn
  <2>3. \A t \in Txs : watch[t] # "none" => watch'[t] # "none"
    BY <1>0, <2>2
  <2>4. watch'[ctx] # "none" /\ ctx \in TxsOf(cjob)'
    BY <1>0, <2>1, <2>2 DEF TxsOf
  <2>5. doesJobKeyExist(cjob)'
    BY <2>1, <2>2, <2>4 DEF doesJobKeyExist, TxsOf
  <2>6. \A j \in Jobs : doesJobKeyExist(j) => doesJobKeyExist(j)'
    BY <2>2, <2>3 DEF doesJobKeyExist, TxsOf
  <2>7. \A j \in Jobs : NeedsTxs(j)' => NeedsTxs(j) \/ j = cjob
    BY <2>1, <2>2 DEF NeedsTxs
  <2>8. \A j \in Jobs : Judged(j) => Judged(j)'
    BY <2>2 DEF Judged
  <2> QED
    BY <2>2, <2>5, <2>6, <2>7, <2>8 DEF HasTxs
<1>4. CASE Untrack
  <2>1. children[cjob] = 0 /\ \A j \in Jobs : inflight[j] = 0
    BY <1>4, NoChildAtWork DEF Untrack
  <2>2. removeJob(cjob) /\ UNCHANGED <<txJob, cjob, children, inflight, mjob, mpc>> /\ cpc' = "caught"
    BY <1>4 DEF Untrack, GoTo
  <2> QED
    BY <1>0, <2>1, <2>2, HasTxsRemove DEF NeedsTxs, Judged
<1>5. CASE TrackTxs
  <2>1. \A j \in Jobs : NeedsTxs(j)' => NeedsTxs(j)
    BY <1>0, <1>5 DEF TrackTxs, GoTo, NeedsTxs
  <2> QED
    BY <1>5, <2>1, HasTxsFrame DEF TrackTxs, Judged
<1>6. ASSUME NEW k \in Jobs, ChildAdded(k) PROVE HasTxs'
  <2>1. \A j \in Jobs : NeedsTxs(j)' => NeedsTxs(j)
    BY <1>0, <1>6 DEF ChildAdded, NeedsTxs
  <2> QED
    BY <1>6, <2>1, HasTxsFrame DEF ChildAdded, Judged
<1>7. CASE RemoveDeadLetter \/ CompleteJob \/ \E k \in Requests : TransitiveEnqueue(k)
  <2>1. /\ UNCHANGED <<inflight, watch, txJob, mjob, mpc>> /\ cpc' # "track"
        /\ children' = children \/ \E k \in Jobs : children' = [children EXCEPT ![k] = 0]
    BY <1>0, <1>7, JobsFacts, DeadLetterJob
    DEF RemoveDeadLetter, QueueRemove, CompleteJob, TransitiveEnqueue, QueueReplace, Fresh, GoTo, Idle
  <2>2. \A j \in Jobs : NeedsTxs(j)' => NeedsTxs(j)
    BY <1>0, <2>1 DEF NeedsTxs
  <2> QED
    BY <2>1, <2>2, HasTxsFrame DEF Judged
<1>8. CASE ForgetTxns
  <2>1. /\ mpc = "remove" /\ mpc' \in {"pause", "write"} /\ removeJob(mjob)
        /\ UNCHANGED <<mjob, txJob, children, inflight, cpc, cjob>>
    BY <1>8 DEF ForgetTxns, MonitorGoTo
  <2>2. Judged(mjob)' /\ (\A j \in Jobs : Judged(j) => Judged(j)') /\ (\A j \in Jobs : NeedsTxs(j)' => NeedsTxs(j))
    BY <2>1 DEF Judged, NeedsTxs
  <2> QED
    BY <1>0, <2>1, <2>2, HasTxsRemove
<1>9. CASE FinishChild
  <2>1. children[mjob] > 0 /\ mpc = "finish"
    BY <1>9 DEF FinishChild, TypeInv, MonitorHasChild
  <2>2. children[mjob] = 1 /\ inflight[mjob] = 0
    BY <1>0, <2>1 DEF OneChild
  <2>3. ~(cpc = "track" /\ cjob = mjob)
    BY <2>1, NoChildAtWork
  <2>4. /\ children' = [children EXCEPT ![mjob] = @ - 1] /\ UNCHANGED <<inflight, cpc, cjob, watch, txJob>>
    BY <1>9 DEF FinishChild, ChildDone
  <2>5. \A j \in Jobs : NeedsTxs(j)' => NeedsTxs(j) /\ j # mjob
    BY <1>0, <2>2, <2>3, <2>4 DEF NeedsTxs
  <2>6. \A j \in Jobs : doesJobKeyExist(j) => doesJobKeyExist(j)'
    BY <2>4 DEF doesJobKeyExist, TxsOf
  <2> QED
    BY <2>5, <2>6 DEF HasTxs, Judged
<1>10. CASE TxMonitor /\ ~ForgetTxns /\ ~FinishChild
  <2>1. /\ UNCHANGED <<children, inflight, cpc, cjob, watch, txJob>>
        /\ \A j \in Jobs : Judged(j) => Judged(j)'
    BY <1>10
    DEF TxMonitor, PickChild, ReadTxns, ReadSource, PauseOnSchema, WriteVerdict, MonitorGoTo, Judged
  <2> QED
    BY <2>1, HasTxsFrame DEF NeedsTxs
<1>11. CASE CompletionMonitor
  <2>1. UNCHANGED <<children, inflight, cpc, cjob, txJob, mjob, mpc>>
    BY <1>11
    DEF CompletionMonitor, BootCheck, SkipToHead, ReadBlock, SettleTx, ReadExpired, ExpireTx, SetLastSeen
  <2>2. \A t \in Txs : watch[t] # "none" => watch'[t] # "none"
    <3>1. ASSUME NEW s \in Txs, SettleTx(s) PROVE \A t \in Txs : watch[t] # "none" => watch'[t] # "none"
      BY <1>0, <3>1, OutcomesAreFinal DEF SettleTx, upsertWatchedTxn, TypeInv, HitsAreIncluded
    <3>2. ASSUME NEW s \in Txs, ExpireTx(s) PROVE \A t \in Txs : watch[t] # "none" => watch'[t] # "none"
      BY <1>0, <3>2 DEF ExpireTx, upsertWatchedTxn
    <3> QED
      BY <1>11, <3>1, <3>2 DEF CompletionMonitor, BootCheck, SkipToHead, ReadBlock, ReadExpired, SetLastSeen
  <2> QED
    BY <2>1, <2>2, HasTxsFrame DEF NeedsTxs, Judged
<1>12. ASSUME NEW j \in Jobs, Pick(j) PROVE HasTxs'
  <2>1. cpc' # "track"
    BY <1>12 DEF Pick, FirstStep, TypeInv, TypeOK, JobStates
  <2> QED
    BY <1>12, <2>1, HasTxsFrame DEF Pick, NeedsTxs, Judged
<1>13. CASE \/ ResetForRetry \/ FetchGraph \/ FetchFails \/ AwaitChildren \/ MarkSubmitted \/ Caught
            \/ AddDeadLetter \/ ThrowError \/ ThrowUnrecoverable
  <2>1. UNCHANGED <<children, inflight, watch, txJob, mjob, mpc>> /\ cpc' # "track"
    BY <1>13
    DEF ResetForRetry, FetchGraph, FetchFails, AwaitChildren, MarkSubmitted, Caught, AddDeadLetter,
        ThrowError, ThrowUnrecoverable, GoTo, Idle
  <2> QED
    BY <2>1, HasTxsFrame DEF NeedsTxs, Judged
<1>14. CASE \/ PauseQueue \/ ResumeQueue \/ (\E t \in Txs : Settle(t)) \/ UNCHANGED vars
            \/ \E j \in Requests : ScannerEnqueue(j)
  BY <1>14, HasTxsFrame
  DEF PauseQueue, ResumeQueue, Settle, Include, OutliveMortality, ScannerEnqueue, vars, NeedsTxs, Judged
<1> QED
  BY <1>1, <1>2, <1>3, <1>4, <1>5, <1>6, <1>7, <1>8, <1>9, <1>10, <1>11, <1>12, <1>13, <1>14
  DEF Next, Consumer, Environment, Dies

(***************************************************************************)
(* What the transaction monitor has read.                                  *)
(***************************************************************************)
LEMMA SnapFrame ==
    ASSUME SnapTrue, UNCHANGED <<mpc, mjob, msnap>>,
           \A t \in Txs : fate[t] # "unsent" => fate'[t] # "unsent" /\ txJob'[t] = txJob[t],
           \A t \in Txs : fate[t] = "success" => fate'[t] = "success",
           mpc # "idle" => PendingOf(mjob)' \subseteq PendingOf(mjob)
    PROVE  SnapTrue'
BY DEF SnapTrue, HasPending

\* Pending transactions are added by the consumer only.
LEMMA PendingShrinks ==
    ASSUME TypeInv, HitsPending, TxMonitor \/ CompletionMonitor \/ Untrack
    PROVE  UNCHANGED <<fate, txJob, txPages>> /\ getAllPendingTxns' \subseteq getAllPendingTxns
<1>1. \A t \in Txs : watch'[t] = "pending" => watch[t] = "pending"
  <2>1. CASE TxMonitor \/ Untrack
    BY <2>1
    DEF TxMonitor, PickChild, ReadTxns, ReadSource, ForgetTxns, removeJob, PauseOnSchema,
        WriteVerdict, FinishChild, Untrack
  <2>2. ASSUME NEW s \in Txs, SettleTx(s) PROVE \A t \in Txs : watch'[t] = "pending" => watch[t] = "pending"
    <3>1. watch[s] = "pending" /\ \E status : watch' = [watch EXCEPT ![s] = status]
      BY <2>2 DEF SettleTx, upsertWatchedTxn, HitsPending, getAllPendingTxns
    <3> QED
      BY <3>1 DEF TypeInv, TypeOK
  <2>3. ASSUME NEW s \in Txs, ExpireTx(s) PROVE \A t \in Txs : watch'[t] = "pending" => watch[t] = "pending"
    BY <2>3 DEF ExpireTx, upsertWatchedTxn, TypeInv, TypeOK
  <2> QED
    BY <2>1, <2>2, <2>3
    DEF CompletionMonitor, BootCheck, SkipToHead, ReadBlock, ReadExpired, SetLastSeen
<1>2. UNCHANGED <<fate, txJob, txPages>>
  BY DEF TxMonitor, PickChild, ReadTxns, ReadSource, ForgetTxns, PauseOnSchema, WriteVerdict, FinishChild,
     CompletionMonitor, BootCheck, SkipToHead, ReadBlock, SettleTx, ReadExpired, ExpireTx, SetLastSeen,
     Untrack, chainVars
<1> QED
  BY <1>1, <1>2 DEF getAllPendingTxns

LEMMA SnapNext ==
    ASSUME TypeInv, CacheInv, QueueInv, TxsComplete, OneChild, HasTxs, SnapTrue, HitsPending,
           OneJobPerUser, [Next]_vars, ~Dies
    PROVE  SnapTrue'
<1> USE DEF queueVars, chainVars, workerVars, monitorVars
<1>0. /\ cjob \in Jobs /\ mjob \in Jobs /\ watch \in [Txs -> Statuses] /\ fate \in [Txs -> Fates]
      /\ txJob \in [Txs -> Jobs]
  BY DEF TypeInv, TypeOK
<1>1. ASSUME NEW j \in Jobs, PickChild(j) PROVE SnapTrue'
  BY <1>1 DEF PickChild, SnapTrue, NoStatus
<1>2. CASE ReadTxns
  <2>1. /\ mpc = "txns" /\ mpc' = "source" /\ UNCHANGED <<mjob, watch, fate, txJob>>
        /\ \A t \in Txs : msnap'[t] = IF txJob[t] = mjob THEN watch[t] ELSE "none"
    BY <1>0, <1>2, TxsOfJob DEF ReadTxns, getAllTxnsForJob
  <2>2. doesJobKeyExist(mjob)
    BY <1>0, <2>1 DEF HasTxs, NeedsTxs, Judged, TypeInv, MonitorHasChild
  <2>3. \E t \in Txs : msnap'[t] # "none"
    BY <1>0, <2>1, <2>2, TxsOfJob DEF doesJobKeyExist
  <2>4. \A t \in Txs : msnap'[t] # "none" => txJob[t] = mjob /\ fate[t] # "unsent"
    BY <2>1 DEF CacheInv, CacheAgreesWithChain
  <2>5. \A t \in Txs : msnap'[t] = "success" => fate[t] = "success"
    BY <2>1 DEF CacheInv, CacheAgreesWithChain, Outcomes
  <2>6. \A t \in PendingOf(mjob)' : msnap'[t] = "pending"
    BY <1>0, <2>1, TxsOfJob DEF PendingOf, TxsOf, getAllPendingTxns
  <2> QED
    BY <2>1, <2>3, <2>4, <2>5, <2>6 DEF SnapTrue
<1>3. CASE ReadSource
  <2>1. PendingOf(mjob)' = PendingOf(mjob) \/ MonitorIdle
    BY <1>3 DEF ReadSource, PendingOf, TxsOf, getAllPendingTxns
  <2> QED
    BY <1>3, <2>1 DEF ReadSource, MonitorIdle, SnapTrue, NoStatus, HasPending
<1>4. CASE ForgetTxns \/ PauseOnSchema \/ WriteVerdict
  BY <1>4 DEF ForgetTxns, PauseOnSchema, WriteVerdict, MonitorGoTo, SnapTrue
<1>5. CASE FinishChild
  BY <1>5 DEF FinishChild, MonitorIdle, SnapTrue, NoStatus
<1>6. CASE SendBatch \/ SendFails
  <2>1. \A t \in Txs : fate[t] # "unsent" => fate'[t] = fate[t] /\ txJob'[t] = txJob[t]
    BY <1>6, SubmitUnwatched DEF SendBatch, SendFails
  <2>2. PendingOf(mjob)' \subseteq PendingOf(mjob)
    <3>1. \A t \in Txs : watch[t] = "pending" => txJob'[t] = txJob[t]
      BY <2>1 DEF CacheInv, CacheAgreesWithChain
    <3> QED
      BY <1>6, <3>1 DEF SendBatch, SendFails, PendingOf, TxsOf, getAllPendingTxns
  <2> QED
    BY <1>6, <2>1, <2>2, SnapFrame DEF SendBatch, SendFails
<1>7. CASE RecordTx
  <2>1. ctx \in Txs /\ txJob[ctx] = cjob /\ (mpc # "idle" => mjob # cjob)
    BY <1>7, NoChildAtWork DEF RecordTx, TxsComplete
  <2>2. UNCHANGED <<mpc, mjob, msnap, fate, txJob>> /\ watch' = [watch EXCEPT ![ctx] = "pending"]
    BY <1>7 DEF RecordTx, upsertWatchedTxn
  <2>3. mpc # "idle" => ctx \notin TxsOf(mjob)
    BY <1>0, <2>1, TxsOfJob
  <2>4. mpc # "idle" => PendingOf(mjob)' \subseteq PendingOf(mjob)
    BY <1>0, <2>2, <2>3 DEF PendingOf, TxsOf, getAllPendingTxns
  <2> QED
    BY <2>2, <2>4, SnapFrame
<1>8. CASE CompletionMonitor \/ Untrack
  <2>1. UNCHANGED <<mpc, mjob, msnap>>
    BY <1>8
    DEF Untrack, CompletionMonitor, BootCheck, SkipToHead, ReadBlock, SettleTx, ReadExpired, ExpireTx,
        SetLastSeen
  <2>2. PendingOf(mjob)' \subseteq PendingOf(mjob)
    BY <1>8, <2>1, PendingShrinks DEF PendingOf, TxsOf
  <2> QED
    BY <1>8, <2>1, <2>2, PendingShrinks, SnapFrame
<1>9. ASSUME NEW t \in Txs, Settle(t) PROVE SnapTrue'
  <2>1. UNCHANGED <<mpc, mjob, msnap, txJob, watch>>
    BY <1>9 DEF Settle, Include, OutliveMortality
  <2>2. fate[t] = "pool" /\ fate'[t] # "unsent" /\ \A s \in Txs : s # t => fate'[s] = fate[s]
    <3>1. fate[t] = "pool" /\ \E f \in Included \cup {"dead"} : fate' = [fate EXCEPT ![t] = f]
      BY <1>9 DEF Settle, Include, OutliveMortality, Included
    <3> QED
      BY <1>0, <3>1, OutcomesAreFinal
  <2>3. PendingOf(mjob)' = PendingOf(mjob)
    BY <2>1 DEF PendingOf, TxsOf, getAllPendingTxns
  <2> QED
    BY <2>1, <2>2, <2>3, SnapFrame
<1>10. CASE \/ \E j \in Jobs : Pick(j)
            \/ ResetForRetry \/ CheckKey \/ FetchGraph \/ FetchFails \/ TrackTxs \/ AwaitChildren
            \/ MarkSubmitted \/ Caught \/ RemoveDeadLetter \/ AddDeadLetter \/ ThrowError
            \/ ThrowUnrecoverable \/ CompleteJob
            \/ \E j \in Requests : ScannerEnqueue(j) \/ TransitiveEnqueue(j)
            \/ \E j \in Jobs : ChildAdded(j)
            \/ PauseQueue \/ ResumeQueue \/ UNCHANGED vars
  <2>1. UNCHANGED <<mpc, mjob, msnap, fate, txJob, watch>>
    BY <1>10
    DEF Pick, ResetForRetry, CheckKey, FetchGraph, FetchFails, TrackTxs, AwaitChildren, MarkSubmitted,
        Caught, RemoveDeadLetter, AddDeadLetter, ThrowError, ThrowUnrecoverable, CompleteJob,
        ScannerEnqueue, TransitiveEnqueue, ChildAdded, PauseQueue, ResumeQueue, vars
  <2>2. PendingOf(mjob)' = PendingOf(mjob)
    BY <2>1 DEF PendingOf, TxsOf, getAllPendingTxns
  <2> QED
    BY <2>1, <2>2, SnapFrame
<1> QED
  BY <1>1, <1>2, <1>3, <1>4, <1>5, <1>6, <1>7, <1>8, <1>9, <1>10
  DEF Next, Consumer, TxMonitor, Environment, Dies

(***************************************************************************)
(* Success.                                                                *)
(***************************************************************************)
LEMMA SuccessFrame ==
    ASSUME TypeInv, SuccessTrue, OneJobPerUser, [Next]_vars,
           \A j \in Jobs : state'[j] = "MonitorSuccess" => state[j] = "MonitorSuccess",
           (UNCHANGED <<mstate, mjob>> /\ mpc' # "idle") \/ UNCHANGED monitorVars \/ mstate' # "MonitorSuccess",
           cpc' = "complete" => cpc = "complete" /\ cjob' = cjob
    PROVE  SuccessTrue'
<1> USE DEF monitorVars
<1>1. \A j \in Jobs : j.user \in Users
  BY KeyIsJob
<1>2. cjob \in Jobs /\ mjob \in Jobs
  BY DEF TypeInv, TypeOK
<1>3. \A u \in Users : Updated(u) => Updated(u)'
  BY OnchainGrows
<1>4. \A j \in Jobs : state'[j] = "MonitorSuccess" => Updated(j.user)'
  BY <1>1, <1>3 DEF SuccessTrue
<1>5. (mstate = "MonitorSuccess" /\ UNCHANGED mjob => Updated(mjob.user)')
      /\ (cpc = "complete" /\ UNCHANGED cjob => Updated(cjob.user)')
  BY <1>1, <1>2, <1>3 DEF SuccessTrue, Updated
<1> QED
  BY <1>4, <1>5 DEF SuccessTrue

\* A verdict of success is given on transactions that were there and succeeded, or is the
\* one that was there.
LEMMA VerdictTrue ==
    ASSUME TypeInv, TxsComplete, SnapTrue, SuccessTrue, mpc = "write",
           Verdict(msnap, mstate) = "MonitorSuccess"
    PROVE  Updated(mjob.user)
<1>1. PICK t \in Txs : msnap[t] # "none"
  BY DEF SnapTrue
<1>2. CASE \A s \in Txs : msnap[s] \in {"none", "success"}
  BY <1>1, <1>2 DEF SnapTrue, TxsComplete
<1>3. CASE ~\A s \in Txs : msnap[s] \in {"none", "success"}
  BY <1>3 DEF Verdict, SuccessTrue
<1> QED
  BY <1>2, <1>3

LEMMA SuccessNext ==
    ASSUME TypeInv, TxsComplete, SnapTrue, SuccessTrue, OneJobPerUser, [Next]_vars, ~Dies
    PROVE  SuccessTrue'
<1> USE DEF queueVars, chainVars, workerVars, monitorVars
<1>0. state \in [Jobs -> JobStates] /\ cjob \in Jobs /\ mjob \in Jobs
  BY DEF TypeInv, TypeOK
<1>1. ASSUME NEW j \in Jobs, Pick(j) PROVE SuccessTrue'
  <2>1. cpc' = "complete" => state[j] = "MonitorSuccess"
    BY <1>0, <1>1 DEF Pick, FirstStep, JobStates
  <2>2. UNCHANGED <<state, mstate, mjob, mpc, onchain>> /\ cjob' = j
    BY <1>1 DEF Pick
  <2> QED
    BY <2>1, <2>2 DEF SuccessTrue, Updated
<1>2. CASE FetchGraph
  <2>1. UNCHANGED <<state, mstate, mjob, mpc, onchain, cjob>>
    BY <1>2 DEF FetchGraph
  <2>2. cpc' = "complete" => MissingPages(cjob.user) = {} \/ cjob.user \in Revocable
    BY <1>2 DEF FetchGraph, Granted, MissingPages
  <2>3. onchain[cjob.user] \subseteq Pages
    BY <1>0, KeyIsJob DEF TypeInv, TypeOK
  <2>4. cpc' = "complete" => Updated(cjob.user)
    BY <2>2, <2>3 DEF MissingPages, Updated
  <2> QED
    BY <2>1, <2>4 DEF SuccessTrue, Updated
<1>3. CASE ReadSource
  BY <1>0, <1>3 DEF ReadSource, MonitorIdle, SuccessTrue, Updated
<1>4. CASE WriteVerdict
  <2>1. /\ UNCHANGED <<mstate, mjob, onchain, cpc, cjob>> /\ mpc = "write" /\ mpc' = "finish"
        /\ state' = [state EXCEPT ![mjob] = Verdict(msnap, mstate)]
    BY <1>4 DEF WriteVerdict, MonitorGoTo
  <2>2. \A j \in Jobs : state'[j] = "MonitorSuccess" => Updated(j.user)
    BY <1>0, <2>1, VerdictTrue DEF SuccessTrue
  <2> QED
    BY <2>1, <2>2 DEF SuccessTrue, Updated
<1>5. CASE \/ ResetForRetry \/ CheckKey \/ FetchFails \/ SendBatch \/ SendFails \/ RecordTx \/ Untrack
           \/ TrackTxs \/ AwaitChildren \/ MarkSubmitted \/ Caught \/ AddDeadLetter \/ ThrowError
           \/ ThrowUnrecoverable
  BY <1>0, <1>5, SuccessFrame
  DEF ResetForRetry, CheckKey, FetchFails, SendBatch, SendFails, RecordTx, Untrack, TrackTxs,
      AwaitChildren, MarkSubmitted, Caught, AddDeadLetter, ThrowError, ThrowUnrecoverable, GoTo, Idle
<1>6. CASE RemoveDeadLetter \/ CompleteJob \/ \E k \in Requests : TransitiveEnqueue(k)
  <2>1. /\ UNCHANGED monitorVars /\ (cpc' = "complete" => cpc = "complete" /\ cjob' = cjob)
        /\ state' = state \/ \E k \in Jobs : state' = [state EXCEPT ![k] = "Unprocessed"]
    BY <1>0, <1>6, JobsFacts, DeadLetterJob
    DEF RemoveDeadLetter, QueueRemove, CompleteJob, TransitiveEnqueue, QueueReplace, Fresh, GoTo, Idle
  <2> QED
    BY <1>0, <2>1, SuccessFrame
<1>7. CASE TxMonitor /\ ~ReadSource /\ ~WriteVerdict
  BY <1>7, SuccessFrame
  DEF TxMonitor, PickChild, ReadTxns, ForgetTxns, PauseOnSchema, FinishChild, MonitorGoTo, MonitorIdle,
      SnapTrue, SuccessTrue
<1>8. CASE CompletionMonitor
  BY <1>8, SuccessFrame
  DEF CompletionMonitor, BootCheck, SkipToHead, ReadBlock, SettleTx, ReadExpired, ExpireTx, SetLastSeen
<1>9. CASE (Environment /\ ~\E k \in Requests : TransitiveEnqueue(k)) \/ UNCHANGED vars
  BY <1>9, SuccessFrame
  DEF Environment, ScannerEnqueue, ChildAdded, Settle, Include, OutliveMortality, PauseQueue,
      ResumeQueue, Dies, vars
<1> QED
  BY <1>1, <1>2, <1>3, <1>4, <1>5, <1>6, <1>7, <1>8, <1>9
  DEF Next, Consumer, Environment, Dies

(***************************************************************************)
(* What the consumer may forget.                                           *)
(***************************************************************************)
LEMMA NonePendingNext ==
    ASSUME TypeInv, CacheInv, TxsComplete, NonePending, HitsPending, [Next]_vars, ~Dies
    PROVE  NonePending'
<1> USE DEF queueVars, chainVars, workerVars, monitorVars
<1>1. CASE CheckKey
  <2>1. PendingOf(cjob)' = PendingOf(cjob)
    BY <1>1 DEF CheckKey, GoTo, PendingOf, TxsOf, getAllPendingTxns
  <2>2. ~doesJobKeyExist(cjob) => PendingOf(cjob) = {}
    BY DEF doesJobKeyExist, PendingOf, getAllPendingTxns
  <2> QED
    BY <1>1, <2>1, <2>2 DEF CheckKey, GoTo, NonePending
<1>2. CASE FetchGraph \/ FetchFails
  <2>1. PendingOf(cjob)' = PendingOf(cjob) /\ cpc = "fetch"
    BY <1>2 DEF FetchGraph, FetchFails, GoTo, PendingOf, TxsOf, getAllPendingTxns
  <2> QED
    BY <2>1 DEF NonePending
<1>3. CASE SendFails
  <2>1. \A t \in Txs : watch[t] = "pending" => txJob'[t] = txJob[t]
    BY <1>3, SubmitUnwatched DEF SendFails
  <2>2. PendingOf(cjob)' \subseteq PendingOf(cjob) /\ cpc = "send"
    BY <1>3, <2>1 DEF SendFails, PendingOf, TxsOf, getAllPendingTxns
  <2> QED
    BY <2>2 DEF NonePending
<1>4. CASE ConsumerStep /\ ~(CheckKey \/ FetchGraph \/ FetchFails \/ SendFails)
  <2>1. cpc' \notin {"fetch", "send", "untrack"}
    BY <1>4
    DEF ConsumerStep, Consumer, Pick, ResetForRetry, SendBatch, RecordTx, Untrack, TrackTxs, AwaitChildren,
        MarkSubmitted, Caught, RemoveDeadLetter, AddDeadLetter, ThrowError, ThrowUnrecoverable,
        CompleteJob, GoTo, Idle, TxsComplete
  <2> QED
    BY <2>1 DEF NonePending
<1>5. ASSUME NEW j \in Jobs, Pick(j) PROVE NonePending'
  BY <1>5 DEF Pick, FirstStep, JobStates, TypeInv, TypeOK, NonePending
<1>6. CASE TxMonitor \/ CompletionMonitor
  <2>1. UNCHANGED <<cpc, cjob>>
    BY <1>6
    DEF TxMonitor, PickChild, ReadTxns, ReadSource, ForgetTxns, PauseOnSchema, WriteVerdict, FinishChild,
        CompletionMonitor, BootCheck, SkipToHead, ReadBlock, SettleTx, ReadExpired, ExpireTx, SetLastSeen
  <2>2. PendingOf(cjob)' \subseteq PendingOf(cjob)
    BY <1>6, <2>1, PendingShrinks DEF PendingOf, TxsOf
  <2> QED
    BY <2>1, <2>2 DEF NonePending
<1>7. CASE Environment \/ UNCHANGED vars
  <2>1. UNCHANGED <<cpc, cjob, watch, txJob>>
    BY <1>7
    DEF Environment, ScannerEnqueue, TransitiveEnqueue, ChildAdded, Settle, Include, OutliveMortality,
        PauseQueue, ResumeQueue, Dies, vars
  <2> QED
    BY <2>1 DEF NonePending, PendingOf, TxsOf, getAllPendingTxns
<1> QED
  BY <1>1, <1>2, <1>3, <1>4, <1>5, <1>6, <1>7
  DEF Next, Consumer, ConsumerStep, ResetForRetry, SendBatch, RecordTx, Untrack, TrackTxs,
      AwaitChildren, MarkSubmitted, Caught, RemoveDeadLetter, AddDeadLetter, ThrowError,
      ThrowUnrecoverable, CompleteJob, Dies

LEMMA HitsPendingNext ==
    ASSUME TypeInv, HitsPending, NonePending, SnapTrue, [Next]_vars, ~Dies
    PROVE  HitsPending'
<1> USE DEF queueVars, chainVars, workerVars, monitorVars, scanVars
<1>0. watch \in [Txs -> Statuses]
  BY DEF TypeInv, TypeOK
<1>1. CASE CompletionMonitor
  <2>1. ASSUME NEW t \in Txs, SettleTx(t) PROVE HitsPending'
    BY <1>0, <2>1 DEF SettleTx, upsertWatchedTxn, HitsPending, getAllPendingTxns, TypeInv, TypeOK
  <2> QED
    BY <1>1, <2>1
    DEF CompletionMonitor, BootCheck, SkipToHead, ReadBlock, ReadExpired, ExpireTx, SetLastSeen,
        HitsPending, getAllPendingTxns
<1>2. CASE RecordTx
  BY <1>0, <1>2 DEF RecordTx, upsertWatchedTxn, HitsPending, getAllPendingTxns
<1>3. CASE Untrack
  <2>1. getAllPendingTxns' = getAllPendingTxns
    BY <1>0, <1>3 DEF Untrack, removeJob, NonePending, PendingOf, getAllPendingTxns
  <2> QED
    BY <1>3, <2>1 DEF Untrack, HitsPending
<1>4. CASE ForgetTxns
  <2>1. PendingOf(mjob) = {}
    BY <1>4 DEF ForgetTxns, SnapTrue, HasPending, PendingOf, TxsOf
  <2>2. getAllPendingTxns' = getAllPendingTxns
    BY <1>0, <1>4, <2>1 DEF ForgetTxns, removeJob, PendingOf, getAllPendingTxns
  <2> QED
    BY <1>4, <2>2 DEF ForgetTxns, HitsPending
<1>5. CASE UNCHANGED <<watch, bpc, bhits>>
  BY <1>5 DEF HitsPending, getAllPendingTxns
<1>6. \/ CompletionMonitor \/ RecordTx \/ Untrack \/ ForgetTxns \/ UNCHANGED <<watch, bpc, bhits>>
  BY DEF Next, Consumer, Pick, ResetForRetry, CheckKey, FetchGraph, FetchFails, SendBatch, SendFails,
     TrackTxs, AwaitChildren, MarkSubmitted, Caught, RemoveDeadLetter, AddDeadLetter, ThrowError,
     ThrowUnrecoverable, CompleteJob, TxMonitor, PickChild, ReadTxns, ReadSource, PauseOnSchema,
     WriteVerdict, FinishChild, Environment, ScannerEnqueue, TransitiveEnqueue, ChildAdded, Settle,
     Include, OutliveMortality, PauseQueue, ResumeQueue, Dies, vars
<1> QED
  BY <1>1, <1>2, <1>3, <1>4, <1>5, <1>6

(***************************************************************************)
(* All together.                                                           *)
(***************************************************************************)
\* What the theorems suppose; without any one of the three, TLC finds each of them violated.
OneUpdateAtATime == OneJobPerUser /\ OneBatch /\ OrderedAdds

\* The number of crashes does not go back to 0.
LEMMA CrashCounts == TypeInv /\ [Next]_vars /\ crashes' = 0 => crashes = 0 /\ ~Dies
<1> SUFFICES ASSUME TypeInv, [Next]_vars, crashes' = 0 PROVE crashes = 0 /\ ~Dies
  OBVIOUS
<1>1. ~Crash /\ (StartAgain => MaxCrashes = 0)
  BY BoundsAssumption DEF Crash, StartAgain, TypeInv, TypeOK
<1>2. ~SettleThrows
  <2>1. ASSUME SettleThrows PROVE "other" \in OddOutcomes
    <3>1. "other" \in Included
      BY <2>1 DEF SettleThrows, TypeInv, HitsAreIncluded
    <3> QED
      BY <3>1, OutcomesAreFinal DEF Included
  <2> QED
    BY <1>1, <2>1, ErrorsAssumption, BoundsAssumption DEF SettleThrows
<1>3. ~Dies
  BY <1>1, <1>2 DEF Dies
<1> QED
  BY <1>3
  DEF Next, Consumer, Pick, ResetForRetry, CheckKey, FetchGraph, FetchFails, SendBatch, SendFails,
      RecordTx, Untrack, TrackTxs, AwaitChildren, MarkSubmitted, Caught, RemoveDeadLetter,
      AddDeadLetter, ThrowError, ThrowUnrecoverable, CompleteJob, TxMonitor, PickChild, ReadTxns,
      ReadSource, ForgetTxns, PauseOnSchema, WriteVerdict, FinishChild, CompletionMonitor, BootCheck,
      SkipToHead, ReadBlock, SettleTx, ReadExpired, ExpireTx, SetLastSeen, Environment,
      ScannerEnqueue, TransitiveEnqueue, ChildAdded, Settle, Include, OutliveMortality, PauseQueue,
      ResumeQueue, Dies, vars, boundVars

LEMMA OutcomeInvariant ==
    ASSUME OneUpdateAtATime
    PROVE  Spec => []OutcomeInv
<1> USE DEF OneUpdateAtATime
<1>1. Init => OutcomeInv
  <2> SUFFICES ASSUME Init PROVE OutcomeInv
    OBVIOUS
  <2>1. TxsComplete
    BY DEF Init, TxsComplete
  <2>2. OneChild /\ HasTxs /\ SnapTrue /\ SuccessTrue /\ NoneForgotten
    BY DEF Init, OneChild, HasTxs, NeedsTxs, SnapTrue, NoStatus, SuccessTrue, NoneForgotten,
           NonePending, HitsPending
  <2> QED
    BY <2>1, <2>2 DEF OutcomeInv
<1>2. TypeInv /\ CacheInv /\ QueueInv /\ OutcomeInv /\ [Next]_vars => OutcomeInv'
  <2> SUFFICES ASSUME TypeInv, CacheInv, QueueInv, OutcomeInv, [Next]_vars PROVE OutcomeInv'
    OBVIOUS
  <2>1. TxsComplete /\ TxsComplete'
    BY TxsNext DEF OutcomeInv
  <2>2. ASSUME crashes' = 0
        PROVE  (OneChild /\ HasTxs /\ SnapTrue /\ SuccessTrue /\ NoneForgotten)'
    <3>1. ~Dies /\ OneChild /\ HasTxs /\ SnapTrue /\ SuccessTrue /\ NonePending /\ HitsPending
      BY <2>2, CrashCounts DEF OutcomeInv, NoneForgotten
    <3> QED
      BY <2>1, <3>1, OneChildNext, HasTxsNext, SnapNext, SuccessNext, NonePendingNext,
         HitsPendingNext DEF NoneForgotten
  <2> QED
    BY <2>1, <2>2 DEF OutcomeInv
<1>3. Spec => [](WorkerOwnsJob /\ ParkedHasMonitor)
  BY QueueCorrect
<1> QED
  BY <1>1, <1>2, <1>3, TypeCorrect, CacheInvariant, PTL DEF Spec, QueueInv

\* A job that is at work leaves the queue only by completing it.
LEMMA CompletingStep ==
    ASSUME TypeInv, QueueInv, [Next]_vars, NEW j \in Jobs, place[j] # "absent", place'[j] = "absent"
    PROVE  \/ CompleteJob /\ cjob = j
           \/ j.dead /\ place[j] # "active"
<1>0. place \in [Jobs -> Places] /\ cjob \in Jobs /\ mjob \in Jobs
  BY DEF TypeInv, TypeOK
<1>1. CASE CompleteJob
  BY <1>0, <1>1 DEF CompleteJob, Fresh, AttemptFails
<1>2. CASE RemoveDeadLetter
  <2>1. ~Locked(DeadLetter(cjob)) /\ place' = [place EXCEPT ![DeadLetter(cjob)] = "absent"]
    BY <1>2 DEF RemoveDeadLetter, QueueRemove, Fresh
  <2>2. j = DeadLetter(cjob)
    BY <1>0, <2>1
  <2> QED
    BY <2>1, <2>2 DEF Locked, DeadLetter
<1>3. \/ UNCHANGED place
      \/ (\E k \in Jobs : Pick(k)) \/ AwaitChildren \/ AddDeadLetter \/ ThrowError \/ ThrowUnrecoverable
      \/ FinishChild \/ StartAgain \/ (\E k \in Requests : ScannerEnqueue(k) \/ TransitiveEnqueue(k))
      \/ CompleteJob \/ RemoveDeadLetter
  BY DEF Next, Consumer, ResetForRetry, CheckKey, FetchGraph, FetchFails, SendBatch, SendFails,
     RecordTx, Untrack, TrackTxs, MarkSubmitted, Caught, TxMonitor, PickChild, ReadTxns, ReadSource,
     ForgetTxns, PauseOnSchema, WriteVerdict, CompletionMonitor, BootCheck, SkipToHead, ReadBlock,
     SettleTx, ReadExpired, ExpireTx, SetLastSeen, Environment, ChildAdded, Settle, Include,
     OutliveMortality, PauseQueue, ResumeQueue, Crash, SettleThrows, vars, queueVars
<1>4. CASE \E k \in Jobs : Pick(k)
  BY <1>0, <1>4 DEF Pick
<1>5. CASE AwaitChildren \/ AddDeadLetter \/ ThrowError \/ ThrowUnrecoverable \/ FinishChild
  BY <1>0, <1>5
  DEF AwaitChildren, AddDeadLetter, QueueAdd, ThrowError, AttemptFails, ThrowUnrecoverable, FinishChild, ChildDone
<1>6. CASE StartAgain
  BY <1>0, <1>6 DEF StartAgain, ParentFails, JobStalls
<1>7. ASSUME NEW k \in Requests, ScannerEnqueue(k) \/ TransitiveEnqueue(k)
      PROVE  place' = place \/ \E l \in Jobs : place' = [place EXCEPT ![l] = "waiting"]
  BY <1>7, JobsFacts DEF ScannerEnqueue, TransitiveEnqueue, QueueReplace, Fresh
<1> QED
  BY <1>0, <1>1, <1>2, <1>3, <1>4, <1>5, <1>6, <1>7

\* Until the service crashes, a job completes only when every page that the provider's graph
\* changes is on the chain: for any jobs, one of each user, and any pages that fit in one
\* batch, any number of transactions and attempts.
THEOREM CompletionCorrect ==
    ASSUME OneUpdateAtATime
    PROVE  Spec => CompletedMeansUpdated
<1>1. TypeInv /\ QueueInv /\ OutcomeInv /\ [Next]_vars =>
          [crashes = 0 => \A j \in Jobs : place[j] = "active" /\ place'[j] = "absent"
                              => Updated(j.user)]_vars
  BY CompletingStep DEF CompleteJob, OutcomeInv, SuccessTrue
<1>2. Spec => [](WorkerOwnsJob /\ ParkedHasMonitor)
  BY QueueCorrect
<1> QED
  BY <1>1, <1>2, TypeCorrect, OutcomeInvariant, PTL DEF Spec, QueueInv, CompletedMeansUpdated

\* Until the service crashes, the monitor writes the verdict of success only when the user's
\* pages are on the chain.
THEOREM VerdictCorrect ==
    ASSUME OneUpdateAtATime
    PROVE  Spec => SuccessVerdictSound
<1>1. TypeInv /\ OutcomeInv /\ [Next]_vars =>
          [crashes = 0 /\ mpc = "write" /\ mpc' = "finish" /\ state'[mjob] = "MonitorSuccess"
              => Updated(mjob.user)]_vars
  <2> SUFFICES ASSUME TypeInv, OutcomeInv, [Next]_vars, crashes = 0, mpc = "write", mpc' = "finish",
                      state'[mjob] = "MonitorSuccess"
               PROVE  Updated(mjob.user)
    OBVIOUS
  <2>1. WriteVerdict
    BY DEF Next, Consumer, Pick, ResetForRetry, CheckKey, FetchGraph, FetchFails, SendBatch, SendFails,
       RecordTx, Untrack, TrackTxs, AwaitChildren, MarkSubmitted, Caught, RemoveDeadLetter,
       AddDeadLetter, ThrowError, ThrowUnrecoverable, CompleteJob, TxMonitor, PickChild, ReadTxns,
       ReadSource, ForgetTxns, PauseOnSchema, FinishChild, CompletionMonitor, BootCheck,
       SkipToHead, ReadBlock, SettleTx, ReadExpired, ExpireTx, SetLastSeen, Environment,
       ScannerEnqueue, TransitiveEnqueue, ChildAdded, Settle, Include, OutliveMortality, PauseQueue,
       ResumeQueue, Crash, SettleThrows, StartAgain, MonitorIdle, vars, monitorVars
  <2>2. Verdict(msnap, mstate) = "MonitorSuccess"
    BY <2>1 DEF WriteVerdict, TypeInv, TypeOK
  <2> QED
    BY <2>2, VerdictTrue DEF OutcomeInv
<1> QED
  BY <1>1, TypeCorrect, OutcomeInvariant, PTL DEF Spec, SuccessVerdictSound

\* Until the service crashes, no transaction is forgotten while it is pending: neither by the
\* monitor, which read before that all are settled, nor by the consumer whose update fails.
THEOREM PendingKept ==
    ASSUME OneUpdateAtATime
    PROVE  Spec => NoPendingForgotten
<1>1. TypeInv /\ OutcomeInv /\ [Next]_vars =>
          [crashes = 0 => \A t \in Txs : watch[t] = "pending" => watch'[t] # "none"]_vars
  <2> SUFFICES ASSUME TypeInv, OutcomeInv, [Next]_vars, crashes = 0,
                      NEW t \in Txs, watch[t] = "pending", watch'[t] = "none"
               PROVE  FALSE
    OBVIOUS
  <2>1. \/ Untrack \/ ForgetTxns \/ RecordTx \/ \E s \in Txs : SettleTx(s) \/ ExpireTx(s)
    BY DEF Next, Consumer, Pick, ResetForRetry, CheckKey, FetchGraph, FetchFails, SendBatch, SendFails,
       TrackTxs, AwaitChildren, MarkSubmitted, Caught, RemoveDeadLetter, AddDeadLetter, ThrowError,
       ThrowUnrecoverable, CompleteJob, TxMonitor, PickChild, ReadTxns, ReadSource, PauseOnSchema,
       WriteVerdict, FinishChild, CompletionMonitor, BootCheck, SkipToHead, ReadBlock, ReadExpired,
       SetLastSeen, Environment, ScannerEnqueue, TransitiveEnqueue, ChildAdded, Settle, Include,
       OutliveMortality, PauseQueue, ResumeQueue, Crash, SettleThrows, StartAgain, vars
  <2>2. CASE Untrack
    BY <2>2 DEF Untrack, removeJob, OutcomeInv, NoneForgotten, NonePending, PendingOf, getAllPendingTxns
  <2>3. CASE ForgetTxns
    <3>1. t \in PendingOf(mjob) /\ mpc = "remove"
      BY <2>3 DEF ForgetTxns, removeJob, PendingOf, getAllPendingTxns
    <3> QED
      BY <3>1 DEF OutcomeInv, SnapTrue, HasPending
  <2>4. CASE RecordTx
    BY <2>4 DEF RecordTx, upsertWatchedTxn, TypeInv, TypeOK
  <2>5. ASSUME NEW s \in Txs, SettleTx(s) \/ ExpireTx(s) PROVE FALSE
    BY <2>5, OutcomesAreFinal
    DEF SettleTx, ExpireTx, upsertWatchedTxn, TypeInv, TypeOK, HitsAreIncluded
  <2> QED
    BY <2>1, <2>2, <2>3, <2>4, <2>5
<1> QED
  BY <1>1, TypeCorrect, OutcomeInvariant, PTL DEF Spec, NoPendingForgotten

(***************************************************************************)
(* The state of which process() says that it should not happen.            *)
(***************************************************************************)
\* The consumer marks the job it has parked before the monitor writes its verdict on it.
MarkedInTime ==
    MarkSubmitted => place[cjob] = "waitingChildren" /\ ~(mpc = "finish" /\ mjob = cjob)

\* A job that is marked is parked, and its verdict is to come.
MarkedIsParked ==
    /\ \A j \in Jobs : state[j] = "Submitted" =>
           place[j] = "waitingChildren" /\ ~(mpc = "finish" /\ mjob = j)
    /\ cpc # "fatal"

LEMMA MarkedFrame ==
    ASSUME MarkedIsParked, UNCHANGED <<mpc, mjob>> \/ mpc' # "finish",
           \A j \in Jobs : state'[j] = "Submitted" => state[j] = "Submitted",
           \A j \in Jobs : \/ place[j] = "waitingChildren" => place'[j] = "waitingChildren"
                           \/ state'[j] # "Submitted",
           cpc' = "fatal" => cpc = "fatal"
    PROVE  MarkedIsParked'
BY DEF MarkedIsParked

LEMMA MarkedNext ==
    ASSUME TypeInv, QueueInv, MarkedIsParked, ChainErrors \cap PauseErrors = {},
           [Next]_vars, MarkedInTime, ~Dies
    PROVE  MarkedIsParked'
<1> USE DEF queueVars, workerVars, monitorVars
<1>0. /\ place \in [Jobs -> Places] /\ state \in [Jobs -> JobStates]
      /\ cjob \in Jobs /\ mjob \in Jobs
  BY DEF TypeInv, TypeOK
<1>1. ASSUME NEW j \in Jobs, Pick(j) PROVE MarkedIsParked'
  <2>1. state[j] # "Submitted"
    BY <1>0, <1>1 DEF Pick, MarkedIsParked
  <2>2. cpc' # "fatal"
    BY <1>0, <1>1, <2>1 DEF Pick, FirstStep, JobStates
  <2> QED
    BY <1>0, <1>1, <2>2, MarkedFrame DEF Pick
<1>2. CASE MarkSubmitted
  BY <1>0, <1>2 DEF MarkSubmitted, MarkedInTime, MarkedIsParked, Idle
<1>3. CASE WriteVerdict
  <2>1. NoRetry(msnap) => Fatal(msnap)
    BY DEF NoRetry, Fatal, Failures
  <2>2. Verdict(msnap, mstate) # "Submitted"
    BY <2>1 DEF Verdict
  <2> QED
    BY <1>0, <1>3, <2>2 DEF WriteVerdict, MonitorGoTo, MarkedIsParked
<1>4. CASE FinishChild
  <2>1. state[mjob] # "Submitted"
    BY <1>0, <1>4 DEF FinishChild, MarkedIsParked
  <2> QED
    BY <1>0, <1>4, <2>1, MarkedFrame DEF FinishChild, ChildDone, MonitorIdle
<1>5. CASE \/ AwaitChildren \/ AddDeadLetter \/ ThrowError \/ ThrowUnrecoverable
           \/ \E k \in Requests : ScannerEnqueue(k)
  <2>1. \A j \in Jobs : place[j] = "waitingChildren" => place'[j] = "waitingChildren"
    BY <1>0, <1>5, JobsFacts
    DEF AwaitChildren, AddDeadLetter, QueueAdd, ThrowError, AttemptFails, ThrowUnrecoverable,
        ScannerEnqueue, QueueInv, WorkerOwnsJob
  <2> QED
    BY <1>5, <2>1, MarkedFrame
    DEF AwaitChildren, AddDeadLetter, ThrowError, ThrowUnrecoverable, ScannerEnqueue, GoTo, Idle
<1>6. CASE RemoveDeadLetter \/ CompleteJob \/ \E k \in Requests : TransitiveEnqueue(k)
  <2>1. PICK k \in Jobs :
            /\ \A j \in Jobs : j # k => state'[j] = state[j] /\ place'[j] = place[j]
            /\ (state' = state /\ (place'[k] = place[k] \/ place[k] = "active")) \/ state'[k] = "Unprocessed"
    BY <1>0, <1>6, JobsFacts, DeadLetterJob
    DEF RemoveDeadLetter, QueueRemove, CompleteJob, AttemptFails, TransitiveEnqueue, QueueReplace,
        Fresh, QueueInv, WorkerOwnsJob
  <2>2. UNCHANGED <<mpc, mjob>> /\ cpc' # "fatal"
    BY <1>6 DEF RemoveDeadLetter, CompleteJob, TransitiveEnqueue, GoTo, Idle
  <2> QED
    BY <1>0, <2>1, <2>2, MarkedFrame
<1>7. CASE ResetForRetry
  BY <1>0, <1>7, MarkedFrame DEF ResetForRetry, GoTo
<1>8. CASE \/ CheckKey \/ FetchGraph \/ FetchFails \/ SendBatch \/ SendFails \/ RecordTx \/ Untrack
           \/ TrackTxs \/ Caught
  BY <1>8, MarkedFrame
  DEF CheckKey, FetchGraph, FetchFails, SendBatch, SendFails, RecordTx, Untrack, TrackTxs, Caught, GoTo
<1>9. CASE TxMonitor /\ ~WriteVerdict /\ ~FinishChild
  BY <1>9, MarkedFrame
  DEF TxMonitor, PickChild, ReadTxns, ReadSource, ForgetTxns, PauseOnSchema, MonitorGoTo, MonitorIdle
<1>10. CASE CompletionMonitor
  BY <1>10, MarkedFrame
  DEF CompletionMonitor, BootCheck, SkipToHead, ReadBlock, SettleTx, ReadExpired, ExpireTx, SetLastSeen
<1>11. CASE \/ (\E j \in Jobs : ChildAdded(j)) \/ (\E t \in Txs : Settle(t))
            \/ PauseQueue \/ ResumeQueue \/ UNCHANGED vars
  BY <1>11, MarkedFrame
  DEF ChildAdded, Settle, Include, OutliveMortality, PauseQueue, ResumeQueue, vars
<1> QED
  BY <1>1, <1>2, <1>3, <1>4, <1>5, <1>6, <1>7, <1>8, <1>9, <1>10, <1>11
  DEF Next, Consumer, Environment, Dies

\* A job in the state Submitted comes to the consumer, which process() (:60) says "should not
\* happen", in two ways only until the service crashes: by an error that pauses the queue, as
\* the finding of jobs_schema_error shows, or because the consumer's own mark (:142), written
\* after the job was parked, comes later than the monitor's verdict and overwrites it.
THEOREM SubmittedNotProcessed ==
    ASSUME ChainErrors \cap PauseErrors = {}
    PROVE  Spec /\ [][MarkedInTime]_vars => [](crashes = 0 => cpc # "fatal")
<1> DEFINE Inv == crashes = 0 => MarkedIsParked
<1>1. Init => Inv
  BY DEF Init, MarkedIsParked
<1>2. TypeInv /\ QueueInv /\ Inv /\ [Next]_vars /\ [MarkedInTime]_vars => Inv'
  <2> SUFFICES ASSUME TypeInv, QueueInv, MarkedIsParked, crashes' = 0,
                      [Next]_vars, [MarkedInTime]_vars, ~Dies
               PROVE  MarkedIsParked'
    BY CrashCounts
  <2>1. CASE MarkedInTime
    BY <2>1, MarkedNext
  <2>2. CASE UNCHANGED vars
    BY <2>2, MarkedFrame DEF vars, queueVars, workerVars, monitorVars
  <2> QED
    BY <2>1, <2>2
<1>3. Inv => (crashes = 0 => cpc # "fatal")
  BY DEF MarkedIsParked
<1>4. Spec => [](WorkerOwnsJob /\ ParkedHasMonitor)
  BY QueueCorrect
<1> HIDE DEF Inv
<1> QED
  BY <1>1, <1>2, <1>3, <1>4, TypeCorrect, PTL DEF Spec, QueueInv

(***************************************************************************)
(* The refinement of UpdateRequests.                                       *)
(***************************************************************************)
\* A job that moves in the queue makes its request what the new place says.
LEMMA RequestMoves ==
    ASSUME TypeInv, NEW k \in Jobs, NEW p, place' = [place EXCEPT ![k] = p]
    PROVE  /\ place'[k] = p
           /\ [j \in Jobs |-> RequestOf(j)]' = [[j \in Jobs |-> RequestOf(j)] EXCEPT ![k] = RequestOf(k)']
BY DEF RequestOf, TypeInv, TypeOK

LEMMA RequestStays ==
    ASSUME TypeInv, UNCHANGED <<onchain, crashes>>,
           \A j \in Jobs : place'[j] = place[j] \/ {place[j], place'[j]} \cap {"absent", "failed"} = {}
    PROVE  UNCHANGED Requested!vars
BY DEF RequestOf, Requested!vars

LEMMA RequestCrash ==
    ASSUME TypeInv, Crash \/ SettleThrows
    PROVE  Requested!Crash
<1> DEFINE js == {j \in Jobs : place[j] # "failed" /\ place'[j] = "failed"}
<1>1. /\ \A j \in Jobs : place'[j] \in {place[j], "failed"} \/ (place[j] = "active" /\ place'[j] = "waiting")
      /\ \A j \in Jobs : place[j] = "absent" => place'[j] = "absent"
  BY DEF Crash, SettleThrows, StartAgain, ParentFails, JobStalls, TypeInv, TypeOK
<1>2. (crashes > 0)' = TRUE /\ UNCHANGED onchain
  <2>1. SettleThrows => "other" \in OddOutcomes
    BY OutcomesAreFinal DEF SettleThrows, TypeInv, HitsAreIncluded, Included, Outcomes
  <2>2. MaxCrashes > 0
    BY <2>1, ErrorsAssumption, BoundsAssumption DEF Crash, TypeInv, TypeOK
  <2> QED
    BY <2>2, BoundsAssumption DEF Crash, SettleThrows, StartAgain, chainVars, TypeInv, TypeOK
<1>3. js \in SUBSET {j \in Jobs : [i \in Jobs |-> RequestOf(i)][j] = "open"}
  BY <1>1 DEF RequestOf
<1>4. \A j \in Jobs : RequestOf(j)' = IF j \in js THEN "failed" ELSE [i \in Jobs |-> RequestOf(i)][j]
  BY <1>1 DEF RequestOf
<1> HIDE DEF js
<1> QED
  BY <1>2, <1>3, <1>4 DEF Requested!Crash

\* The moves of one job that are not stuttering.
LEMMA RequestMade ==
    ASSUME TypeInv, UNCHANGED <<onchain, crashes>>, NEW k \in Jobs, NEW p \in Places,
           place' = [place EXCEPT ![k] = p],
           \/ p = "waiting"
           \/ p = "failed" /\ place[k] # "absent"
           \/ p = "absent" /\ k.dead
           \/ p = "absent" /\ place[k] = "active" /\ (Updated(k.user) \/ crashes > 0)
    PROVE  [Requested!Next]_Requested!vars
<1>1. place[k] \in Places /\ RequestOf(k) = [j \in Jobs |-> RequestOf(j)][k]
  BY DEF TypeInv, TypeOK
<1>2. /\ place'[k] = p
      /\ [j \in Jobs |-> RequestOf(j)]' = [[j \in Jobs |-> RequestOf(j)] EXCEPT ![k] = RequestOf(k)']
  BY RequestMoves
<1>3. UNCHANGED <<onchain, crashes>>
  OBVIOUS
<1>4. CASE p = "waiting" /\ RequestOf(k) # "open"
  BY <1>1, <1>2, <1>3, <1>4 DEF Requested!Next, Requested!Ask, Requested!Becomes, RequestOf
<1>5. CASE p = "failed" /\ RequestOf(k) = "open"
  BY <1>1, <1>2, <1>3, <1>5 DEF Requested!Next, Requested!Fail, Requested!Becomes, RequestOf
<1>6. CASE p = "absent" /\ k.dead
  BY <1>1, <1>2, <1>3, <1>6 DEF Requested!Next, Requested!Withdraw, Requested!Becomes, RequestOf
<1>7. CASE p = "absent" /\ place[k] = "active" /\ (Updated(k.user) \/ crashes > 0)
  BY <1>1, <1>2, <1>3, <1>7
  DEF Requested!Next, Requested!Complete, Requested!Becomes, RequestOf, Updated
<1>8. CASE p \in {"waiting", "failed"} /\ RequestOf(k) = RequestOf(k)'
  <2>1. [j \in Jobs |-> RequestOf(j)]' = [j \in Jobs |-> RequestOf(j)]
    BY <1>1, <1>2, <1>8
  <2> QED
    BY <1>3, <2>1 DEF Requested!vars
<1>9. CASE p \in {"waiting", "failed"} /\ RequestOf(k) # RequestOf(k)'
  <2>1. (p = "waiting" /\ RequestOf(k) # "open") \/ (p = "failed" /\ RequestOf(k) = "open")
    BY <1>1, <1>2, <1>9 DEF RequestOf
  <2> QED
    BY <1>4, <1>5, <2>1
<1> QED
  BY <1>6, <1>7, <1>8, <1>9 DEF Places

LEMMA RequestPublished ==
    ASSUME TypeInv, OneJobPerUser, NEW t \in Txs, Settle(t)
    PROVE  [Requested!Next]_Requested!vars
<1>1. place' = place /\ crashes' = crashes
  BY DEF Settle, Include, OutliveMortality, queueVars, boundVars
<1>2. [j \in Jobs |-> RequestOf(j)]' = [j \in Jobs |-> RequestOf(j)]
  BY <1>1 DEF RequestOf
<1>3. txJob[t].user \in Users /\ txPages[t] \subseteq Pages
  BY KeyIsJob DEF TypeInv, TypeOK
<1>4. CASE onchain' = [onchain EXCEPT ![txJob[t].user] = @ \cup txPages[t]]
  <2>1. Requested!Publish(txJob[t].user)
    BY <1>1, <1>2, <1>3, <1>4 DEF Requested!Publish
  <2> QED
    BY <1>3, <2>1 DEF Requested!Next
<1>5. CASE onchain' = onchain
  BY <1>1, <1>2, <1>5 DEF Requested!vars
<1> QED
  BY <1>4, <1>5 DEF Settle, Include, OutliveMortality

LEMMA RequestStep ==
    ASSUME TypeInv, QueueInv, OutcomeInv, OneJobPerUser, [Next]_vars
    PROVE  [Requested!Next]_Requested!vars
<1> USE DEF queueVars, chainVars, boundVars
<1>0. place \in [Jobs -> Places] /\ cjob \in Jobs /\ mjob \in Jobs
  BY DEF TypeInv, TypeOK
<1>1. CASE Crash \/ SettleThrows
  BY <1>1, RequestCrash DEF Requested!Next
<1>2. ASSUME NEW t \in Txs, Settle(t) PROVE [Requested!Next]_Requested!vars
  BY <1>2, RequestPublished
<1>3. CASE AddDeadLetter
  <2>1. place' = place \/ place' = [place EXCEPT ![DeadLetter(cjob)] = "waiting"]
    BY <1>3 DEF AddDeadLetter, QueueAdd
  <2> QED
    BY <1>0, <1>3, <2>1, DeadLetterJob, RequestMade, RequestStays DEF AddDeadLetter, Places
<1>4. CASE RemoveDeadLetter
  <2>1. place' = place \/ place' = [place EXCEPT ![DeadLetter(cjob)] = "absent"]
    BY <1>4 DEF RemoveDeadLetter, QueueRemove, Fresh
  <2>2. DeadLetter(cjob).dead
    BY DEF DeadLetter
  <2> QED
    BY <1>0, <1>4, <2>1, <2>2, DeadLetterJob, RequestMade, RequestStays DEF RemoveDeadLetter, Places
<1>5. CASE ThrowError \/ ThrowUnrecoverable \/ CompleteJob
  <2>1. place[cjob] = "active"
    BY <1>0, <1>5 DEF QueueInv, WorkerOwnsJob, ThrowError, ThrowUnrecoverable, CompleteJob
  <2>2. PICK p \in {"waiting", "failed", "absent"} :
            place' = [place EXCEPT ![cjob] = p] /\ (p = "absent" => cpc = "complete")
    BY <1>5 DEF ThrowError, ThrowUnrecoverable, CompleteJob, AttemptFails, Fresh
  <2>3. cpc = "complete" => Updated(cjob.user) \/ crashes > 0
    BY DEF OutcomeInv, SuccessTrue, TypeInv, TypeOK
  <2>4. UNCHANGED <<onchain, crashes>>
    BY <1>5 DEF ThrowError, ThrowUnrecoverable, CompleteJob
  <2> QED
    BY <1>0, <2>1, <2>2, <2>3, <2>4, RequestMade DEF Places
<1>6. ASSUME NEW k \in Requests, ScannerEnqueue(k) \/ TransitiveEnqueue(k)
      PROVE  [Requested!Next]_Requested!vars
  <2>1. k \in Jobs /\ (place' = place \/ place' = [place EXCEPT ![k] = "waiting"])
    BY <1>6, JobsFacts DEF ScannerEnqueue, TransitiveEnqueue, QueueReplace, Fresh
  <2>2. UNCHANGED <<onchain, crashes>>
    BY <1>6 DEF ScannerEnqueue, TransitiveEnqueue
  <2> QED
    BY <2>1, <2>2, RequestMade, RequestStays DEF Places
<1>7. CASE (\E k \in Jobs : Pick(k)) \/ AwaitChildren \/ FinishChild
  <2>1. \A j \in Jobs : place'[j] = place[j] \/ {place[j], place'[j]} \cap {"absent", "failed"} = {}
    BY <1>0, <1>7
    DEF Pick, AwaitChildren, FinishChild, ChildDone, QueueInv, WorkerOwnsJob
  <2> QED
    BY <1>7, <2>1, RequestStays DEF Pick, AwaitChildren, FinishChild
<1>8. CASE \/ ResetForRetry \/ CheckKey \/ FetchGraph \/ FetchFails \/ SendBatch \/ SendFails \/ RecordTx
           \/ Untrack \/ TrackTxs \/ MarkSubmitted \/ Caught
  BY <1>8, RequestStays
  DEF ResetForRetry, CheckKey, FetchGraph, FetchFails, SendBatch, SendFails, RecordTx, Untrack,
      TrackTxs, MarkSubmitted, Caught
<1>9. CASE (TxMonitor /\ ~FinishChild) \/ CompletionMonitor
  BY <1>9, RequestStays
  DEF TxMonitor, PickChild, ReadTxns, ReadSource, ForgetTxns, PauseOnSchema, WriteVerdict,
      CompletionMonitor, BootCheck, SkipToHead, ReadBlock, SettleTx, ReadExpired, ExpireTx, SetLastSeen
<1>10. CASE (\E j \in Jobs : ChildAdded(j)) \/ PauseQueue \/ ResumeQueue \/ UNCHANGED vars
  BY <1>10, RequestStays DEF ChildAdded, PauseQueue, ResumeQueue, vars
<1> QED
  BY <1>1, <1>2, <1>3, <1>4, <1>5, <1>6, <1>7, <1>8, <1>9, <1>10 DEF Next, Consumer, Environment

\* The queue, the consumer, the two monitors and the dead letters together lose no request:
\* they implement UpdateRequests, for any jobs, one of each user, and any pages that fit in
\* one batch, any number of transactions, attempts and crashes.
THEOREM RequestsKept ==
    ASSUME OneUpdateAtATime
    PROVE  Spec => KeepsRequests
<1>1. Init => Requested!Init
  BY BoundsAssumption DEF Init, Requested!Init, RequestOf
<1>2. TypeInv /\ QueueInv /\ OutcomeInv /\ [Next]_vars => [Requested!Next]_Requested!vars
  BY RequestStep DEF OneUpdateAtATime
<1>3. Spec => [](WorkerOwnsJob /\ ParkedHasMonitor)
  BY QueueCorrect
<1> QED
  BY <1>1, <1>2, <1>3, TypeCorrect, OutcomeInvariant, PTL
  DEF Spec, QueueInv, KeepsRequests, Requested!Spec
=============================================================================
