----------------------- MODULE GraphUpdateJobsProofs -----------------------
(***************************************************************************)
(* Proofs about GraphUpdateJobs, for every value of its constants.         *)
(***************************************************************************)
EXTENDS GraphUpdateJobs, TLAPS

\* The transaction monitor only works on a child that is still there.
MonitorHasChild == mpc # "idle" => children[mjob] > 0

\* The transactions the completion monitor is about to settle are in its block.
Included == Outcomes \cup OddOutcomes
HitsAreIncluded == bpc = "upsert" => \A t \in bhits : fate[t] \in Included

TypeInv == TypeOK /\ MonitorHasChild /\ HitsAreIncluded

\* Outcomes are none of the states a transaction is in before its inclusion.
LEMMA OutcomesAreFinal ==
    /\ Included \cap {"none", "pending", "expired", "unsent", "pool", "dead"} = {}
    /\ Outcomes \cap {"none", "pending", "expired", "unsent", "pool", "dead"} = {}
    /\ Outcomes \cap {"neither", "other"} = {} /\ "success" \notin OddOutcomes
    /\ Included = Fates \ {"unsent", "pool", "dead"}
    /\ \A f \in Included : f \notin {"neither", "other"} => f \in Outcomes
  BY ErrorsAssumption DEF Outcomes, Included, Fates

LEMMA JobsFacts == AnyJob \in Jobs /\ Requests \subseteq Jobs
  BY RequestsAssumption DEF AnyJob, Jobs

LEMMA BoundsFacts ==
    /\ MaxTxs \in Nat /\ MaxEnqueues \in Nat /\ MaxCrashes \in Nat
    /\ MaxAttempts \in Nat /\ MaxAttempts > 0
  BY BoundsAssumption

\* The worker goes idle, or moves to a step of its own.
LEMMA IdleTyped ==
    ASSUME Idle
    PROVE  (cpc \in ConsumerSteps /\ cjob \in Jobs /\ ctodo \subseteq Pages /\ ctx \in 0..MaxTxs)'
  BY JobsFacts, BoundsFacts DEF Idle, ConsumerSteps

LEMMA MonitorIdleTyped ==
    ASSUME MonitorIdle
    PROVE  (mpc \in MonitorSteps /\ mjob \in Jobs /\ msnap \in [Txs -> Statuses]
            /\ mstate \in JobStates)'
  BY JobsFacts DEF MonitorIdle, MonitorSteps, NoStatus, Statuses, JobStates

\* The types hold, a transaction monitor at work has a child to finish, and the
\* completion monitor settles included transactions only.
THEOREM TypeCorrect == Spec => []TypeInv
<1>1. Init => TypeInv
  BY JobsFacts, BoundsFacts
     DEF Init, TypeInv, TypeOK, MonitorHasChild, HitsAreIncluded, NoStatus, Places, JobStates, Statuses, Fates,
         Outcomes, ConsumerSteps, MonitorSteps, ScanSteps
<1>2. TypeInv /\ [Next]_vars => TypeInv'
  <2> SUFFICES ASSUME TypeInv, [Next]_vars PROVE TypeInv'
    OBVIOUS
  <2> USE DEF TypeInv, TypeOK, MonitorHasChild, HitsAreIncluded, queueVars, chainVars, workerVars, monitorVars,
              scanVars, boundVars
  <2>1. ASSUME NEW j \in Jobs, Pick(j) PROVE TypeInv'
    BY <2>1 DEF Pick, FirstStep, Places, JobStates, ConsumerSteps
  <2>2. CASE ResetForRetry
    BY <2>2 DEF ResetForRetry, GoTo, JobStates, ConsumerSteps
  <2>3. CASE CheckKey
    BY <2>3 DEF CheckKey, GoTo, ConsumerSteps
  <2>4. CASE FetchGraph
    BY <2>4 DEF FetchGraph, MissingPages, ConsumerSteps
  <2>5. CASE FetchFails
    BY <2>5 DEF FetchFails, GoTo, ConsumerSteps
  <2>6. CASE SendBatch
    <3>1. PICK t \in Txs, b \in SUBSET ctodo : Submit(t, b) /\ ctx' = t /\ ctodo' = ctodo \ b
      BY <2>6 DEF SendBatch
    <3>2. ctx' \in 0..MaxTxs /\ ctodo' \subseteq Pages
      BY <3>1, BoundsFacts DEF Txs
    <3>3. fate' \in [Txs -> Fates] /\ txJob' \in [Txs -> Jobs] /\ txPages' \in [Txs -> SUBSET Pages]
      BY <3>1 DEF Submit, Fates
    <3>4. HitsAreIncluded'
      BY <2>6, <3>1, OutcomesAreFinal DEF SendBatch, Submit, NextTx
    <3> QED
      BY <2>6, <3>2, <3>3, <3>4 DEF SendBatch, ConsumerSteps
  <2>7. CASE SendFails
    <3>1. HitsAreIncluded'
      BY <2>7, OutcomesAreFinal DEF SendFails, Submit, NextTx
    <3> QED
      BY <2>7, <3>1 DEF SendFails, Submit, Fates, ConsumerSteps
  <2>8. CASE RecordTx
    <3>1. watch' \in [Txs -> Statuses]
      BY <2>8 DEF RecordTx, upsertWatchedTxn, Statuses
    <3>2. cpc' \in ConsumerSteps /\ ctx' \in 0..MaxTxs
      BY <2>8, BoundsFacts DEF RecordTx, ConsumerSteps
    <3> QED
      BY <2>8, <3>1, <3>2 DEF RecordTx
  <2>9. CASE Untrack
    BY <2>9 DEF Untrack, removeJob, GoTo, Statuses, ConsumerSteps
  <2>10. CASE TrackTxs
    BY <2>10 DEF TrackTxs, GoTo, ConsumerSteps
  <2>11. CASE AwaitChildren
    BY <2>11 DEF AwaitChildren, GoTo, Places, ConsumerSteps
  <2>12. CASE MarkSubmitted
    BY <2>12, IdleTyped DEF MarkSubmitted, JobStates
  <2>13. CASE Caught
    BY <2>13 DEF Caught, GoTo, ConsumerSteps
  <2>14. CASE RemoveDeadLetter
    <3>1. CASE Locked(DeadLetter(cjob))
      BY <2>14, <3>1 DEF RemoveDeadLetter, QueueRemove, GoTo, ConsumerSteps
    <3>2. CASE ~Locked(DeadLetter(cjob))
      <4>1. MonitorHasChild'
        BY <2>14, <3>2 DEF RemoveDeadLetter, QueueRemove, Locked, Fresh
      <4> QED
        BY <2>14, <3>2, <4>1, BoundsFacts
           DEF RemoveDeadLetter, QueueRemove, Fresh, GoTo, Places, JobStates, ConsumerSteps
    <3> QED
      BY <3>1, <3>2
  <2>15. CASE AddDeadLetter
    BY <2>15 DEF AddDeadLetter, QueueAdd, GoTo, Places, ConsumerSteps
  <2>16. CASE ThrowError
    BY <2>16, IdleTyped, BoundsFacts DEF ThrowError, AttemptFails, CountAttempt, Places
  <2>17. CASE ThrowUnrecoverable
    BY <2>17, IdleTyped, BoundsFacts DEF ThrowUnrecoverable, CountAttempt, Places
  <2>18. CASE CompleteJob
    BY <2>18, IdleTyped, BoundsFacts
       DEF CompleteJob, Fresh, AttemptFails, CountAttempt, Places, JobStates
  <2>19. ASSUME NEW j \in Jobs, PickChild(j) PROVE TypeInv'
    BY <2>19 DEF PickChild, MonitorSteps
  <2>20. CASE ReadTxns
    BY <2>20 DEF ReadTxns, getAllTxnsForJob, Statuses, MonitorSteps
  <2>21. CASE ReadSource
    BY <2>21, MonitorIdleTyped DEF ReadSource, MonitorIdle, MonitorSteps
  <2>22. CASE ForgetTxns
    BY <2>22 DEF ForgetTxns, removeJob, MonitorGoTo, Statuses, MonitorSteps
  <2>23. CASE PauseOnSchema
    BY <2>23 DEF PauseOnSchema, MonitorGoTo, MonitorSteps
  <2>24. CASE WriteVerdict
    BY <2>24 DEF WriteVerdict, Verdict, MonitorGoTo, JobStates, MonitorSteps
  <2>25. CASE FinishChild
    BY <2>25, MonitorIdleTyped DEF FinishChild, ChildDone, MonitorIdle, Places
  <2>26. CASE CompletionMonitor
    <3> USE DEF ScanSteps
    <3>1. CASE BootCheck
      BY <3>1 DEF BootCheck
    <3>2. CASE SkipToHead
      BY <3>2 DEF SkipToHead, Decided
    <3>3. CASE ReadExpired
      BY <3>3 DEF ReadExpired, getAllPendingTxns
    <3>4. CASE SetLastSeen
      BY <3>4 DEF SetLastSeen
    <3>5. ASSUME NEW b \in SUBSET Txs, ReadBlock(b) PROVE TypeInv'
      BY <3>5, OutcomesAreFinal DEF ReadBlock, getAllPendingTxns, Decided
    <3>6. ASSUME NEW t \in Txs, SettleTx(t) PROVE TypeInv'
      <4>1. (IF fate[t] = "neither" THEN "pending" ELSE fate[t]) \in Statuses
        BY <3>6, OutcomesAreFinal DEF SettleTx, Statuses
      <4> QED
        BY <3>6, <4>1 DEF SettleTx, upsertWatchedTxn
    <3>7. ASSUME NEW t \in Txs, ExpireTx(t) PROVE TypeInv'
      BY <3>7 DEF ExpireTx, upsertWatchedTxn, Statuses
    <3> QED
      BY <2>26, <3>1, <3>2, <3>3, <3>4, <3>5, <3>6, <3>7 DEF CompletionMonitor
  <2>27. ASSUME NEW j \in Requests, ScannerEnqueue(j) PROVE TypeInv'
    BY <2>27, JobsFacts, BoundsFacts DEF ScannerEnqueue, Places
  <2>28. ASSUME NEW j \in Requests, TransitiveEnqueue(j) PROVE TypeInv'
    BY <2>28, JobsFacts, BoundsFacts DEF TransitiveEnqueue, QueueReplace, Locked, Fresh, Places, JobStates
  <2>29. ASSUME NEW j \in Jobs, ChildAdded(j) PROVE TypeInv'
    BY <2>29 DEF ChildAdded
  <2>30. ASSUME NEW t \in Txs, Settle(t) PROVE TypeInv'
    <3>1. HitsAreIncluded'
      BY <2>30, OutcomesAreFinal DEF Settle, Include, OutliveMortality, Included
    <3>2. fate' \in [Txs -> Fates]
      BY <2>30 DEF Settle, Include, OutliveMortality, Fates
    <3>3. onchain' \in [Users -> SUBSET Pages]
      BY <2>30 DEF Settle, Include, OutliveMortality
    <3> QED
      BY <2>30, <3>1, <3>2, <3>3 DEF Settle, Include, OutliveMortality
  <2>31. CASE PauseQueue \/ ResumeQueue
    BY <2>31 DEF PauseQueue, ResumeQueue
  <2>32. CASE Crash \/ SettleThrows
    <3>1. StartAgain
      BY <2>32 DEF Crash, SettleThrows
    <3>2. crashes' \in 0..MaxCrashes
      BY <3>1, BoundsFacts DEF StartAgain
    <3>3. place' \in [Jobs -> Places] /\ children' \in [Jobs -> Nat]
      BY <3>1 DEF StartAgain, JobStalls, ChildDies, ParentFails, Places
    <3> QED
      BY <3>1, <3>2, <3>3, IdleTyped, MonitorIdleTyped DEF StartAgain, MonitorIdle, ScanSteps
  <2>33. CASE UNCHANGED vars
    BY <2>33 DEF vars
  <2> QED
    BY <2>1, <2>2, <2>3, <2>4, <2>5, <2>6, <2>7, <2>8, <2>9, <2>10, <2>11, <2>12, <2>13, <2>14,
       <2>15, <2>16, <2>17, <2>18, <2>19, <2>20, <2>21, <2>22, <2>23, <2>24, <2>25, <2>26, <2>27,
       <2>28, <2>29, <2>30, <2>31, <2>32, <2>33
       DEF Next, Consumer, TxMonitor, Environment
<1> QED
  BY <1>1, <1>2, PTL DEF Spec

\* Type correctness of the job model.
THEOREM JobsTypeCorrect == Spec => []TypeOK
  BY TypeCorrect, PTL DEF TypeInv

(***************************************************************************)
(* The cache agrees with the chain.  CacheAgreesWithChain is not inductive:*)
(* the statuses about to be written must agree as well, in the consumer    *)
(* between the answer of the node and the cache, in the completion monitor *)
(* between the pending set it read and the upserts.                        *)
(***************************************************************************)
WritesAgree ==
    /\ cpc = "record" => ctx \in Txs /\ fate[ctx] # "unsent"
    /\ bpc = "expire" => bhits \subseteq Decided
    /\ seen \subseteq Decided /\ bblock \subseteq Decided

CacheInv == CacheAgreesWithChain /\ WritesAgree

\* A step that touches neither the cache nor what is about to be written to it.
LEMMA CacheFrame ==
    ASSUME CacheInv, UNCHANGED <<watch, fate, scanVars>>,
           cpc' # "record" \/ UNCHANGED <<cpc, ctx>>
    PROVE  CacheInv'
  BY DEF CacheInv, CacheAgreesWithChain, WritesAgree, Decided, scanVars

\* Forgetting the transactions of a job leaves only statuses that agreed before.
LEMMA CacheRemove ==
    ASSUME CacheInv, NEW j, removeJob(j), UNCHANGED <<fate, scanVars>>,
           cpc' # "record" \/ UNCHANGED <<cpc, ctx>>
    PROVE  CacheInv'
<1>1. \A t \in Txs : watch'[t] \in {"none", watch[t]}
  BY DEF removeJob
<1> QED
  BY <1>1, OutcomesAreFinal
     DEF CacheInv, CacheAgreesWithChain, WritesAgree, Decided, scanVars

\* Sending concerns a transaction that nobody knew.
LEMMA CacheSubmit ==
    ASSUME TypeInv, CacheInv, NEW t \in Txs, NEW b, Submit(t, b),
           UNCHANGED <<watch, scanVars>>, cpc' = "record" => ctx' = t
    PROVE  CacheInv'
<1>1. fate[t] = "unsent" /\ fate' = [fate EXCEPT ![t] = "pool"] /\ fate \in [Txs -> Fates]
  BY DEF Submit, NextTx, TypeInv, TypeOK
<1>2. Decided' = Decided
  BY <1>1 DEF Decided
<1>3. CacheAgreesWithChain'
  BY <1>1, <1>2, OutcomesAreFinal DEF CacheInv, CacheAgreesWithChain
<1> QED
  BY <1>1, <1>2, <1>3 DEF CacheInv, WritesAgree, scanVars

\* A decision of the chain is never taken back.
LEMMA CacheSettle ==
    ASSUME TypeInv, CacheInv, NEW t \in Txs, Settle(t)
    PROVE  CacheInv'
<1>1. PICK f \in Included \cup {"dead"} : fate' = [fate EXCEPT ![t] = f]
  BY DEF Settle, Include, OutliveMortality, Included
<1>2. fate[t] = "pool" /\ fate \in [Txs -> Fates] /\ UNCHANGED <<watch, scanVars, workerVars>>
  BY DEF Settle, Include, OutliveMortality, TypeInv, TypeOK
<1>3. Decided' = Decided \cup {t} /\ fate'[t] # "unsent"
  BY <1>1, <1>2, OutcomesAreFinal DEF Decided
<1>4. CacheAgreesWithChain'
  BY <1>1, <1>2, <1>3, OutcomesAreFinal DEF CacheInv, CacheAgreesWithChain
<1> QED
  BY <1>1, <1>2, <1>3, <1>4 DEF CacheInv, WritesAgree, scanVars, workerVars

\* No process ever writes, or is about to write, a status that the chain contradicts.
THEOREM CacheInvariant == Spec => []CacheInv
<1>1. Init => CacheInv
  BY OutcomesAreFinal DEF Init, CacheInv, CacheAgreesWithChain, WritesAgree, NoStatus, Decided
<1>2. TypeInv /\ CacheInv /\ [Next]_vars => CacheInv'
  <2> SUFFICES ASSUME TypeInv, CacheInv, [Next]_vars PROVE CacheInv'
    OBVIOUS
  <2>1. CASE ConsumerStep
    <3>1. CASE SendBatch
      BY <3>1, CacheSubmit DEF SendBatch
    <3>2. CASE SendFails
      BY <3>2, CacheSubmit, CacheFrame DEF SendFails
    <3>3. CASE RecordTx
      <4>1. watch' = [watch EXCEPT ![ctx] = "pending"] /\ ctx \in Txs /\ fate[ctx] # "unsent"
        BY <3>3 DEF RecordTx, upsertWatchedTxn, CacheInv, WritesAgree
      <4> QED
        BY <3>3, <4>1, OutcomesAreFinal
           DEF RecordTx, CacheInv, CacheAgreesWithChain, WritesAgree, Decided, chainVars, scanVars,
               TypeInv, TypeOK
    <3>4. CASE Untrack
      BY <3>4, CacheRemove DEF Untrack, GoTo, chainVars
    <3> QED
      BY <2>1, <3>1, <3>2, <3>3, <3>4, CacheFrame
         DEF ConsumerStep, Consumer, Pick, ResetForRetry, CheckKey, FetchGraph, MissingPages, FetchFails, TrackTxs,
             AwaitChildren, MarkSubmitted, Caught, RemoveDeadLetter, AddDeadLetter, ThrowError,
             ThrowUnrecoverable, CompleteJob, GoTo, Idle, chainVars
  <2>2. ASSUME NEW j \in Jobs, Pick(j) PROVE CacheInv'
    BY <2>2, CacheFrame DEF Pick, FirstStep, TypeInv, TypeOK, JobStates, chainVars
  <2>3. CASE TxMonitor
    <3>1. CASE ForgetTxns
      BY <3>1, CacheRemove DEF ForgetTxns, chainVars, workerVars
    <3> QED
      BY <2>3, <3>1, CacheFrame
         DEF TxMonitor, PickChild, ReadTxns, ReadSource, PauseOnSchema, WriteVerdict, FinishChild,
             chainVars, workerVars
  <2>4. CASE CompletionMonitor
    <3> USE DEF CacheInv, CacheAgreesWithChain, WritesAgree, Decided, chainVars, workerVars
    <3>1. CASE BootCheck \/ SkipToHead \/ SetLastSeen
      BY <3>1 DEF BootCheck, SkipToHead, SetLastSeen
    <3>2. CASE ReadExpired
      BY <3>2, OutcomesAreFinal DEF ReadExpired, Died, getAllPendingTxns
    <3>3. ASSUME NEW b \in SUBSET Txs, ReadBlock(b) PROVE CacheInv'
      BY <3>3 DEF ReadBlock
    <3>4. ASSUME NEW t \in Txs, SettleTx(t) PROVE CacheInv'
      <4>1. /\ watch' = [watch EXCEPT ![t] = IF fate[t] = "neither" THEN "pending" ELSE fate[t]]
            /\ fate[t] \in Included
        BY <3>4 DEF SettleTx, upsertWatchedTxn, TypeInv, HitsAreIncluded
      <4>2. CacheAgreesWithChain'
        BY <3>4, <4>1, OutcomesAreFinal DEF SettleTx, TypeInv, TypeOK
      <4> QED
        BY <3>4, <4>2 DEF SettleTx
    <3>5. ASSUME NEW t \in Txs, ExpireTx(t) PROVE CacheInv'
      BY <3>5, OutcomesAreFinal DEF ExpireTx, upsertWatchedTxn, TypeInv, TypeOK
    <3> QED
      BY <2>4, <3>1, <3>2, <3>3, <3>4, <3>5 DEF CompletionMonitor
  <2>5. ASSUME NEW j \in Requests, ScannerEnqueue(j) \/ TransitiveEnqueue(j) PROVE CacheInv'
    BY <2>5, CacheFrame DEF ScannerEnqueue, TransitiveEnqueue, chainVars, workerVars
  <2>6. ASSUME NEW j \in Jobs, ChildAdded(j) PROVE CacheInv'
    BY <2>6, CacheFrame DEF ChildAdded, chainVars, workerVars
  <2>7. ASSUME NEW t \in Txs, Settle(t) PROVE CacheInv'
    BY <2>7, CacheSettle
  <2>8. CASE PauseQueue \/ ResumeQueue
    BY <2>8, CacheFrame DEF PauseQueue, ResumeQueue, chainVars, workerVars
  <2>9. CASE Crash \/ SettleThrows
    BY <2>9 DEF Crash, SettleThrows, StartAgain, Idle, CacheInv, CacheAgreesWithChain, WritesAgree,
                Decided, chainVars
  <2>10. CASE UNCHANGED vars
    BY <2>10, CacheFrame DEF vars, chainVars, workerVars
  <2> QED
    BY <2>1, <2>2, <2>3, <2>4, <2>5, <2>6, <2>7, <2>8, <2>9, <2>10
       DEF Next, Consumer, ConsumerStep, Environment, ResetForRetry, CheckKey, FetchGraph, MissingPages,
           FetchFails, SendBatch, SendFails, RecordTx, Untrack, TrackTxs, AwaitChildren,
           MarkSubmitted, Caught, RemoveDeadLetter, AddDeadLetter, ThrowError, ThrowUnrecoverable,
           CompleteJob
<1> QED
  BY <1>1, <1>2, TypeCorrect, PTL DEF Spec

\* CacheAgreesWithChain holds in every reachable state: a settled status is what the
\* chain did, and an expired transaction can no longer be included.
THEOREM CacheCorrect == Spec => []CacheAgreesWithChain
  BY CacheInvariant, PTL DEF CacheInv

(***************************************************************************)
(* Who owns a job, and who will release a parked one.                      *)
(***************************************************************************)
QueueInv == WorkerOwnsJob /\ ParkedHasMonitor

\* The dead letter of a job is a job; of a dead letter, itself.
LEMMA DeadLetterJob == \A j \in Jobs : DeadLetter(j) \in Jobs
<1>1. \A r \in Requests : DeadLetter(DeadLetter(r)) = DeadLetter(r)
  BY DEF DeadLetter
<1> QED
  BY <1>1 DEF Jobs

LEMMA QueueFrame ==
    ASSUME QueueInv, UNCHANGED <<place, children, cjob>>,
           UNCHANGED cpc \/ {cpc, cpc'} \cap {"idle", "mark"} = {}
    PROVE  QueueInv'
  BY DEF QueueInv, WorkerOwnsJob, ParkedHasMonitor

\* Deleting or replacing a job that is not locked disturbs no other job.
LEMMA QueueFresh ==
    ASSUME TypeInv, QueueInv, NEW k \in Jobs, place[k] # "active", cpc # "mark",
           NEW p \in {"absent", "waiting"}, Fresh(k, p),
           cjob' = cjob, UNCHANGED cpc \/ {cpc, cpc'} \cap {"idle", "mark"} = {}
    PROVE  QueueInv'
<1>1. /\ place' = [place EXCEPT ![k] = p] /\ children' = [children EXCEPT ![k] = 0]
      /\ place \in [Jobs -> Places] /\ children \in [Jobs -> Nat]
  BY DEF Fresh, TypeInv, TypeOK
<1>2. WorkerOwnsJob'
  BY <1>1 DEF QueueInv, WorkerOwnsJob
<1>3. ParkedHasMonitor'
  BY <1>1 DEF QueueInv, ParkedHasMonitor
<1> QED
  BY <1>2, <1>3 DEF QueueInv

\* The consumer holds the lock of the job it works on, and every parked job has a child
\* in the monitor's queue that releases it.
THEOREM QueueCorrect == Spec => [](WorkerOwnsJob /\ ParkedHasMonitor)
<1>1. Init => QueueInv
  BY DEF Init, QueueInv, WorkerOwnsJob, ParkedHasMonitor
<1>2. TypeInv /\ QueueInv /\ [Next]_vars => QueueInv'
  <2> SUFFICES ASSUME TypeInv, QueueInv, [Next]_vars PROVE QueueInv'
    OBVIOUS
  <2> USE DEF queueVars, workerVars
  <2>1. ASSUME NEW j \in Jobs, Pick(j) PROVE QueueInv'
    <3>1. cpc' \notin {"idle", "mark"}
      BY <2>1 DEF Pick, FirstStep, JobStates, TypeInv, TypeOK
    <3> QED
      BY <2>1, <3>1 DEF Pick, QueueInv, WorkerOwnsJob, ParkedHasMonitor, TypeInv, TypeOK
  <2>2. CASE \/ ResetForRetry \/ CheckKey \/ FetchGraph \/ FetchFails \/ SendBatch \/ SendFails
             \/ RecordTx \/ Untrack \/ TrackTxs \/ Caught
    BY <2>2, QueueFrame
       DEF ResetForRetry, CheckKey, FetchGraph, MissingPages, FetchFails, SendBatch, SendFails, RecordTx,
           Untrack, TrackTxs, Caught, GoTo
  <2>3. CASE AwaitChildren
    BY <2>3 DEF AwaitChildren, ShouldWait, GoTo, QueueInv, WorkerOwnsJob, ParkedHasMonitor,
                TypeInv, TypeOK
  <2>4. CASE MarkSubmitted
    BY <2>4 DEF MarkSubmitted, Idle, QueueInv, WorkerOwnsJob, ParkedHasMonitor
  <2>5. CASE RemoveDeadLetter
    <3>1. CASE Locked(DeadLetter(cjob))
      BY <2>5, <3>1, QueueFrame DEF RemoveDeadLetter, QueueRemove, GoTo
    <3>2. CASE ~Locked(DeadLetter(cjob))
      <4>1. DeadLetter(cjob) \in Jobs
        BY DeadLetterJob DEF TypeInv, TypeOK
      <4> QED
        BY <2>5, <3>2, <4>1, QueueFresh DEF RemoveDeadLetter, QueueRemove, Locked, GoTo
    <3> QED
      BY <3>1, <3>2
  <2>6. CASE AddDeadLetter
    BY <2>6 DEF AddDeadLetter, QueueAdd, GoTo, QueueInv, WorkerOwnsJob, ParkedHasMonitor,
                TypeInv, TypeOK
  <2>7. CASE ThrowError \/ ThrowUnrecoverable
    BY <2>7 DEF ThrowError, ThrowUnrecoverable, AttemptFails, Idle, QueueInv, WorkerOwnsJob,
                ParkedHasMonitor, TypeInv, TypeOK
  <2>8. CASE CompleteJob
    BY <2>8 DEF CompleteJob, Fresh, AttemptFails, Idle, QueueInv, WorkerOwnsJob,
                ParkedHasMonitor, TypeInv, TypeOK
  <2>9. CASE FinishChild
    BY <2>9 DEF FinishChild, ChildDone, QueueInv, WorkerOwnsJob, ParkedHasMonitor, TypeInv,
                TypeOK, MonitorHasChild
  <2>10. CASE TxMonitor /\ ~FinishChild
    BY <2>10, QueueFrame
       DEF TxMonitor, PickChild, ReadTxns, ReadSource, ForgetTxns, PauseOnSchema, WriteVerdict
  <2>11. CASE CompletionMonitor
    BY <2>11, QueueFrame
       DEF CompletionMonitor, BootCheck, SkipToHead, ReadExpired, SetLastSeen, ReadBlock,
           SettleTx, ExpireTx
  <2>12. ASSUME NEW j \in Requests, ScannerEnqueue(j) PROVE QueueInv'
    BY <2>12, JobsFacts DEF ScannerEnqueue, QueueInv, WorkerOwnsJob, ParkedHasMonitor, TypeInv,
                            TypeOK
  <2>13. ASSUME NEW j \in Requests, TransitiveEnqueue(j) PROVE QueueInv'
    <3>1. CASE Locked(j)
      BY <2>13, <3>1, QueueFrame DEF TransitiveEnqueue, QueueReplace
    <3>2. CASE ~Locked(j)
      BY <2>13, <3>2, JobsFacts, QueueFresh DEF TransitiveEnqueue, QueueReplace, Locked
    <3> QED
      BY <3>1, <3>2
  <2>14. ASSUME NEW j \in Jobs, ChildAdded(j) PROVE QueueInv'
    BY <2>14 DEF ChildAdded, QueueInv, WorkerOwnsJob, ParkedHasMonitor, TypeInv, TypeOK
  <2>15. ASSUME NEW t \in Txs, Settle(t) PROVE QueueInv'
    BY <2>15, QueueFrame DEF Settle, Include, OutliveMortality
  <2>16. CASE PauseQueue \/ ResumeQueue \/ UNCHANGED vars
    BY <2>16, QueueFrame DEF PauseQueue, ResumeQueue, vars
  <2>17. CASE Crash \/ SettleThrows
    <3> DEFINE stalls == JobStalls(place)
    <3>1. /\ stalls \in [Jobs -> Places]
          /\ \A j \in Jobs : stalls[j] # "active"
          /\ \A j \in Jobs : stalls[j] = "waitingChildren" <=> place[j] = "waitingChildren"
          /\ \A j \in Jobs : stalls[j] = "absent" <=> place[j] = "absent"
      BY DEF JobStalls, QueueInv, WorkerOwnsJob, TypeInv, TypeOK, Places
    <3>2. /\ place' = ParentFails(stalls)
          /\ children' = IF ChildDies THEN [children EXCEPT ![mjob] = @ - 1] ELSE children
          /\ cpc' = "idle"
      BY <2>17 DEF Crash, SettleThrows, StartAgain, Idle
    <3>3. WorkerOwnsJob'
      BY <3>1, <3>2 DEF ParentFails, WorkerOwnsJob, TypeInv, TypeOK
    <3> HIDE DEF stalls
    <3>4. ParkedHasMonitor'
      BY <3>1, <3>2 DEF ParentFails, ChildDies, QueueInv, ParkedHasMonitor, TypeInv, TypeOK
    <3> QED
      BY <3>3, <3>4 DEF QueueInv
  <2> QED
    BY <2>1, <2>2, <2>3, <2>4, <2>5, <2>6, <2>7, <2>8, <2>9, <2>10, <2>11, <2>12, <2>13, <2>14,
       <2>15, <2>16, <2>17 DEF Next, Consumer, Environment
<1> QED
  BY <1>1, <1>2, TypeCorrect, PTL DEF Spec, QueueInv

\* WorkerOwnsJob by itself: no other handler moves the job the consumer works on.
THEOREM WorkerCorrect == Spec => []WorkerOwnsJob
  BY QueueCorrect, PTL

(***************************************************************************)
(* No double submission.  The invariant is strengthened by what the        *)
(* consumer knows between finding its key untracked and recording its last *)
(* batch: nobody else tracks a live transaction for the pages it is going  *)
(* to send.                                                                *)
(***************************************************************************)
LiveOf(j) == TxsOf(j) \cap Live

SubmissionInv ==
    /\ OneLiveSubmission
    /\ cpc = "fetch" => LiveOf(cjob) = {}
    /\ cpc \in {"send", "record"} => \A t \in LiveOf(cjob) : txPages[t] \cap ctodo = {}
    /\ cpc = "record" =>
         /\ ctx \in Txs /\ txJob[ctx] = cjob /\ txPages[ctx] \cap ctodo = {}
         /\ \A t \in LiveOf(cjob) : t # ctx => txPages[t] \cap txPages[ctx] = {}

\* A step that starts no submission and adds no live transaction.
LEMMA SubmissionFrame ==
    ASSUME SubmissionInv, UNCHANGED <<txJob, txPages>>,
           Live' \subseteq Live,
           UNCHANGED <<cpc, cjob, ctodo, ctx>> \/ cpc' \notin {"fetch", "send", "record"}
    PROVE  SubmissionInv'
<1>2. OneLiveSubmission'
  BY DEF SubmissionInv, OneLiveSubmission
<1>3. CASE cpc' \notin {"fetch", "send", "record"}
  BY <1>2, <1>3 DEF SubmissionInv
<1>4. CASE UNCHANGED <<cpc, cjob, ctodo, ctx>>
  <2>1. LiveOf(cjob)' \subseteq LiveOf(cjob)
    BY <1>4 DEF LiveOf, TxsOf
  <2> QED
    BY <1>2, <1>4, <2>1 DEF SubmissionInv
<1> QED
  BY <1>3, <1>4

\* Untracking makes nothing live, and what concerns neither the cache nor the chain, nothing
\* else.
LEMMA LiveFrame ==
    ASSUME UNCHANGED fate, \A t \in Txs : watch'[t] = "pending" => watch[t] = "pending"
    PROVE  Live' \subseteq Live
  BY DEF Live, getAllPendingTxns

\* A transaction that is not sent yet is not live, so giving it its contents changes
\* nothing for the live ones.
LEMMA SubmitIsNew ==
    ASSUME TypeInv, CacheInv, NEW t \in Txs, NEW b, Submit(t, b), UNCHANGED watch
    PROVE  /\ t \notin Live /\ UNCHANGED Live
           /\ txJob'[t] = cjob /\ txPages'[t] = b
           /\ \A s \in Txs : s # t => txJob'[s] = txJob[s] /\ txPages'[s] = txPages[s]
  BY OutcomesAreFinal
     DEF Submit, NextTx, CacheInv, CacheAgreesWithChain, Live, getAllPendingTxns, TypeInv, TypeOK

\* OneLiveSubmission holds in every reachable state: no page is in two tracked unsettled
\* transactions of one job key, whatever crashes, siblings and stale upserts do.
THEOREM SubmissionCorrect == Spec => []OneLiveSubmission
<1>1. Init => SubmissionInv
  BY DEF Init, SubmissionInv, OneLiveSubmission, Live, getAllPendingTxns, NoStatus
<1>2. TypeInv /\ CacheInv /\ SubmissionInv /\ [Next]_vars => SubmissionInv'
  <2> SUFFICES ASSUME TypeInv, CacheInv, SubmissionInv, [Next]_vars PROVE SubmissionInv'
    OBVIOUS
  <2> USE DEF chainVars, workerVars
  <2>1. CASE CheckKey
    <3>1. ~doesJobKeyExist(cjob) => LiveOf(cjob) = {}
      BY DEF doesJobKeyExist, LiveOf, Live, getAllPendingTxns
    <3>2. UNCHANGED <<cjob, ctodo, ctx, watch, fate, txJob, txPages>>
          /\ cpc' = IF doesJobKeyExist(cjob) THEN "track" ELSE "fetch"
      BY <2>1 DEF CheckKey, GoTo
    <3>3. LiveOf(cjob)' = LiveOf(cjob) /\ OneLiveSubmission'
      BY <3>2 DEF LiveOf, TxsOf, Live, getAllPendingTxns, SubmissionInv, OneLiveSubmission
    <3> QED
      BY <3>1, <3>2, <3>3 DEF SubmissionInv
  <2>2. CASE FetchGraph
    <3>1. UNCHANGED <<cjob, watch, fate, txJob, txPages>> /\ cpc = "fetch" /\ cpc' \in {"send", "complete"}
      BY <2>2 DEF FetchGraph, MissingPages
    <3>2. LiveOf(cjob)' = {} /\ OneLiveSubmission'
      BY <3>1 DEF LiveOf, TxsOf, Live, getAllPendingTxns, SubmissionInv, OneLiveSubmission
    <3> QED
      BY <3>1, <3>2 DEF SubmissionInv
  <2>3. CASE SendBatch
    <3>1. PICK t \in Txs, b \in SUBSET ctodo :
             Submit(t, b) /\ ctx' = t /\ cpc' = "record" /\ ctodo' = ctodo \ b
      BY <2>3 DEF SendBatch
    <3>2. cpc = "send" /\ UNCHANGED <<cjob, watch>>
      BY <2>3 DEF SendBatch
    <3>3. /\ t \notin Live /\ UNCHANGED Live
          /\ txJob'[t] = cjob /\ txPages'[t] = b
          /\ \A s \in Txs : s # t => txJob'[s] = txJob[s] /\ txPages'[s] = txPages[s]
      BY <3>1, <3>2, SubmitIsNew
    <3>4. OneLiveSubmission'
      BY <3>3 DEF SubmissionInv, OneLiveSubmission, Live, getAllPendingTxns
    <3>5. LiveOf(cjob)' = LiveOf(cjob) /\ t \notin LiveOf(cjob)
      BY <3>2, <3>3 DEF LiveOf, TxsOf, Live, getAllPendingTxns
    <3>6. \A s \in LiveOf(cjob) : txPages'[s] = txPages[s] /\ txPages[s] \cap ctodo = {}
      BY <3>2, <3>3, <3>5 DEF SubmissionInv, LiveOf, TxsOf
    <3> QED
      BY <3>1, <3>2, <3>3, <3>4, <3>5, <3>6 DEF SubmissionInv
  <2>4. CASE SendFails
    <3>1. CASE UNCHANGED <<fate, txJob, txPages>>
      BY <2>4, <3>1, LiveFrame, SubmissionFrame DEF SendFails
    <3>2. ASSUME NEW t \in Txs, NEW b \in SUBSET ctodo, Submit(t, b) PROVE SubmissionInv'
      <4>1. OneLiveSubmission'
        BY <2>4, <3>2, SubmitIsNew
           DEF SendFails, SubmissionInv, OneLiveSubmission, Live, getAllPendingTxns
      <4> QED
        BY <2>4, <4>1 DEF SendFails, SubmissionInv
    <3> QED
      BY <2>4, <3>1, <3>2 DEF SendFails
  <2>5. CASE RecordTx
    <3>1. /\ watch' = [watch EXCEPT ![ctx] = "pending"] /\ UNCHANGED <<fate, txJob, txPages, cjob, ctodo>>
          /\ cpc = "record" /\ cpc' \in {"track", "send"}
      BY <2>5 DEF RecordTx, upsertWatchedTxn
    <3>2. ctx \in Txs /\ Live' \subseteq Live \cup {ctx} /\ Live \subseteq Live'
      BY <3>1 DEF SubmissionInv, Live, getAllPendingTxns, TypeInv, TypeOK
    <3>3. OneLiveSubmission'
      <4> SUFFICES ASSUME NEW s \in Live', NEW t \in Live', s # t,
                          JobKey(txJob[s]) = JobKey(txJob[t])
                   PROVE  txPages[s] \cap txPages[t] = {}
        BY <3>1 DEF OneLiveSubmission
      <4>1. CASE s \in Live /\ t \in Live
        BY <4>1 DEF SubmissionInv, OneLiveSubmission
      <4>2. CASE s = ctx
        BY <3>1, <3>2, <4>2 DEF SubmissionInv, LiveOf, TxsOf, Live, getAllPendingTxns
      <4>3. CASE t = ctx
        BY <3>1, <3>2, <4>3 DEF SubmissionInv, LiveOf, TxsOf, Live, getAllPendingTxns
      <4> QED
        BY <3>2, <4>1, <4>2, <4>3
    <3>4. LiveOf(cjob)' \subseteq LiveOf(cjob) \cup {ctx}
      BY <3>1, <3>2 DEF LiveOf, TxsOf, SubmissionInv
    <3> QED
      BY <3>1, <3>3, <3>4 DEF SubmissionInv
  <2>6. CASE Untrack
    BY <2>6, LiveFrame, SubmissionFrame DEF Untrack, removeJob, GoTo
  <2>7. ASSUME NEW j \in Jobs, Pick(j) PROVE SubmissionInv'
    BY <2>7, LiveFrame, SubmissionFrame DEF Pick, FirstStep, JobStates, TypeInv, TypeOK
  <2>8. CASE ConsumerStep /\ ~(CheckKey \/ FetchGraph \/ SendBatch \/ SendFails \/ RecordTx \/ Untrack)
    BY <2>8, LiveFrame, SubmissionFrame
       DEF ConsumerStep, Consumer, Pick, ResetForRetry, FetchFails, TrackTxs, AwaitChildren,
           MarkSubmitted, Caught, RemoveDeadLetter, AddDeadLetter, ThrowError, ThrowUnrecoverable,
           CompleteJob, GoTo, Idle
  <2>9. CASE TxMonitor
    BY <2>9, LiveFrame, SubmissionFrame
       DEF TxMonitor, PickChild, ReadTxns, ReadSource, ForgetTxns, removeJob, PauseOnSchema,
           WriteVerdict, FinishChild
  <2>10. CASE CompletionMonitor
    <3>1. ASSUME NEW t \in Txs, SettleTx(t) PROVE Live' \subseteq Live
      <4>1. /\ watch' = [watch EXCEPT ![t] = IF fate[t] = "neither" THEN "pending" ELSE fate[t]]
            /\ fate[t] \in Included /\ UNCHANGED fate
        BY <3>1 DEF SettleTx, upsertWatchedTxn, TypeInv, HitsAreIncluded
      <4> QED
        BY <4>1, OutcomesAreFinal DEF Live, getAllPendingTxns, TypeInv, TypeOK
    <3>2. ASSUME NEW t \in Txs, ExpireTx(t) PROVE Live' \subseteq Live
      BY <3>2, LiveFrame DEF ExpireTx, upsertWatchedTxn, TypeInv, TypeOK
    <3> QED
      BY <2>10, <3>1, <3>2, LiveFrame, SubmissionFrame
         DEF CompletionMonitor, BootCheck, SkipToHead, ReadExpired, SetLastSeen, ReadBlock,
             SettleTx, ExpireTx
  <2>11. CASE Environment \/ SettleThrows \/ UNCHANGED vars
    <3>1. ASSUME NEW t \in Txs, Settle(t) PROVE Live' \subseteq Live
      BY <3>1 DEF Settle, Include, OutliveMortality, Live, getAllPendingTxns, TypeInv, TypeOK
    <3> QED
      BY <2>11, <3>1, LiveFrame, SubmissionFrame
         DEF Environment, ScannerEnqueue, TransitiveEnqueue, ChildAdded, Settle, Include,
             OutliveMortality, PauseQueue, ResumeQueue, Crash, SettleThrows, StartAgain, Idle, vars
  <2> QED
    BY <2>1, <2>2, <2>3, <2>4, <2>5, <2>6, <2>7, <2>8, <2>9, <2>10, <2>11
       DEF Next, Consumer, ConsumerStep, ResetForRetry, FetchFails, TrackTxs, AwaitChildren,
           MarkSubmitted, Caught, RemoveDeadLetter, AddDeadLetter, ThrowError, ThrowUnrecoverable,
           CompleteJob
<1>3. Spec => []CacheInv
  BY CacheInvariant
<1> QED
  BY <1>1, <1>2, <1>3, TypeCorrect, PTL DEF Spec, SubmissionInv
=============================================================================
