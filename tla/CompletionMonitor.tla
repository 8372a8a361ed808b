------------------------- MODULE CompletionMonitor -------------------------
(***************************************************************************)
(* How the completion monitor settles the transactions that are watched,   *)
(* block by block, while the graph update sends new ones.                  *)
(*                                                                         *)
(* The sender (processSingleBatch) reads a block number for the era, sends *)
(* and then tracks; the monitor (processCurrentBlock) reads what is        *)
(* pending, settles what the block includes, adds up the capacity, and     *)
(* calls expired what is over its era.  The scan itself, its flag, restarts*)
(* and the place where it goes on are BlockchainScanner's, of which every  *)
(* step here takes one or stutters.  Each action is the code between two   *)
(* awaits; what checkCapacity does with the count is QueueGate's.          *)
(***************************************************************************)
EXTENDS BlockchainScanner

CONSTANTS
    MaxTxs,       \* BOUND: transactions sent
    Period,       \* blocks a transaction is valid for (its mortal era)
    FinalityLag,  \* the finalized block, on which an era starts, is so far behind
    EpochLength,  \* blocks in an epoch of the capacity
    Outcomes      \* what the events of an included transaction may tell

ASSUME MonitorAssumption ==
    /\ ~Delegations /\ Users = {} /\ MaxTxs \in Nat \ {0}
    /\ Period \in Nat \ {0} /\ EpochLength \in Nat \ {0}
    /\ FinalityLag \in 0..Period - 1
    /\ Outcomes \subseteq {"success", "failed", "neither", "other"}

Txs == 1..MaxTxs      \* in the order in which they are sent
Statuses == {"none", "pending", "success", "failed", "expired"}
Epoch(b) == (b - 1) \div EpochLength
Epochs == 0..MaxBlock
Unsent == -1
NoBatch == [step |-> "idle", tx |-> 1, number |-> 0]

VARIABLES
    era,         \* first block of each transaction's era, Unsent if it was not sent
    included,    \* the block that includes it, 0 if none
    outcome,     \* what the events of that block tell of it
    status,      \* the cache: ITxStatus of a tracked transaction, "none" if untracked
    death,       \* and the block it expires at
    used,        \* the capacity counted for each epoch, one for a transaction
    sender,      \* processSingleBatch: step, transaction, block number read
    mboot, mhead,\* the monitor's boot: step, head read
    mpc, hits, amount,   \* processCurrentBlock: step, transactions at hand, withdrawn
    saved,       \* the count read in setEpochCapacity
    passed       \* HISTORY: included in a block the monitor had passed when it was tracked

chainVars == <<era, included, outcome>>
cacheVars == <<status, death, used>>
blockVars == <<mpc, hits, amount, saved>>
bootVars == <<mboot, mhead>>
ownVars == <<chainVars, cacheVars, sender, bootVars, blockVars, passed>>
monitorVars == <<vars, ownVars>>

MonitorTypeOK ==
    /\ era \in [Txs -> {Unsent} \cup 0..MaxBlock]
    /\ included \in [Txs -> 0..MaxBlock]
    /\ outcome \in [Txs -> Outcomes \cup {"none"}]
    /\ status \in [Txs -> Statuses] /\ death \in [Txs -> 0..MaxBlock + Period]
    /\ used \in [Epochs -> Nat]
    /\ sender \in [step : {"idle", "send", "record"}, tx : Txs, number : 0..MaxBlock]
    /\ mboot \in {"check", "head", "skip", "done"} /\ mhead \in 0..MaxBlock
    /\ mpc \in {"pending", "settle", "get", "set", "expiring", "expire", "end"}
    /\ hits \subseteq Txs /\ amount \in Nat /\ saved \in Nat
    /\ passed \subseteq Txs

MonitorInit ==
    /\ Init
    /\ era = [t \in Txs |-> Unsent] /\ included = [t \in Txs |-> 0]
    /\ outcome = [t \in Txs |-> "none"]
    /\ status = [t \in Txs |-> "none"] /\ death = [t \in Txs |-> 0]
    /\ used = [e \in Epochs |-> 0]
    /\ sender = NoBatch
    /\ mboot = "check" /\ mhead = 0
    /\ mpc = "pending" /\ hits = {} /\ amount = 0 /\ saved = 0
    /\ passed = {}

getAllPendingTxns == {t \in Txs : status[t] = "pending"}

(***************************************************************************)
(* The chain.  A transaction is valid from the first block of its era for  *)
(* Period blocks; the node takes no other into a block.                    *)
(***************************************************************************)
LastValid(t) == era[t] + Period - 1
InPool(t) == era[t] # Unsent /\ included[t] = 0

\* BOUND: the last block of the model comes when nothing is on its way to the cache
\* and the monitor has started, so that a block comes after what these do.
NewBlockOf(ts) ==
    /\ NewBlock /\ (head' = MaxBlock => sender = NoBatch /\ boot = "done")
    /\ ts \subseteq {t \in Txs : InPool(t) /\ head' <= LastValid(t)}
    /\ included' = [t \in Txs |-> IF t \in ts THEN head' ELSE included[t]]
    /\ \E o \in [ts -> Outcomes] :
           outcome' = [t \in Txs |-> IF t \in ts THEN o[t] ELSE outcome[t]]
    /\ UNCHANGED <<era, cacheVars, sender, bootVars, blockVars, passed>>

(***************************************************************************)
(* processSingleBatch.  The era starts at the finalized block when the     *)
(* transaction is signed, but birth and death are computed for the block   *)
(* number read before, and that is the head of the chain.                  *)
(***************************************************************************)
Birth(first, n) ==    \* the last start of a period that is not after n
    LET phase == first % Period
        from == IF n >= phase THEN n ELSE phase
    IN  ((from - phase) \div Period) * Period + phase
Death_Mutant(first, n) == Birth(first, n)          \* MUTANT: where it was born
Death(first, n) == Birth(first, n) + Period

ReadBlockNumber(t) ==
    /\ sender.step = "idle" /\ \A u \in Txs : u < t <=> era[u] # Unsent
    /\ head + Period <= MaxBlock                  \* BOUND: it expires in the model
    /\ sender' = [step |-> "send", tx |-> t, number |-> head]
    /\ UNCHANGED <<vars, chainVars, cacheVars, bootVars, blockVars, passed>>

\* BOUND: it is sent before the block whose number was read is finalized.
Send ==
    /\ sender.step = "send" /\ head <= sender.number + FinalityLag
    /\ era' = [era EXCEPT ![sender.tx] = IF head > FinalityLag THEN head - FinalityLag ELSE 0]
    /\ sender' = [sender EXCEPT !.step = "record"]
    /\ UNCHANGED <<vars, included, outcome, cacheVars, bootVars, blockVars, passed>>

SendFails ==          \* the job is tried again with another transaction
    /\ sender.step = "send"
    /\ sender' = NoBatch
    /\ UNCHANGED <<vars, chainVars, cacheVars, bootVars, blockVars, passed>>

\* The monitor has read what is pending for that block, or skipped it.
Passed(b) ==
    b # 0 /\ (b \in handled \/ \E s \in Scans : pc[s] = "process" /\ cur[s] = b /\ mpc # "pending")

Record ==             \* upsertWatchedTxns
    /\ sender.step = "record"
    /\ LET t == sender.tx IN
       /\ status' = [status EXCEPT ![t] = "pending"]
       /\ death' = [death EXCEPT ![t] = Death(era[t], sender.number)]
       /\ passed' = IF Passed(included[t]) \/ mboot \in {"head", "skip"}
                     THEN passed \cup {t} ELSE passed
    /\ sender' = NoBatch
    /\ UNCHANGED <<vars, chainVars, used, bootVars, blockVars>>

Forget(t) ==          \* removeJob, by the transaction monitor or a failing update
    /\ status[t] # "none"
    /\ status' = [status EXCEPT ![t] = "none"]
    /\ UNCHANGED <<vars, chainVars, death, used, sender, bootVars, blockVars, passed>>

Sender == (\E t \in Txs : ReadBlockNumber(t)) \/ Send \/ SendFails \/ Record

(***************************************************************************)
(* Boot: the monitor skips to the head if nothing is pending.              *)
(***************************************************************************)
CheckPending_Mutant ==   \* MUTANT: always skips
    /\ mboot = "check" /\ mboot' = "head"
    /\ UNCHANGED <<vars, chainVars, cacheVars, sender, mhead, blockVars, passed>>

CheckPending ==
    /\ mboot = "check"
    /\ mboot' = IF getAllPendingTxns = {} THEN "head" ELSE "done"
    /\ UNCHANGED <<vars, chainVars, cacheVars, sender, mhead, blockVars, passed>>

ReadHead ==
    /\ mboot = "head"
    /\ mhead' = head /\ mboot' = "skip"
    /\ UNCHANGED <<vars, chainVars, cacheVars, sender, blockVars, passed>>

SkipToHead_Mutant ==  \* MUTANT: a block too far
    /\ mboot = "skip" /\ SkipTo(mhead + 1)
    /\ mboot' = "done" /\ mhead' = 0
    /\ UNCHANGED <<chainVars, cacheVars, sender, blockVars, passed>>

SkipToHead ==
    /\ mboot = "skip" /\ SkipTo(mhead)
    /\ mboot' = "done" /\ mhead' = 0
    /\ UNCHANGED <<chainVars, cacheVars, sender, blockVars, passed>>

CopyKey ==
    /\ mboot = "done"
    /\ GetOldKey \/ NewKeyExists \/ CopyOldKey
    /\ UNCHANGED ownVars

MonitorBoot == CheckPending \/ ReadHead \/ SkipToHead \/ CopyKey

(***************************************************************************)
(* processCurrentBlock                                                     *)
(***************************************************************************)
Processing(s, step) == pc[s] = "process" /\ mpc = step

ReadPending_Mutant(s) ==   \* MUTANT: what is settled is looked for, too
    /\ Processing(s, "pending")
    /\ hits' = {t \in Txs : status[t] # "none" /\ included[t] = cur[s]}
    /\ amount' = Cardinality(hits')
    /\ mpc' = IF hits' = {} THEN "expiring" ELSE "settle"
    /\ UNCHANGED <<vars, chainVars, cacheVars, sender, bootVars, saved, passed>>

ReadPending(s) ==
    /\ Processing(s, "pending")
    /\ hits' = {t \in getAllPendingTxns : included[t] = cur[s]}
    /\ amount' = Cardinality(hits')
    /\ mpc' = IF hits' = {} THEN "expiring" ELSE "settle"
    /\ UNCHANGED <<vars, chainVars, cacheVars, sender, bootVars, saved, passed>>

SettleTx_Mutant(s, t) ==  \* MUTANT: the status is whatever the events tell
    /\ Processing(s, "settle") /\ t \in hits /\ outcome[t] # "other"
    /\ status' = [status EXCEPT ![t] = outcome[t]]
    /\ hits' = hits \ {t}
    /\ mpc' = IF hits' = {} THEN "get" ELSE "settle"
    /\ UNCHANGED <<vars, chainVars, death, used, sender, bootVars, amount, saved, passed>>

SettleTx(s, t) ==     \* "neither" writes what was read
    /\ Processing(s, "settle") /\ t \in hits /\ outcome[t] # "other"
    /\ status' = [status EXCEPT ![t] = IF outcome[t] = "neither" THEN "pending" ELSE outcome[t]]
    /\ hits' = hits \ {t}
    /\ mpc' = IF hits' = {} THEN "get" ELSE "settle"
    /\ UNCHANGED <<vars, chainVars, death, used, sender, bootVars, amount, saved, passed>>

GetEpochCapacity(s) ==
    /\ Processing(s, "get")
    /\ saved' = used[Epoch(cur[s])] /\ mpc' = "set"
    /\ UNCHANGED <<vars, chainVars, cacheVars, sender, bootVars, hits, amount, passed>>

SetEpochCapacity(s) == \* nothing is set if the chain does not tell the epoch's length
    /\ Processing(s, "set")
    /\ \/ used' = [used EXCEPT ![Epoch(cur[s])] = saved + amount]
       \/ UNCHANGED used
    /\ amount' = 0 /\ saved' = 0 /\ mpc' = "expiring"
    /\ UNCHANGED <<vars, chainVars, status, death, sender, bootVars, hits, passed>>

ReadExpired_Mutant(s) ==  \* MUTANT: only at the very block
    /\ Processing(s, "expiring")
    /\ hits' = {t \in getAllPendingTxns : death[t] = cur[s]}
    /\ mpc' = "expire"
    /\ UNCHANGED <<vars, chainVars, cacheVars, sender, bootVars, amount, saved, passed>>

ReadExpired(s) ==
    /\ Processing(s, "expiring")
    /\ hits' = {t \in getAllPendingTxns : death[t] <= cur[s]}
    /\ mpc' = "expire"
    /\ UNCHANGED <<vars, chainVars, cacheVars, sender, bootVars, amount, saved, passed>>

ExpireTx(s, t) ==
    /\ Processing(s, "expire") /\ t \in hits
    /\ status' = [status EXCEPT ![t] = "expired"]
    /\ hits' = hits \ {t}
    /\ UNCHANGED <<vars, chainVars, death, used, sender, bootVars, mpc, amount, saved, passed>>

EndOfBlock(s) ==      \* checkCapacity throws nothing
    /\ Processing(s, "expire") /\ hits = {}
    /\ ProcessedBlock(s)
    /\ mpc' = "pending"
    /\ UNCHANGED <<chainVars, cacheVars, sender, bootVars, hits, amount, saved, passed>>

ProcessStep(s) ==
    \/ ReadPending(s) \/ GetEpochCapacity(s) \/ SetEpochCapacity(s) \/ ReadExpired(s)
    \/ \E t \in Txs : SettleTx(s, t) \/ ExpireTx(s, t)
    \/ EndOfBlock(s)

\* scan() outside of processCurrentBlock.  BOUND: no 'drained' event calls it while the
\* monitor boots; BlockchainScanner has that.
ScanOn(s) ==
    /\ (Call(s) /\ boot = "done") \/ GetLastSeen(s) \/ GetHash(s)
       \/ CheckScanParameters(s) \/ SetLastSeen(s)
    /\ UNCHANGED ownVars

(***************************************************************************)
(* The end of the process, from outside or by its own doing: getTxStatus   *)
(* throws at a failure that is no module error, for it has no asModule.    *)
(***************************************************************************)
LoseMemory ==
    /\ sender' = NoBatch
    /\ mboot' = "check" /\ mhead' = 0
    /\ mpc' = "pending" /\ hits' = {} /\ amount' = 0 /\ saved' = 0
    /\ UNCHANGED <<chainVars, cacheVars, passed>>

SettleThrows(s) ==
    /\ Processing(s, "settle") /\ \E t \in hits : outcome[t] = "other"
    /\ MonitorThrows(s) /\ LoseMemory

Crash == Restart /\ LoseMemory

MonitorNext ==
    \/ \E ts \in SUBSET Txs : NewBlockOf(ts)
    \/ Sender \/ MonitorBoot \/ Crash
    \/ \E t \in Txs : Forget(t)
    \/ \E s \in Scans : ScanOn(s) \/ ProcessStep(s) \/ SettleThrows(s)

MonitorSpec == MonitorInit /\ [][MonitorNext]_monitorVars

\* The chain goes on, the sender and the boot are awaited, the interval calls scan(), and
\* a scan goes on.
MonitorFairness ==
    /\ WF_monitorVars(\E ts \in SUBSET Txs : NewBlockOf(ts))
    /\ WF_monitorVars(Send \/ SendFails \/ Record) /\ WF_monitorVars(MonitorBoot)
    /\ WF_monitorVars(\E s \in Scans : ScanOn(s) \/ ProcessStep(s) \/ SettleThrows(s))

FairMonitorSpec == MonitorSpec /\ MonitorFairness

(***************************************************************************)
(* Properties                                                              *)
(***************************************************************************)
\* The monitor scans as BlockchainScanner says, whatever it does with a block.
ScansLikeTheScanner == BaseSpec

\* A transaction is called expired, and its job retried or failed, only when no
\* block can include it any more, although its death is computed for another block
\* than the one its era starts at.
ExpiredIsDead ==
    \A t \in Txs : status[t] = "expired" => included[t] # 0 \/ head >= LastValid(t)

\* If it was included all the same, the monitor had passed or skipped the block when
\* the transaction was tracked, or the events of the block told nothing.
MissedOnlyIfPassed ==
    \A t \in Txs : status[t] = "expired" /\ included[t] # 0 =>
        t \in passed \/ outcome[t] = "neither"

\* Blocks are read again after a restart, but the capacity of a transaction is not
\* counted twice: the service never stops before its limit.
NeverOvercounted ==
    (\A t \in Txs : outcome[t] # "neither") =>
        \A e \in Epochs :
            used[e] <= Cardinality({t \in Txs : included[t] # 0 /\ Epoch(included[t]) = e})

\* Every tracked transaction is settled, so that its job can be judged, unless a
\* block holds a failure at which the monitor throws each time it is restarted.
TrackedIsSettled ==
    \A t \in Txs : status[t] = "pending" ~>
        status[t] # "pending" \/ \E u \in Txs : outcome[u] = "other"
=============================================================================
