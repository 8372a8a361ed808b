---------------------- MODULE CompletionMonitorProofs ----------------------
(***************************************************************************)
(* Proofs about CompletionMonitor, for any number of transactions, length  *)
(* of the era and lag of finality.                                         *)
(***************************************************************************)
EXTENDS CompletionMonitor, BlockchainScannerProofs, FiniteSetTheorems

(***************************************************************************)
(* Every step of the monitor is one of the scanner's or none, so that what *)
(* is proved of the scanner holds of the monitor.                          *)
(***************************************************************************)
HeadInv == head \in Nat /\ mhead \in 0..head

LEMMA HeadInit == MonitorInit => HeadInv
BY ScannerAssumption DEF MonitorInit, Init, HeadInv

LEMMA HeadNext == HeadInv /\ [MonitorNext]_monitorVars => HeadInv'
<1> SUFFICES ASSUME HeadInv, [MonitorNext]_monitorVars PROVE HeadInv'
  OBVIOUS
<1> USE DEF HeadInv
<1>1. CASE \E ts \in SUBSET Txs : NewBlockOf(ts)
  BY <1>1 DEF NewBlockOf, NewBlock, bootVars
<1>2. CASE Sender \/ CheckPending \/ ReadHead \/ \E t \in Txs : Forget(t)
  BY <1>2 DEF Sender, ReadBlockNumber, Send, SendFails, Record, CheckPending, ReadHead, Forget,
     vars, bootVars
<1>3. CASE SkipToHead \/ CopyKey
  BY <1>3 DEF SkipToHead, SkipTo, CopyKey, GetOldKey, NewKeyExists, CopyOldKey, ownVars, bootVars
<1>4. CASE Crash \/ \E s \in Scans : SettleThrows(s)
  BY <1>4 DEF Crash, Restart, SettleThrows, MonitorThrows, StartAgain, LoseMemory
<1>5. CASE \E s \in Scans : ScanOn(s)
  BY <1>5 DEF ScanOn, Call, GetLastSeen, GetHash, CheckScanParameters, SetLastSeen, ownVars, bootVars
<1>6. CASE \E s \in Scans : ProcessStep(s)
  BY <1>6 DEF ProcessStep, ReadPending, GetEpochCapacity, SetEpochCapacity, ReadExpired, SettleTx,
     ExpireTx, EndOfBlock, ProcessedBlock, vars, bootVars
<1>7. CASE UNCHANGED monitorVars
  BY <1>7 DEF monitorVars, vars, ownVars, bootVars
<1> QED
  BY <1>1, <1>2, <1>3, <1>4, <1>5, <1>6, <1>7 DEF MonitorNext, MonitorBoot

LEMMA StepScans == HeadInv /\ [MonitorNext]_monitorVars => [BaseNext]_vars
<1> SUFFICES ASSUME HeadInv, [MonitorNext]_monitorVars PROVE [BaseNext]_vars
  OBVIOUS
<1>1. CASE \E ts \in SUBSET Txs : NewBlockOf(ts)
  BY <1>1 DEF NewBlockOf, Next, BaseNext
<1>2. CASE Sender \/ CheckPending \/ ReadHead \/ \E t \in Txs : Forget(t)
  BY <1>2 DEF Sender, ReadBlockNumber, Send, SendFails, Record, CheckPending, ReadHead, Forget
<1>3. CASE SkipToHead \/ CopyKey
  BY <1>3 DEF SkipToHead, CopyKey, HeadInv, Boot, Next, BaseNext, MonitorStep
<1>4. CASE Crash \/ \E s \in Scans : SettleThrows(s)
  BY <1>4 DEF Crash, SettleThrows, Next, BaseNext, MonitorStep
<1>5. CASE \E s \in Scans : ScanOn(s)
  BY <1>5 DEF ScanOn, ScanStep, Next, BaseNext
<1>6. CASE \E s \in Scans : ProcessStep(s)
  BY <1>6 DEF ProcessStep, ReadPending, GetEpochCapacity, SetEpochCapacity, ReadExpired, SettleTx,
     ExpireTx, EndOfBlock, ScanStep, Next, BaseNext
<1>7. CASE UNCHANGED monitorVars
  BY <1>7 DEF monitorVars
<1> QED
  BY <1>1, <1>2, <1>3, <1>4, <1>5, <1>6, <1>7 DEF MonitorNext, MonitorBoot

\* The completion monitor scans the chain as BlockchainScanner says.
THEOREM MonitorRefinesScanner == MonitorSpec => ScansLikeTheScanner
<1>1. MonitorInit => Init
  BY DEF MonitorInit
<1> QED
  BY <1>1, HeadInit, HeadNext, StepScans, PTL DEF MonitorSpec, ScansLikeTheScanner, BaseSpec

\* Hence two calls of scan() never run together in it.
THEOREM MonitorIsExclusive == MonitorSpec => []ScansAreExclusive
<1>1. ~Delegations
  BY MonitorAssumption
<1>2. BaseSpec => []ScansAreExclusive
  BY <1>1, MonitorScansAreExclusive
<1> QED
  BY <1>2, MonitorRefinesScanner DEF ScansLikeTheScanner

(***************************************************************************)
(* The era.  The block number that is read is at most FinalityLag, which   *)
(* is less than a period, after the first block of the era, so that birth  *)
(* is that block and death the first one at which the chain takes the      *)
(* transaction no more.                                                    *)
(***************************************************************************)
LEMMA Multiples ==
    ASSUME NEW a \in Int, NEW b \in Int, NEW p \in Nat \ {0}, a < b
    PROVE  a * p + p <= b * p
<1>1. (b - a - 1) * p >= 0
  OBVIOUS
<1> QED
  BY <1>1

LEMMA QuotientIsUnique ==
    ASSUME NEW q \in Nat, NEW a \in Nat, NEW p \in Nat \ {0},
           q * p <= a, a < q * p + p
    PROVE  a \div p = q
<1> DEFINE d == a \div p
<1>1. d \in Int /\ d * p <= a /\ a < d * p + p
  OBVIOUS
<1> HIDE DEF d
<1>2. ~(d < q)
  BY <1>1, Multiples
<1>3. ~(q < d)
  BY <1>1, Multiples
<1> QED
  BY <1>1, <1>2, <1>3 DEF d

LEMMA DeathIsEndOfEra ==
    ASSUME NEW first \in Nat, NEW n \in Nat, first <= n, n < first + Period
    PROVE  Death(first, n) = first + Period
<1> DEFINE phase == first % Period
           q == first \div Period
<1>1. Period \in Nat \ {0}
  BY MonitorAssumption
<1>2. phase \in Nat /\ q \in Nat /\ first = q * Period + phase /\ phase <= first
  BY <1>1
<1> HIDE DEF phase, q
<1>3. q * Period \in Nat
  BY <1>1, <1>2
<1>4. (n - phase) \div Period = q
  BY <1>1, <1>2, <1>3, QuotientIsUnique
<1>5. n >= phase
  BY <1>2
<1>6. Birth(first, n) = q * Period + phase
  BY <1>4, <1>5 DEF Birth, phase
<1> QED
  BY <1>1, <1>2, <1>6 DEF Death

(***************************************************************************)
(* What is known of the transactions: a death that is set is the end of    *)
(* the era, the sender is about to compute it for a number of that era,    *)
(* and what is being called expired has come to it.                        *)
(***************************************************************************)
TxsTyped ==
    /\ era \in [Txs -> Int] /\ death \in [Txs -> Int] /\ included \in [Txs -> Nat]
    /\ outcome \in [Txs -> Outcomes \cup {"none"}] /\ status \in [Txs -> Statuses]
    /\ sender \in [step : {"idle", "send", "record"}, tx : Txs, number : Nat]
    /\ hits \subseteq Txs
DeathsSet ==
    \A t \in Txs :
        /\ era[t] # Unsent => era[t] >= 0
        /\ death[t] # 0 => era[t] # Unsent /\ death[t] = era[t] + Period
        /\ status[t] # "none" => death[t] # 0
        /\ status[t] = "expired" => death[t] <= head
SenderOnTime ==
    /\ sender.step = "send" => era[sender.tx] = Unsent /\ sender.number <= head
    /\ sender.step = "record" =>
        /\ death[sender.tx] = 0 /\ era[sender.tx] # Unsent
        /\ era[sender.tx] <= sender.number /\ sender.number < era[sender.tx] + Period
HitsTracked ==
    \A t \in hits : death[t] # 0 /\ (mpc = "expire" => death[t] <= head)

EraInv == TxsTyped /\ DeathsSet /\ SenderOnTime /\ HitsTracked

LEMMA MonitorFacts ==
    /\ MaxBlock \in Nat /\ MaxTxs \in Nat \ {0} /\ Period \in Nat \ {0} /\ FinalityLag \in 0..Period - 1
    /\ Unsent = -1 /\ NoBatch = [step |-> "idle", tx |-> 1, number |-> 0] /\ 1 \in Txs
    /\ ~Delegations /\ Outcomes \subseteq {"success", "failed", "neither", "other"}
BY MonitorAssumption, ScannerAssumption DEF Unsent, NoBatch, Txs

LEMMA EraInit == MonitorInit => EraInv
<1> USE MonitorFacts
<1> SUFFICES ASSUME MonitorInit PROVE EraInv
  OBVIOUS
<1>1. TxsTyped
  BY DEF MonitorInit, TxsTyped, Statuses
<1> QED
  BY <1>1 DEF MonitorInit, EraInv, DeathsSet, SenderOnTime, HitsTracked

\* What touches neither the transactions nor the sender, and no hit.
LEMMA EraFrame ==
    ASSUME EraInv, head \in Nat, head' \in Nat, head' >= head,
           UNCHANGED <<era, death, status>>, sender' \in {sender, NoBatch},
           included' \in [Txs -> Nat], outcome' \in [Txs -> Outcomes \cup {"none"}],
           hits' = {} \/ (hits' = hits /\ (mpc' = "expire" => mpc = "expire"))
    PROVE  EraInv'
<1>1. TxsTyped'
  BY MonitorFacts DEF EraInv, TxsTyped
<1>2. \A t \in Txs : death[t] \in Int
  BY DEF EraInv, TxsTyped
<1>3. DeathsSet'
  BY <1>2 DEF EraInv, DeathsSet
<1>4. sender.number \in Nat
  BY DEF EraInv, TxsTyped
<1>5. SenderOnTime'
  BY <1>4, MonitorFacts DEF EraInv, SenderOnTime
<1>6. HitsTracked'
  BY <1>2 DEF EraInv, HitsTracked, TxsTyped
<1> QED
  BY <1>1, <1>3, <1>5, <1>6 DEF EraInv

LEMMA EraNext == ScanInv /\ EraInv /\ [MonitorNext]_monitorVars => EraInv'
<1> SUFFICES ASSUME ScanInv, EraInv, [MonitorNext]_monitorVars PROVE EraInv'
  OBVIOUS
<1>1. head \in Nat /\ \A s \in Scans : pc[s] = "process" => cur[s] \in 1..head
  BY MonitorFacts DEF ScanInv, ServiceTyped, ScanInChain
<1>2. TxsTyped /\ DeathsSet /\ SenderOnTime /\ HitsTracked
  BY DEF EraInv
<1> USE <1>1, <1>2, MonitorFacts
<1>3. ASSUME NEW ts \in SUBSET Txs, NewBlockOf(ts) PROVE EraInv'
  <2>1. /\ head' = head + 1 /\ UNCHANGED <<era, death, status, sender, hits, mpc>>
        /\ included' = [t \in Txs |-> IF t \in ts THEN head' ELSE included[t]]
    BY <1>3 DEF NewBlockOf, NewBlock, cacheVars, blockVars
  <2>2. included' \in [Txs -> Nat]
    BY <2>1 DEF TxsTyped
  <2>3. outcome' \in [Txs -> Outcomes \cup {"none"}]
    BY <1>3 DEF NewBlockOf, TxsTyped
  <2> QED
    BY <2>1, <2>2, <2>3, EraFrame
<1>4. ASSUME NEW t \in Txs, ReadBlockNumber(t) PROVE EraInv'
  <2>1. /\ era[t] = Unsent /\ sender' = [step |-> "send", tx |-> t, number |-> head]
        /\ UNCHANGED <<head, era, death, status, included, outcome, hits, mpc>>
    BY <1>4 DEF ReadBlockNumber, Txs, vars, chainVars, cacheVars, blockVars
  <2> QED
    BY <2>1 DEF EraInv, TxsTyped, DeathsSet, SenderOnTime, HitsTracked
<1>5. CASE Send
  <2>1. /\ sender.step = "send" /\ head <= sender.number + FinalityLag
        /\ era' = [era EXCEPT ![sender.tx] = IF head > FinalityLag THEN head - FinalityLag ELSE 0]
        /\ sender' = [sender EXCEPT !.step = "record"]
        /\ UNCHANGED <<head, death, status, included, outcome, hits, mpc>>
    BY <1>5 DEF Send, vars, cacheVars, blockVars
  <2>2. /\ sender.tx \in Txs /\ sender.number \in 0..head /\ sender'.tx = sender.tx
        /\ sender'.number = sender.number /\ sender'.step = "record"
    BY <2>1 DEF TxsTyped, SenderOnTime
  <2>3. /\ era'[sender.tx] >= 0 /\ era'[sender.tx] <= sender.number
        /\ sender.number < era'[sender.tx] + Period /\ death[sender.tx] = 0
    BY <2>1, <2>2 DEF TxsTyped, SenderOnTime, DeathsSet
  <2>4. TxsTyped'
    BY <2>1, <2>2 DEF TxsTyped
  <2>5. DeathsSet'
    BY <2>1, <2>2, <2>3 DEF DeathsSet, TxsTyped
  <2>6. SenderOnTime' /\ HitsTracked'
    BY <2>1, <2>2, <2>3 DEF SenderOnTime, HitsTracked
  <2> QED
    BY <2>4, <2>5, <2>6 DEF EraInv
<1>6. CASE SendFails
  BY <1>6, EraFrame DEF SendFails, vars, chainVars, cacheVars, blockVars, TxsTyped
<1>7. CASE Record
  <2> DEFINE t == sender.tx
  <2>1. /\ sender.step = "record" /\ sender' = NoBatch
        /\ status' = [status EXCEPT ![t] = "pending"]
        /\ death' = [death EXCEPT ![t] = Death(era[t], sender.number)]
        /\ UNCHANGED <<head, era, included, outcome, hits, mpc>>
    BY <1>7 DEF Record, vars, chainVars, blockVars
  <2>2. /\ t \in Txs /\ era[t] \in Nat /\ sender.number \in Nat /\ death[t] = 0
        /\ era[t] <= sender.number /\ sender.number < era[t] + Period
    BY <2>1 DEF TxsTyped, SenderOnTime, DeathsSet
  <2>3. Death(era[t], sender.number) = era[t] + Period
    BY <2>2, DeathIsEndOfEra
  <2> HIDE DEF t
  <2>4. death' = [death EXCEPT ![t] = era[t] + Period] /\ t \notin hits
    BY <2>1, <2>2, <2>3 DEF HitsTracked
  <2>5. TxsTyped' /\ SenderOnTime'
    BY <2>1, <2>2, <2>4 DEF TxsTyped, SenderOnTime, Statuses
  <2>6. DeathsSet' /\ HitsTracked'
    BY <2>1, <2>2, <2>4 DEF TxsTyped, DeathsSet, HitsTracked
  <2> QED
    BY <2>5, <2>6 DEF EraInv
<1>8. ASSUME NEW t \in Txs, Forget(t) PROVE EraInv'
  BY <1>8 DEF Forget, vars, chainVars, blockVars, EraInv, TxsTyped, DeathsSet, SenderOnTime, HitsTracked, Statuses
<1>9. CASE MonitorBoot
  BY <1>9, EraFrame DEF MonitorBoot, CheckPending, ReadHead, SkipToHead, SkipTo, CopyKey, GetOldKey,
     NewKeyExists, CopyOldKey, ownVars, vars, chainVars, cacheVars, blockVars, TxsTyped
<1>10. CASE Crash \/ \E s \in Scans : SettleThrows(s)
  <2>1. StartAgain /\ LoseMemory
    BY <1>10 DEF Crash, Restart, SettleThrows, MonitorThrows
  <2> QED
    BY <2>1, EraFrame DEF StartAgain, LoseMemory, chainVars, cacheVars, TxsTyped
<1>11. ASSUME NEW s \in Scans, ScanOn(s) PROVE EraInv'
  BY <1>11, EraFrame DEF ScanOn, Call, GetLastSeen, GetHash, CheckScanParameters, SetLastSeen,
     ownVars, chainVars, cacheVars, blockVars, TxsTyped
<1>12. ASSUME NEW s \in Scans, ReadPending(s) PROVE EraInv'
  BY <1>12 DEF ReadPending, Processing, getAllPendingTxns, vars, chainVars, cacheVars,
     EraInv, TxsTyped, DeathsSet, SenderOnTime, HitsTracked
<1>13. ASSUME NEW s \in Scans, NEW t \in Txs, SettleTx(s, t) PROVE EraInv'
  <2> DEFINE new == IF outcome[t] = "neither" THEN "pending" ELSE outcome[t]
  <2>1. /\ t \in hits /\ status' = [status EXCEPT ![t] = new] /\ hits' = hits \ {t}
        /\ mpc' # "expire" /\ UNCHANGED <<head, era, included, outcome, death, sender>>
    BY <1>13 DEF SettleTx, vars, chainVars
  <2>2. outcome[t] \in {"success", "failed", "neither", "none"}
    BY <1>13 DEF TxsTyped, SettleTx
  <2>3. new \in Statuses /\ new # "expired"
    BY <2>2 DEF Statuses
  <2> HIDE DEF new
  <2> QED
    BY <2>1, <2>3 DEF EraInv, TxsTyped, DeathsSet, SenderOnTime, HitsTracked
<1>14. ASSUME NEW s \in Scans, GetEpochCapacity(s) \/ SetEpochCapacity(s) \/ EndOfBlock(s)
       PROVE  EraInv'
  BY <1>14, EraFrame DEF GetEpochCapacity, SetEpochCapacity, EndOfBlock, ProcessedBlock, Processing,
     vars, chainVars, cacheVars, TxsTyped
<1>15. ASSUME NEW s \in Scans, ReadExpired(s) PROVE EraInv'
  <2>1. /\ hits' = {t \in getAllPendingTxns : death[t] <= cur[s]} /\ cur[s] \in 1..head
        /\ UNCHANGED <<head, era, included, outcome, status, death, sender>>
    BY <1>15 DEF ReadExpired, Processing, vars, chainVars, cacheVars
  <2>2. \A t \in hits' : t \in Txs /\ death[t] # 0 /\ death[t] <= head
    BY <2>1 DEF getAllPendingTxns, DeathsSet, TxsTyped
  <2> QED
    BY <2>1, <2>2 DEF EraInv, TxsTyped, DeathsSet, SenderOnTime, HitsTracked
<1>16. ASSUME NEW s \in Scans, NEW t \in Txs, ExpireTx(s, t) PROVE EraInv'
  <2>1. /\ t \in hits /\ mpc = "expire" /\ mpc' = mpc
        /\ status' = [status EXCEPT ![t] = "expired"] /\ hits' = hits \ {t}
        /\ UNCHANGED <<head, era, included, outcome, death, sender>>
    BY <1>16 DEF ExpireTx, Processing, vars, chainVars
  <2> QED
    BY <2>1 DEF EraInv, TxsTyped, DeathsSet, SenderOnTime, HitsTracked, Statuses
<1>17. CASE UNCHANGED monitorVars
  BY <1>17, EraFrame DEF monitorVars, vars, ownVars, chainVars, cacheVars, blockVars, TxsTyped
<1> QED
  BY <1>3, <1>4, <1>5, <1>6, <1>7, <1>8, <1>9, <1>10, <1>11, <1>12, <1>13, <1>14, <1>15, <1>16, <1>17
     DEF MonitorNext, Sender, ProcessStep

\* The monitor calls a transaction expired only when it has been included or no block can
\* include it any more, although the service computes its death for another block
\* than the one at which its era starts.
THEOREM ExpiryCorrect == MonitorSpec => []ExpiredIsDead
<1>1. EraInv /\ head \in Nat => ExpiredIsDead
  BY MonitorFacts DEF EraInv, TxsTyped, DeathsSet, ExpiredIsDead, LastValid
<1>2. ScanInv => head \in Nat
  BY DEF ScanInv, ServiceTyped
<1>3. MonitorSpec => []ScanInv
  BY MonitorRefinesScanner, ScanTyped DEF ScansLikeTheScanner
<1> QED
  BY <1>1, <1>2, <1>3, EraInit, EraNext, PTL DEF MonitorSpec

(***************************************************************************)
(* Why a transaction is missed.  A pending transaction whose block needs   *)
(* no processing any more was tracked too late, or its events told         *)
(* nothing; so was one that the monitor, being past the settling of its    *)
(* block or about to skip it, does not have at hand.  What is over its era *)
(* was included before the block at which it is found to be.               *)
(***************************************************************************)
Late(t) == t \in passed \/ outcome[t] = "neither"

BlocksKnown ==
    /\ \A b \in handled : b <= head
    /\ \A t \in Txs : included[t] # 0 =>
        era[t] # Unsent /\ included[t] <= LastValid(t) /\ included[t] <= head
    /\ \A t \in Txs : outcome[t] = "neither" => included[t] # 0
    /\ mpc # "pending" => \E s \in Scans : pc[s] = "process"
HandledAreLate ==
    \A t \in Txs : included[t] # 0 /\ included[t] \in handled /\ status[t] = "pending" => Late(t)
SettledAreLate ==
    \A s \in Scans, t \in Txs :
        pc[s] = "process" /\ mpc # "pending" /\ cur[s] = included[t] /\ status[t] = "pending" =>
            Late(t) \/ (mpc = "settle" /\ t \in hits)
SkippedAreLate ==
    mboot \in {"head", "skip"} => \A t \in Txs : status[t] = "pending" => Late(t)
ExpiringAreLate ==
    mpc = "expire" => \A t \in hits : included[t] = 0 \/ Late(t)

MissInv ==
    /\ BlocksKnown /\ HandledAreLate /\ SettledAreLate /\ SkippedAreLate /\ ExpiringAreLate
    /\ MissedOnlyIfPassed

LEMMA MissInit == MonitorInit => MissInv
BY MonitorFacts, ScannerFacts
   DEF MonitorInit, Init, MissInv, BlocksKnown, HandledAreLate, SettledAreLate, SkippedAreLate,
       ExpiringAreLate, MissedOnlyIfPassed

\* The steps that only move the sender, the boot or a scan that is at no block.
LEMMA MissFrame ==
    ASSUME MissInv, UNCHANGED <<head, era, included, outcome, status, passed, handled>>,
           mboot' \in {mboot, "check", "done"} \/ (mboot \in {"head", "skip"} /\ mboot' \in {"head", "skip"}),
           \/ mpc' = "pending"
           \/ /\ mpc' = mpc /\ hits' = hits
              /\ \A s \in Scans : (pc'[s] = "process") = (pc[s] = "process")
              /\ \A s \in Scans : pc[s] = "process" => cur'[s] = cur[s]
    PROVE  MissInv'
<1> USE DEF MissInv, Late
<1>1. BlocksKnown'
  BY DEF BlocksKnown, LastValid
<1>2. HandledAreLate' /\ MissedOnlyIfPassed'
  BY DEF HandledAreLate, MissedOnlyIfPassed
<1>3. SettledAreLate' /\ ExpiringAreLate'
  BY DEF SettledAreLate, ExpiringAreLate
<1>4. SkippedAreLate'
  BY DEF SkippedAreLate
<1> QED
  BY <1>1, <1>2, <1>3, <1>4

LEMMA MissNext ==
    ScanInv /\ HeadInv /\ NoBlockSkipped /\ ScansAreExclusive /\ EraInv /\ MissInv /\ [MonitorNext]_monitorVars
        => MissInv'
<1> SUFFICES ASSUME ScanInv, HeadInv, NoBlockSkipped, ScansAreExclusive, EraInv, MissInv,
                    [MonitorNext]_monitorVars
             PROVE  MissInv'
  OBVIOUS
<1>1. /\ head \in 0..MaxBlock /\ mhead \in 0..head
      /\ \A s \in Scans : pc[s] = "process" => cur[s] \in 1..head
      /\ pc \in [Scans -> ScanSteps] /\ cur \in [Scans -> 0..MaxBlock + 1] /\ handled \subseteq Nat
  BY MonitorFacts DEF ScanInv, ServiceTyped, ScansTyped, HistoryTyped, Blocks, ScanInChain, HeadInv
<1>2. TxsTyped /\ DeathsSet /\ SenderOnTime /\ HitsTracked
  BY DEF EraInv
<1>3. /\ BlocksKnown /\ HandledAreLate /\ SettledAreLate /\ SkippedAreLate /\ ExpiringAreLate
      /\ MissedOnlyIfPassed
  BY DEF MissInv
<1> USE <1>1, <1>2, <1>3, MonitorFacts DEF Late
<1>4. ASSUME NEW ts \in SUBSET Txs, NewBlockOf(ts) PROVE MissInv'
  <2>1. /\ head' = head + 1
        /\ UNCHANGED <<era, death, status, hits, mpc, mboot, passed, handled, pc, cur>>
        /\ included' = [t \in Txs |-> IF t \in ts THEN head' ELSE included[t]]
        /\ \A t \in ts : InPool(t) /\ head' <= LastValid(t)
        /\ \A t \in Txs : t \notin ts => outcome'[t] = outcome[t]
    BY <1>4 DEF NewBlockOf, NewBlock, cacheVars, blockVars, bootVars, scanVars
  <2>2. \A t \in Txs : era[t] \in Int /\ death[t] \in Int /\ included[t] \in Nat
    BY DEF TxsTyped
  <2>3. \A t \in ts : /\ included[t] = 0 /\ outcome[t] # "neither"
                      /\ era[t] # Unsent /\ (death[t] # 0 => head < death[t])
    BY <2>1, <2>2 DEF InPool, BlocksKnown, DeathsSet, LastValid
  <2>4. \A t \in Txs : Late(t) => Late(t)'
    BY <2>1, <2>3
  <2>5. BlocksKnown'
    BY <2>1, <2>2, <2>3 DEF BlocksKnown, LastValid
  <2>6. HandledAreLate' /\ SkippedAreLate'
    BY <2>1, <2>2, <2>4 DEF HandledAreLate, SkippedAreLate, BlocksKnown
  <2>7. SettledAreLate'
    BY <2>1, <2>4 DEF SettledAreLate
  <2>8. ExpiringAreLate'
    BY <2>1, <2>2, <2>3, <2>4 DEF ExpiringAreLate, HitsTracked, TxsTyped
  <2>9. MissedOnlyIfPassed'
    BY <2>1, <2>2, <2>3, <2>4 DEF MissedOnlyIfPassed, DeathsSet
  <2> QED
    BY <2>5, <2>6, <2>7, <2>8, <2>9 DEF MissInv
<1>5. CASE SendFails \/ \E t \in Txs : ReadBlockNumber(t)
  BY <1>5, MissFrame DEF SendFails, ReadBlockNumber, vars, scanVars, chainVars, cacheVars, bootVars, blockVars
<1>6. CASE Send
  <2>1. /\ sender.step = "send" /\ sender.tx \in Txs
        /\ \A t \in Txs : t # sender.tx => era'[t] = era[t]
        /\ UNCHANGED <<head, included, outcome, status, passed, handled, mboot, mpc, hits, pc, cur>>
    BY <1>6 DEF Send, vars, scanVars, cacheVars, bootVars, blockVars, TxsTyped
  <2>2. included[sender.tx] = 0
    BY <2>1 DEF SenderOnTime, BlocksKnown
  <2>3. BlocksKnown'
    BY <2>1, <2>2 DEF BlocksKnown, LastValid
  <2> QED
    BY <2>1, <2>3 DEF MissInv, HandledAreLate, SettledAreLate, SkippedAreLate, ExpiringAreLate,
       MissedOnlyIfPassed
<1>7. CASE Record
  <2> PICK t \in Txs : t = sender.tx
    BY DEF TxsTyped
  <2>1. /\ status' = [status EXCEPT ![t] = "pending"]
        /\ passed' = IF Passed(included[t]) \/ mboot \in {"head", "skip"} THEN passed \cup {t} ELSE passed
        /\ UNCHANGED <<head, era, included, outcome, handled, mboot, mpc, hits, pc, cur>>
    BY <1>7 DEF Record, vars, scanVars, chainVars, bootVars, blockVars, TxsTyped
  <2>6. passed \subseteq passed' /\ (Passed(included[t]) \/ mboot \in {"head", "skip"} => t \in passed')
    BY <2>1
  <2>2. /\ \A u \in Txs : Late(u) => Late(u)'
        /\ \A u \in Txs : u # t => status'[u] = status[u]
        /\ Passed(included[t]) \/ mboot \in {"head", "skip"} => Late(t)'
        /\ status'[t] = "pending"
    BY <2>1, <2>6 DEF TxsTyped
  <2>3. BlocksKnown'
    BY <2>1 DEF BlocksKnown, LastValid
  <2>4. HandledAreLate' /\ SkippedAreLate'
    BY <2>1, <2>2 DEF HandledAreLate, SkippedAreLate, Passed
  <2>5. SettledAreLate'
    BY <2>1, <2>2 DEF SettledAreLate, Passed
  <2>7. ExpiringAreLate' /\ MissedOnlyIfPassed'
    BY <2>1, <2>2 DEF ExpiringAreLate, MissedOnlyIfPassed, TxsTyped
  <2> QED
    BY <2>3, <2>4, <2>5, <2>7 DEF MissInv
<1>8. ASSUME NEW t \in Txs, Forget(t) PROVE MissInv'
  <2>1. /\ \A u \in Txs : status'[u] = "pending" => status[u] = "pending"
        /\ \A u \in Txs : status'[u] = "expired" => status[u] = "expired"
        /\ UNCHANGED <<head, era, included, outcome, passed, handled, mboot, mpc, hits, pc, cur>>
    BY <1>8 DEF Forget, vars, scanVars, chainVars, bootVars, blockVars, TxsTyped
  <2> QED
    BY <2>1 DEF MissInv, BlocksKnown, LastValid, HandledAreLate, SettledAreLate, SkippedAreLate,
       ExpiringAreLate, MissedOnlyIfPassed
<1>9. CASE CheckPending
  <2>1. /\ UNCHANGED <<head, era, included, outcome, status, passed, handled, mpc, hits, pc, cur>>
        /\ mboot' \in {"head", "done"}
        /\ mboot' = "head" => \A t \in Txs : status[t] # "pending"
    BY <1>9 DEF CheckPending, getAllPendingTxns, vars, scanVars, chainVars, cacheVars, blockVars
  <2> QED
    BY <2>1 DEF MissInv, BlocksKnown, LastValid, HandledAreLate, SettledAreLate, SkippedAreLate,
       ExpiringAreLate, MissedOnlyIfPassed
<1>10. CASE ReadHead
  BY <1>10, MissFrame DEF ReadHead, vars, scanVars, chainVars, cacheVars, blockVars
<1>11. CASE SkipToHead
  <2>1. /\ UNCHANGED <<head, era, included, outcome, status, passed, mpc, hits, pc, cur>>
        /\ mboot = "skip" /\ mboot' = "done" /\ handled' = handled \cup 1..mhead
    BY <1>11 DEF SkipToHead, SkipTo, scanVars, chainVars, cacheVars, blockVars
  <2>2. BlocksKnown'
    BY <2>1 DEF BlocksKnown, LastValid
  <2> QED
    BY <2>1, <2>2 DEF MissInv, HandledAreLate, SettledAreLate, SkippedAreLate, ExpiringAreLate,
       MissedOnlyIfPassed
<1>12. CASE CopyKey
  BY <1>12, MissFrame DEF CopyKey, GetOldKey, NewKeyExists, CopyOldKey, scanVars, ownVars, chainVars,
     cacheVars, bootVars, blockVars
<1>13. CASE Crash \/ \E s \in Scans : SettleThrows(s)
  <2>1. StartAgain /\ LoseMemory
    BY <1>13 DEF Crash, Restart, SettleThrows, MonitorThrows
  <2> QED
    BY <2>1, MissFrame DEF StartAgain, LoseMemory, chainVars, cacheVars
<1>14. ASSUME NEW s \in Scans, ScanOn(s) PROVE MissInv'
  <2>1. UNCHANGED <<head, handled, ownVars>> /\ pc[s] # "process"
    BY <1>14 DEF ScanOn, Call, GetLastSeen, GetHash, CheckScanParameters, SetLastSeen
  <2>2. \A r \in Scans : r # s => pc'[r] = pc[r] /\ cur'[r] = cur[r]
    BY <1>14 DEF ScanOn, Call, GetLastSeen, GetHash, CheckScanParameters, SetLastSeen, StepTo, Return
  <2>3. mpc = "pending" \/ pc'[s] # "process"
    <3>1. pc'[s] = "process" => pc[s] = "param"
      BY <1>14 DEF ScanOn, Call, GetLastSeen, GetHash, CheckScanParameters, SetLastSeen, StepTo, Return
    <3>2. mpc # "pending" => \E r \in Scans : pc[r] = "process"
      BY DEF BlocksKnown
    <3> QED
      BY <3>1, <3>2, <2>1 DEF ScansAreExclusive, Running
  <2> QED
    BY <2>1, <2>2, <2>3, MissFrame DEF ownVars, chainVars, cacheVars, bootVars, blockVars
<1>15. ASSUME NEW s \in Scans, ReadPending(s) PROVE MissInv'
  <2>1. /\ UNCHANGED <<head, era, included, outcome, status, passed, handled, mboot, pc, cur>>
        /\ pc[s] = "process" /\ hits' = {t \in getAllPendingTxns : included[t] = cur[s]}
        /\ mpc' = IF hits' = {} THEN "expiring" ELSE "settle"
    BY <1>15 DEF ReadPending, Processing, vars, scanVars, chainVars, cacheVars, bootVars
  <2>2. \A r \in Scans : pc[r] = "process" => r = s
    BY <2>1 DEF ScansAreExclusive, Running
  <2>3. SettledAreLate'
    BY <2>1, <2>2 DEF SettledAreLate, getAllPendingTxns
  <2> QED
    BY <2>1, <2>3 DEF MissInv, BlocksKnown, LastValid, HandledAreLate, SkippedAreLate,
       ExpiringAreLate, MissedOnlyIfPassed
<1>16. ASSUME NEW s \in Scans, NEW t \in Txs, SettleTx(s, t) PROVE MissInv'
  <2>1. /\ UNCHANGED <<head, era, included, outcome, passed, handled, mboot, pc, cur>>
        /\ status' = [status EXCEPT ![t] = IF outcome[t] = "neither" THEN "pending" ELSE outcome[t]]
        /\ hits' = hits \ {t} /\ mpc = "settle" /\ pc[s] = "process"
        /\ mpc' = IF hits' = {} THEN "get" ELSE "settle"
    BY <1>16 DEF SettleTx, Processing, vars, scanVars, chainVars, bootVars
  <2>2. /\ \A u \in Txs : u # t => status'[u] = status[u]
        /\ status'[t] = "pending" => Late(t)
        /\ status'[t] # "expired"
    BY <2>1 DEF TxsTyped
  <2>3. SettledAreLate'
    BY <2>1, <2>2 DEF SettledAreLate
  <2>4. HandledAreLate' /\ SkippedAreLate' /\ MissedOnlyIfPassed'
    BY <2>1, <2>2 DEF HandledAreLate, SkippedAreLate, MissedOnlyIfPassed
  <2> QED
    BY <2>1, <2>3, <2>4 DEF MissInv, BlocksKnown, LastValid, ExpiringAreLate
<1>17. ASSUME NEW s \in Scans, GetEpochCapacity(s) \/ SetEpochCapacity(s) PROVE MissInv'
  <2>1. /\ UNCHANGED <<head, era, included, outcome, status, passed, handled, mboot, hits, pc, cur>>
        /\ pc[s] = "process" /\ mpc \in {"get", "set"} /\ mpc' \in {"set", "expiring"}
    BY <1>17 DEF GetEpochCapacity, SetEpochCapacity, Processing, vars, scanVars, chainVars, cacheVars, bootVars
  <2> QED
    BY <2>1 DEF MissInv, BlocksKnown, LastValid, HandledAreLate, SettledAreLate, SkippedAreLate,
       ExpiringAreLate, MissedOnlyIfPassed
<1>18. ASSUME NEW s \in Scans, ReadExpired(s) PROVE MissInv'
  <2>1. /\ UNCHANGED <<head, era, included, outcome, status, passed, handled, mboot, pc, cur>>
        /\ pc[s] = "process" /\ mpc = "expiring" /\ mpc' = "expire"
        /\ hits' = {t \in getAllPendingTxns : death[t] <= cur[s]}
    BY <1>18 DEF ReadExpired, Processing, vars, scanVars, chainVars, cacheVars, bootVars
  <2>2. ASSUME NEW t \in hits', included[t] # 0 PROVE Late(t)
    <3>1. /\ t \in Txs /\ status[t] = "pending" /\ death[t] <= cur[s]
          /\ era[t] \in Int /\ included[t] \in Nat /\ death[t] \in Int
      BY <2>1 DEF getAllPendingTxns, TxsTyped
    <3>2. death[t] = era[t] + Period /\ included[t] <= LastValid(t) /\ included[t] <= head
      BY <3>1, <2>2 DEF DeathsSet, BlocksKnown
    <3>3. included[t] < cur[s] /\ included[t] \in Blocks
      BY <3>1, <3>2, <2>1, <2>2 DEF LastValid, Blocks
    <3>4. included[t] \in handled
      BY <3>3 DEF NoBlockSkipped
    <3> QED
      BY <3>1, <3>4, <2>2 DEF HandledAreLate
  <2>3. ExpiringAreLate' /\ SettledAreLate'
    BY <2>1, <2>2 DEF ExpiringAreLate, SettledAreLate
  <2> QED
    BY <2>1, <2>3 DEF MissInv, BlocksKnown, LastValid, HandledAreLate, SkippedAreLate, MissedOnlyIfPassed
<1>19. ASSUME NEW s \in Scans, NEW t \in Txs, ExpireTx(s, t) PROVE MissInv'
  <2>1. /\ UNCHANGED <<head, era, included, outcome, passed, handled, mboot, mpc, pc, cur>>
        /\ status' = [status EXCEPT ![t] = "expired"]
        /\ hits' = hits \ {t} /\ t \in hits /\ mpc = "expire"
    BY <1>19 DEF ExpireTx, Processing, vars, scanVars, chainVars, bootVars
  <2>2. /\ \A u \in Txs : u # t => status'[u] = status[u]
        /\ status'[t] = "expired"
    BY <2>1 DEF TxsTyped
  <2>3. HandledAreLate' /\ SkippedAreLate' /\ SettledAreLate'
    BY <2>1, <2>2 DEF HandledAreLate, SkippedAreLate, SettledAreLate
  <2>4. ExpiringAreLate' /\ MissedOnlyIfPassed'
    BY <2>1, <2>2 DEF ExpiringAreLate, MissedOnlyIfPassed
  <2> QED
    BY <2>1, <2>3, <2>4 DEF MissInv, BlocksKnown, LastValid
<1>20. ASSUME NEW s \in Scans, EndOfBlock(s) PROVE MissInv'
  <2>1. /\ UNCHANGED <<head, era, included, outcome, status, passed, mboot, hits, cur>>
        /\ pc[s] = "process" /\ mpc = "expire" /\ mpc' = "pending"
        /\ handled' = handled \cup {cur[s]}
    BY <1>20 DEF EndOfBlock, Processing, ProcessedBlock, chainVars, cacheVars, bootVars
  <2>2. BlocksKnown' /\ HandledAreLate'
    BY <2>1 DEF BlocksKnown, LastValid, HandledAreLate, SettledAreLate
  <2> QED
    BY <2>1, <2>2 DEF MissInv, SettledAreLate, SkippedAreLate, ExpiringAreLate, MissedOnlyIfPassed
<1>21. CASE UNCHANGED monitorVars
  BY <1>21, MissFrame DEF monitorVars, vars, scanVars, ownVars, chainVars, cacheVars, bootVars, blockVars
<1> QED
  BY <1>4, <1>5, <1>6, <1>7, <1>8, <1>9, <1>10, <1>11, <1>12, <1>13, <1>14, <1>15, <1>16, <1>17, <1>18,
     <1>19, <1>20, <1>21 DEF MonitorNext, Sender, MonitorBoot, ProcessStep

\* A transaction that was included is called expired only when the monitor had passed or
\* skipped its block before it was tracked, or its events told nothing.
THEOREM MissCorrect == MonitorSpec => []MissedOnlyIfPassed
<1>1. MonitorSpec => []ScanInv /\ []NoBlockSkipped
  BY MonitorRefinesScanner, ScanTyped, BlocksOfBase, PTL DEF ScansLikeTheScanner
<1>2. MissInv => MissedOnlyIfPassed
  BY DEF MissInv
<1> QED
  BY <1>1, <1>2, MonitorIsExclusive, HeadInit, HeadNext, EraInit, EraNext, MissInit, MissNext, PTL
     DEF MonitorSpec

(***************************************************************************)
(* Types.                                                                  *)
(***************************************************************************)
LEMMA EpochOfBlock == \A b \in 1..MaxBlock : Epoch(b) \in Epochs
<1> TAKE b \in 1..MaxBlock
<1> DEFINE d == (b - 1) \div EpochLength
<1>1. EpochLength \in Nat \ {0} /\ MaxBlock \in Nat
  BY MonitorAssumption, ScannerAssumption
<1>2. d \in Int /\ d * EpochLength <= b - 1 /\ b - 1 < d * EpochLength + EpochLength
  BY <1>1
<1> HIDE DEF d
<1>3. d >= 0
  <2>1. ~(d < 0)
    BY <1>1, <1>2, Multiples
  <2> QED
    BY <1>2, <2>1
<1>4. d <= d * EpochLength
  BY <1>1, <1>2, <1>3
<1> QED
  BY <1>1, <1>2, <1>3, <1>4 DEF Epoch, Epochs, d

\* Any set of transactions is finite.
LEMMA TxsFinite == \A T \in SUBSET Txs : IsFiniteSet(T) /\ Cardinality(T) \in Nat
<1>1. IsFiniteSet(Txs)
  BY MonitorFacts, FS_Interval DEF Txs
<1> QED
  BY <1>1, FS_Subset, FS_CardinalityType

LEMMA MonitorTypeInit == MonitorInit => MonitorTypeOK
<1> SUFFICES ASSUME MonitorInit PROVE MonitorTypeOK
  OBVIOUS
<1> USE MonitorFacts
<1>1. /\ era \in [Txs -> {Unsent} \cup 0..MaxBlock] /\ included \in [Txs -> 0..MaxBlock]
      /\ outcome \in [Txs -> Outcomes \cup {"none"}] /\ status \in [Txs -> Statuses]
      /\ death \in [Txs -> 0..MaxBlock + Period] /\ used \in [Epochs -> Nat]
  BY DEF MonitorInit, Statuses
<1> QED
  BY <1>1 DEF MonitorInit, MonitorTypeOK

LEMMA MonitorTypeNext ==
    ScanInv /\ HeadInv /\ EraInv /\ EraInv' /\ MonitorTypeOK /\ [MonitorNext]_monitorVars
        => MonitorTypeOK'
<1> SUFFICES ASSUME ScanInv, HeadInv, EraInv, EraInv', MonitorTypeOK, [MonitorNext]_monitorVars
             PROVE  MonitorTypeOK'
  OBVIOUS
<1>1. /\ head \in 0..MaxBlock /\ mhead \in 0..head
      /\ \A s \in Scans : pc[s] = "process" => cur[s] \in 1..MaxBlock
  BY MonitorFacts DEF ScanInv, ServiceTyped, ScanInChain, HeadInv
<1>2. /\ outcome' \in [Txs -> Outcomes \cup {"none"}] /\ status' \in [Txs -> Statuses]
      /\ hits' \subseteq Txs
  BY DEF EraInv, TxsTyped
<1> USE MonitorFacts, <1>1, <1>2
    DEF MonitorTypeOK, vars, chainVars, cacheVars, blockVars, bootVars, ownVars
<1>3. ASSUME NEW ts \in SUBSET Txs, NewBlockOf(ts) PROVE MonitorTypeOK'
  BY <1>3 DEF NewBlockOf, NewBlock
<1>4. CASE (\E t \in Txs : ReadBlockNumber(t)) \/ SendFails
  BY <1>4 DEF ReadBlockNumber, SendFails
<1>5. CASE Send
  BY <1>5 DEF Send
<1>6. CASE Record
  <2>1. era' = era /\ death' = [death EXCEPT ![sender.tx] = Death(era[sender.tx], sender.number)]
    BY <1>6 DEF Record
  <2>2. \A t \in Txs : death'[t] = 0 \/ (era'[t] # Unsent /\ death'[t] = era'[t] + Period)
    BY DEF EraInv, DeathsSet
  <2>3. death' \in [Txs -> 0..MaxBlock + Period]
    BY <2>1, <2>2
  <2> QED
    BY <1>6, <2>1, <2>3 DEF Record
<1>7. ASSUME NEW t \in Txs, Forget(t) PROVE MonitorTypeOK'
  BY <1>7 DEF Forget
<1>8. CASE CheckPending \/ ReadHead \/ SkipToHead \/ CopyKey
  BY <1>8 DEF CheckPending, ReadHead, SkipToHead, CopyKey
<1>9. CASE Crash \/ \E s \in Scans : SettleThrows(s)
  BY <1>9 DEF Crash, SettleThrows, LoseMemory
<1>10. ASSUME NEW s \in Scans, ScanOn(s) PROVE MonitorTypeOK'
  BY <1>10 DEF ScanOn
<1>11. ASSUME NEW s \in Scans, ReadPending(s) PROVE MonitorTypeOK'
  BY <1>11, TxsFinite DEF ReadPending
<1>12. ASSUME NEW s \in Scans, NEW t \in Txs, SettleTx(s, t) \/ ExpireTx(s, t) PROVE MonitorTypeOK'
  BY <1>12 DEF SettleTx, ExpireTx
<1>13. ASSUME NEW s \in Scans, GetEpochCapacity(s) PROVE MonitorTypeOK'
  BY <1>13, EpochOfBlock DEF GetEpochCapacity, Processing
<1>14. ASSUME NEW s \in Scans, SetEpochCapacity(s) PROVE MonitorTypeOK'
  BY <1>14 DEF SetEpochCapacity
<1>15. ASSUME NEW s \in Scans, ReadExpired(s) \/ EndOfBlock(s) PROVE MonitorTypeOK'
  BY <1>15 DEF ReadExpired, EndOfBlock
<1>16. CASE UNCHANGED monitorVars
  BY <1>16 DEF monitorVars
<1> QED
  BY <1>3, <1>4, <1>5, <1>6, <1>7, <1>8, <1>9, <1>10, <1>11, <1>12, <1>13, <1>14, <1>15, <1>16
  DEF MonitorNext, Sender, MonitorBoot, ProcessStep

\* What holds of the monitor's scans, of the eras and of what is missed, all together.
LEMMA MonitorInvariants ==
    MonitorSpec => [](ScanInv /\ HeadInv /\ ScansAreExclusive /\ EraInv /\ MissInv)
<1>1. MonitorSpec => []ScanInv /\ []NoBlockSkipped
  BY MonitorRefinesScanner, ScanTyped, BlocksOfBase, PTL DEF ScansLikeTheScanner
<1> QED
  BY <1>1, MonitorIsExclusive, HeadInit, HeadNext, EraInit, EraNext, MissInit, MissNext, PTL
     DEF MonitorSpec

\* The types of the completion monitor's state.
THEOREM MonitorTypeCorrect == MonitorSpec => []MonitorTypeOK
BY MonitorInvariants, MonitorTypeInit, MonitorTypeNext, PTL DEF MonitorSpec

(***************************************************************************)
(* Capacity.  What is counted for an epoch is at most the transactions     *)
(* that are accounted for: a set C of settled ones whose count is stored,  *)
(* and, while a block is processed, a set A of that block's whose amount   *)
(* is at hand.  A restart forgets A; a transaction in C is not pending and *)
(* is tracked once, so that reading its block again does not find it.      *)
(***************************************************************************)
AllTold == \A t \in Txs : outcome[t] # "neither"
IncludedIn(T, e) == {t \in T : Epoch(included[t]) = e}

Accounts(C, A) ==
    /\ C \cap A = {} /\ Cardinality(A) = amount
    /\ \A t \in C \cup A : included[t] # 0 /\ death[t] # 0
    /\ \A t \in C : status[t] # "pending"
    /\ \A t \in A : status[t] # "pending" \/ t \in hits
    /\ \A s \in Scans : pc[s] = "process" => \A t \in A : included[t] = cur[s]
    /\ mpc = "settle" => hits \subseteq A
    /\ mpc \in {"get", "set"} => hits = {}
    /\ mpc \notin {"settle", "get", "set"} => A = {}
    /\ mpc = "set" => \A s \in Scans : pc[s] = "process" => saved = used[Epoch(cur[s])]
    /\ \A e \in Epochs : used[e] <= Cardinality(IncludedIn(C, e))

CountInv == AllTold => \E C, A \in SUBSET Txs : Accounts(C, A)

LEMMA CountInit == MonitorInit => CountInv
<1> SUFFICES ASSUME MonitorInit PROVE Accounts({}, {})
  BY DEF CountInv
<1>1. \A e \in Epochs : IncludedIn({}, e) = {} /\ used[e] = 0
  BY DEF MonitorInit, IncludedIn
<1> QED
  BY <1>1, FS_EmptySet DEF MonitorInit, Accounts

\* What the block and the cache do besides: nothing that is accounted for changes.
LEMMA CountFrame ==
    ASSUME NEW C \in SUBSET Txs, NEW A \in SUBSET Txs, Accounts(C, A),
           UNCHANGED <<used, mpc, hits, amount, saved>>,
           \A t \in C \cup A : included'[t] = included[t] /\ death'[t] = death[t],
           \A t \in C \cup A : status'[t] \in {status[t], "none"},
           \A s \in Scans : pc'[s] = "process" /\ mpc # "pending" => pc[s] = "process" /\ cur'[s] = cur[s]
    PROVE  Accounts(C, A)'
<1>1. \A e \in Epochs : IncludedIn(C, e)' = IncludedIn(C, e)
  BY DEF IncludedIn
<1>2. \A s \in Scans : pc'[s] = "process" => \A t \in A : included'[t] = cur'[s]
  BY DEF Accounts
<1> QED
  BY <1>1, <1>2 DEF Accounts

LEMMA CountNext ==
    /\ ScanInv /\ HeadInv /\ ScansAreExclusive /\ EraInv /\ MissInv /\ MonitorTypeOK
    /\ CountInv /\ [MonitorNext]_monitorVars
    => CountInv'
<1> SUFFICES ASSUME ScanInv, HeadInv, ScansAreExclusive, EraInv, MissInv, MonitorTypeOK, CountInv,
                    [MonitorNext]_monitorVars, AllTold'
             PROVE  \E C, A \in SUBSET Txs : Accounts(C, A)'
  BY DEF CountInv
<1>1. /\ head \in 0..MaxBlock
      /\ \A s \in Scans : pc[s] = "process" => cur[s] \in 1..MaxBlock
      /\ \A s, r \in Scans : pc[s] = "process" /\ pc[r] = "process" => s = r
      /\ mpc # "pending" => \E s \in Scans : pc[s] = "process"
  BY MonitorFacts DEF ScanInv, ServiceTyped, ScanInChain, ScansAreExclusive, Running, MissInv, BlocksKnown
<1>2. \A t \in Txs : outcome[t] = "neither" => included[t] # 0
  BY DEF MissInv, BlocksKnown
<1> USE <1>1, MonitorFacts DEF MonitorTypeOK
<1>3. AllTold
  <2>1. outcome' = outcome \/ \E ts \in SUBSET Txs : NewBlockOf(ts)
    BY DEF MonitorNext, Sender, ReadBlockNumber, Send, SendFails, Record, MonitorBoot, CheckPending,
       ReadHead, SkipToHead, CopyKey, Crash, SettleThrows, LoseMemory, Forget, ScanOn, ProcessStep,
       ReadPending, GetEpochCapacity, SetEpochCapacity, ReadExpired, SettleTx, ExpireTx, EndOfBlock,
       monitorVars, ownVars, chainVars
  <2>2. ASSUME NEW ts \in SUBSET Txs, NewBlockOf(ts) PROVE AllTold
    <3>1. \A t \in Txs : t \in ts => included[t] = 0
      BY <2>2 DEF NewBlockOf, InPool
    <3>2. \A t \in Txs : t \notin ts => outcome'[t] = outcome[t]
      BY <2>2 DEF NewBlockOf
    <3> QED
      BY <1>2, <3>1, <3>2 DEF AllTold
  <2> QED
    BY <2>1, <2>2 DEF AllTold
<1>4. PICK C \in SUBSET Txs, A \in SUBSET Txs : Accounts(C, A)
  BY <1>3 DEF CountInv
<1>5. \A t \in C \cup A : t \in Txs /\ included[t] # 0 /\ death[t] # 0
  BY <1>4 DEF Accounts
<1>6. SUFFICES ASSUME ~Accounts(C, A)' PROVE \E D, B \in SUBSET Txs : Accounts(D, B)'
  BY <1>4
<1>7. ASSUME NEW ts \in SUBSET Txs, NewBlockOf(ts) PROVE FALSE
  <2>1. \A t \in C \cup A : included'[t] = included[t]
    BY <1>5, <1>7 DEF NewBlockOf, InPool
  <2> QED
    BY <1>4, <1>6, <1>7, <2>1, CountFrame DEF NewBlockOf, NewBlock, scanVars, cacheVars, blockVars
<1>8. CASE SendFails \/ Send \/ \E t \in Txs : ReadBlockNumber(t)
  BY <1>4, <1>6, <1>8, CountFrame
  DEF SendFails, Send, ReadBlockNumber, vars, scanVars, chainVars, cacheVars, blockVars
<1>9. CASE Record
  <2>1. sender.tx \notin C \cup A
    BY <1>5, <1>9 DEF Record, EraInv, SenderOnTime
  <2>2. \A t \in C \cup A : death'[t] = death[t] /\ status'[t] = status[t]
    BY <1>5, <1>9, <2>1 DEF Record
  <2> QED
    BY <1>4, <1>6, <1>9, <2>2, CountFrame DEF Record, vars, scanVars, chainVars, blockVars
<1>10. ASSUME NEW t \in Txs, Forget(t) PROVE FALSE
  <2>1. \A u \in C \cup A : status'[u] \in {status[u], "none"}
    BY <1>5, <1>10 DEF Forget
  <2> QED
    BY <1>4, <1>6, <1>10, <2>1, CountFrame DEF Forget, vars, scanVars, chainVars, blockVars
<1>11. CASE MonitorBoot
  BY <1>4, <1>6, <1>11, CountFrame
  DEF MonitorBoot, CheckPending, ReadHead, SkipToHead, SkipTo, CopyKey, GetOldKey, NewKeyExists, CopyOldKey,
      vars, scanVars, ownVars, chainVars, cacheVars, blockVars
<1>12. CASE Crash \/ \E s \in Scans : SettleThrows(s)
  <2>1. StartAgain /\ LoseMemory
    BY <1>12 DEF Crash, Restart, SettleThrows, MonitorThrows
  <2>2. UNCHANGED <<included, death, status, used>> /\ mpc' = "pending" /\ amount' = 0 /\ hits' = {}
    BY <2>1 DEF LoseMemory, chainVars, cacheVars
  <2>3. \A e \in Epochs : IncludedIn(C, e)' = IncludedIn(C, e)
    BY <2>2 DEF IncludedIn
  <2>4. Accounts(C, {})'
    BY <1>4, <2>2, <2>3, FS_EmptySet DEF Accounts
  <2> QED
    BY <2>4
<1>13. ASSUME NEW s \in Scans, ScanOn(s) PROVE FALSE
  <2>1. \A r \in Scans : r # s => pc'[r] = pc[r] /\ cur'[r] = cur[r]
    BY <1>13 DEF ScanOn, Call, GetLastSeen, GetHash, CheckScanParameters, SetLastSeen, StepTo, Return,
       ScanInv, ScansTyped
  <2>2. mpc # "pending" => pc'[s] # "process"
    <3>1. pc'[s] = "process" => Running(s) /\ pc[s] # "process"
      BY <1>13 DEF ScanOn, Call, GetLastSeen, GetHash, CheckScanParameters, SetLastSeen, StepTo, Return,
         ScanInv, ScansTyped, Running
    <3> QED
      BY <3>1 DEF ScansAreExclusive, Running
  <2> QED
    BY <1>4, <1>6, <1>13, <2>1, <2>2, CountFrame DEF ScanOn, ownVars, chainVars, cacheVars, blockVars
<1>14. ASSUME NEW s \in Scans, ReadPending(s) PROVE \E D, B \in SUBSET Txs : Accounts(D, B)'
  <2>1. /\ UNCHANGED <<pc, cur, included, death, status, used>> /\ pc[s] = "process" /\ mpc = "pending"
        /\ hits' = {t \in Txs : status[t] = "pending" /\ included[t] = cur[s]}
        /\ amount' = Cardinality(hits') /\ mpc' = IF hits' = {} THEN "expiring" ELSE "settle"
    BY <1>14 DEF ReadPending, Processing, getAllPendingTxns, vars, scanVars, chainVars, cacheVars
  <2>2. \A t \in hits' : included[t] # 0 /\ death[t] # 0
    BY <2>1 DEF EraInv, DeathsSet
  <2>3. \A e \in Epochs : IncludedIn(C, e)' = IncludedIn(C, e)
    BY <2>1 DEF IncludedIn
  <2>4. PICK B \in SUBSET Txs : B = hits'
    BY <2>1
  <2>5. Accounts(C, B)'
    BY <1>4, <2>1, <2>2, <2>3, <2>4 DEF Accounts
  <2> QED
    BY <2>5
<1>15. ASSUME NEW s \in Scans, NEW t \in Txs, SettleTx(s, t) PROVE FALSE
  <2>1. /\ UNCHANGED <<pc, cur, included, death, used, amount>> /\ mpc = "settle" /\ t \in hits
        /\ status' = [status EXCEPT ![t] = IF outcome[t] = "neither" THEN "pending" ELSE outcome[t]]
        /\ hits' = hits \ {t} /\ mpc' = IF hits' = {} THEN "get" ELSE "settle"
    BY <1>15 DEF SettleTx, Processing, vars, scanVars, chainVars
  <2>2. status'[t] # "pending" /\ \A u \in Txs : u # t => status'[u] = status[u]
    BY <1>3, <2>1 DEF AllTold
  <2>3. \A e \in Epochs : IncludedIn(C, e)' = IncludedIn(C, e)
    BY <2>1 DEF IncludedIn
  <2> QED
    BY <1>4, <1>5, <1>6, <2>1, <2>2, <2>3 DEF Accounts
<1>16. ASSUME NEW s \in Scans, GetEpochCapacity(s) PROVE FALSE
  <2>1. /\ UNCHANGED <<pc, cur, included, death, status, used, hits, amount>> /\ mpc = "get" /\ mpc' = "set"
        /\ pc[s] = "process" /\ saved' = used[Epoch(cur[s])]
    BY <1>16 DEF GetEpochCapacity, Processing, vars, scanVars, chainVars, cacheVars
  <2>2. \A e \in Epochs : IncludedIn(C, e)' = IncludedIn(C, e)
    BY <2>1 DEF IncludedIn
  <2> QED
    BY <1>4, <1>6, <2>1, <2>2 DEF Accounts
<1>17. ASSUME NEW s \in Scans, SetEpochCapacity(s) PROVE \E D, B \in SUBSET Txs : Accounts(D, B)'
  <2>1. /\ UNCHANGED <<pc, cur, included, death, status, hits>> /\ mpc = "set" /\ mpc' = "expiring"
        /\ amount' = 0 /\ pc[s] = "process" /\ hits = {}
        /\ used' = [used EXCEPT ![Epoch(cur[s])] = saved + amount] \/ used' = used
    BY <1>4, <1>17 DEF SetEpochCapacity, Processing, vars, scanVars, chainVars, Accounts
  <2> DEFINE D == C \cup A
             b == Epoch(cur[s])
  <2>2. saved = used[b] /\ b \in Epochs /\ Cardinality(A) = amount
    BY <1>4, <2>1, EpochOfBlock DEF Accounts
  <2>3. \A t \in A : Epoch(included[t]) = b
    BY <1>4, <2>1 DEF Accounts
  <2>4. ASSUME NEW e \in Epochs PROVE used'[e] <= Cardinality(IncludedIn(D, e)')
    <3> DEFINE I == IncludedIn(C, e)
    <3>1. used[e] <= Cardinality(I)
      BY <1>4 DEF Accounts
    <3>2. I \in SUBSET Txs /\ I \cap A = {} /\ IsFiniteSet(I) /\ IsFiniteSet(A) /\ IsFiniteSet(I \cup A)
      BY <1>4, TxsFinite DEF Accounts, IncludedIn
    <3>3. Cardinality(I \cup A) = Cardinality(I) + Cardinality(A)
      <4>1. Cardinality(I \cup A) = Cardinality(I) + Cardinality(A) - Cardinality(I \cap A)
        BY <3>2, FS_Union
      <4> QED
        BY <3>2, <4>1, FS_EmptySet, TxsFinite
    <3>4. CASE e = b
      <4>1. IncludedIn(D, e)' = I \cup A
        BY <2>1, <2>3, <3>4 DEF IncludedIn
      <4>2. used'[e] \in {used[e] + amount, used[e]}
        BY <2>1, <2>2, <3>4
      <4> HIDE DEF I, D, b
      <4> QED
        BY <2>2, <3>1, <3>2, <3>3, <4>1, <4>2, TxsFinite
    <3>5. CASE e # b
      <4>1. IncludedIn(D, e)' = I
        BY <2>1, <2>3, <3>5 DEF IncludedIn
      <4>2. used'[e] = used[e]
        BY <2>1, <2>2, <3>5
      <4> QED
        BY <3>1, <4>1, <4>2
    <3> QED
      BY <3>4, <3>5
  <2>5. Accounts(D, {})'
    <3>1. \A t \in D : included'[t] # 0 /\ death'[t] # 0 /\ status'[t] # "pending"
      BY <1>4, <2>1 DEF Accounts
    <3> HIDE DEF D
    <3> QED
      BY <2>1, <2>4, <3>1, FS_EmptySet DEF Accounts
  <2> QED
    BY <2>5
<1>18. ASSUME NEW s \in Scans, ReadExpired(s) \/ EndOfBlock(s) PROVE FALSE
  <2>1. /\ UNCHANGED <<included, death, status, used, amount>>
        /\ mpc \in {"expiring", "expire"} /\ mpc' \in {"expire", "pending"}
    BY <1>18 DEF ReadExpired, EndOfBlock, Processing, chainVars, cacheVars
  <2>2. A = {} /\ \A e \in Epochs : IncludedIn(C, e)' = IncludedIn(C, e)
    BY <1>4, <2>1 DEF Accounts, IncludedIn
  <2> QED
    BY <1>4, <1>6, <2>1, <2>2 DEF Accounts
<1>19. ASSUME NEW s \in Scans, NEW t \in Txs, ExpireTx(s, t) PROVE FALSE
  <2>1. /\ UNCHANGED <<included, death, used, amount, mpc>> /\ mpc = "expire"
        /\ status' = [status EXCEPT ![t] = "expired"]
    BY <1>19 DEF ExpireTx, Processing, chainVars
  <2>2. A = {} /\ \A e \in Epochs : IncludedIn(C, e)' = IncludedIn(C, e)
    BY <1>4, <2>1 DEF Accounts, IncludedIn
  <2>3. \A u \in C : status'[u] # "pending"
    BY <1>4, <1>5, <2>1 DEF Accounts
  <2> QED
    BY <1>4, <1>6, <2>1, <2>2, <2>3 DEF Accounts
<1>20. CASE UNCHANGED monitorVars
  BY <1>4, <1>6, <1>20, CountFrame DEF monitorVars, vars, scanVars, ownVars, chainVars, cacheVars, blockVars
<1> QED
  BY <1>7, <1>8, <1>9, <1>10, <1>11, <1>12, <1>13, <1>14, <1>15, <1>16, <1>17, <1>18, <1>19, <1>20
  DEF MonitorNext, Sender, ProcessStep

LEMMA AccountsBound == MonitorTypeOK /\ CountInv => NeverOvercounted
<1> SUFFICES ASSUME MonitorTypeOK, CountInv, AllTold, NEW e \in Epochs
             PROVE  used[e] <= Cardinality({t \in Txs : included[t] # 0 /\ Epoch(included[t]) = e})
  BY DEF NeverOvercounted, AllTold
<1> DEFINE I == {t \in Txs : included[t] # 0 /\ Epoch(included[t]) = e}
<1>1. PICK C \in SUBSET Txs, A \in SUBSET Txs : Accounts(C, A)
  BY DEF CountInv
<1>2. IncludedIn(C, e) \subseteq I /\ used[e] <= Cardinality(IncludedIn(C, e)) /\ used[e] \in Nat
  BY <1>1 DEF Accounts, IncludedIn, MonitorTypeOK
<1>3. IsFiniteSet(I) /\ Cardinality(I) \in Nat
  BY TxsFinite
<1> HIDE DEF I
<1>4. IsFiniteSet(IncludedIn(C, e)) /\ Cardinality(IncludedIn(C, e)) \in Nat
  BY <1>2, <1>3, FS_Subset, FS_CardinalityType
<1>5. Cardinality(IncludedIn(C, e)) <= Cardinality(I)
  BY <1>2, <1>3, FS_Subset
<1> QED
  BY <1>2, <1>3, <1>4, <1>5 DEF I

\* The capacity of a transaction is counted once, whatever restarts and blocks that are read
\* again: never more is stored for an epoch than was included in it.
THEOREM CapacityCorrect == MonitorSpec => []NeverOvercounted
<1>1. MonitorSpec => []MonitorTypeOK
  BY MonitorTypeCorrect
<1> QED
  BY <1>1, MonitorInvariants, CountInit, CountNext, AccountsBound, PTL DEF MonitorSpec
=============================================================================
