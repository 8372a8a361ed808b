---------------------- MODULE BlockchainScannerProofs ----------------------
(***************************************************************************)
(* Proofs about BlockchainScanner, for every chain, every number of calls  *)
(* of scan() and every number of restarts.                                 *)
(***************************************************************************)
EXTENDS BlockchainScanner, TLAPS

\* Where a scan can be: never behind block 1, never further than one block
\* after the end of the chain, and on a block of the chain while it works on it.
ScanInChain ==
    /\ lastSeen <= head /\ Legacy <= head
    /\ boot = "copy" => Legacy # NoKey
    /\ \A s \in Scans :
        /\ pc[s] = "hash" => cur[s] \in 1..head + 1
        /\ pc[s] \in {"param", "process", "set"} => cur[s] \in 1..head
        /\ pc[s] \in {"idle", "check", "lastSeen"} => cur[s] = 0
        /\ \A u \in Users : todo[s][u] # "none" =>
            pc[s] = "process" /\ u \in Delegators[cur[s]]

ScanInv == ServiceTyped /\ ScansTyped /\ HistoryTyped /\ ScanInChain

LEMMA ScannerFacts ==
    /\ MaxBlock \in Nat /\ MaxCrashes \in Nat /\ Legacy \in -1..MaxBlock /\ NoKey = -1
    /\ Delegators \in [Blocks -> SUBSET Users] /\ Delegations \in BOOLEAN
  BY ScannerAssumption DEF NoKey

LEMMA NoPlanTyped == NoPlan \in [Users -> Plans] /\ \A u \in Users : NoPlan[u] = "none"
  BY DEF NoPlan, Plans

\* A restart leaves no call of scan() behind.
LEMMA StartAgainInv ==
    ASSUME ScanInv, StartAgain, crashes' \in 0..MaxCrashes
    PROVE  ScanInv'
  <1>1. ServiceTyped' /\ HistoryTyped'
    BY DEF ScanInv, ServiceTyped, HistoryTyped, StartAgain, jobVars
  <1>2. ScansTyped'
    BY ScannerFacts, NoPlanTyped DEF ScansTyped, StartAgain, ScanSteps
  <1>3. ScanInChain'
    BY ScannerFacts, NoPlanTyped DEF ScanInv, ScanInChain, StartAgain
  <1> QED
    BY <1>1, <1>2, <1>3 DEF ScanInv

\* The types hold, and a scan stays within the chain.
THEOREM ScanTyped == BaseSpec => []ScanInv
<1>1. Init => ScanInv
  <2> SUFFICES ASSUME Init PROVE ScanInv
    OBVIOUS
  <2>1. ServiceTyped /\ HistoryTyped
    BY ScannerFacts DEF Init, ServiceTyped, HistoryTyped, JobPlaces, Blocks
  <2>2. ScansTyped
    BY ScannerFacts, NoPlanTyped DEF Init, ScansTyped, ScanSteps
  <2>3. ScanInChain
    BY ScannerFacts, NoPlanTyped DEF Init, ScanInChain
  <2> QED
    BY <2>1, <2>2, <2>3 DEF ScanInv
<1>2. ScanInv /\ [BaseNext]_vars => ScanInv'
  <2> SUFFICES ASSUME ScanInv, [BaseNext]_vars PROVE ScanInv'
    OBVIOUS
  <2> USE ScannerFacts DEF ScanInv, ServiceTyped, ScansTyped, HistoryTyped, ScanInChain, scanVars, jobVars
  <2>1. CASE \E h \in 0..head : SkipTo(h)
    BY <2>1 DEF SkipTo, Blocks
  <2>2. CASE GetOldKey
    BY <2>2 DEF GetOldKey
  <2>3. CASE NewKeyExists
    BY <2>3 DEF NewKeyExists
  <2>4. CASE CopyOldKey
    BY <2>4 DEF CopyOldKey
  <2>5. CASE NewBlock
    BY <2>5 DEF NewBlock
  <2>6. CASE Restart
    BY <2>6, StartAgainInv DEF Restart
  <2>7. ASSUME NEW s \in Scans, Call(s) PROVE ScanInv'
    BY <2>7 DEF Call, StepTo, ScanSteps
  <2>8. ASSUME NEW s \in Scans, NEW u \in Users, ScanThrows(s, u) PROVE ScanInv'
    BY <2>8, StartAgainInv DEF ScanThrows
  <2>20. ASSUME NEW s \in Scans, MonitorThrows(s) PROVE ScanInv'
    BY <2>20, StartAgainInv DEF MonitorThrows
  <2>9. ASSUME NEW s \in Scans, CheckInitialScanParameters(s) PROVE ScanInv'
    BY <2>9 DEF CheckInitialScanParameters, StepTo, ScanSteps
  <2>10. ASSUME NEW s \in Scans, GetLastSeen(s) PROVE ScanInv'
    BY <2>10 DEF GetLastSeen, StepTo, ScanSteps
  <2>11. ASSUME NEW s \in Scans, GetHash(s) PROVE ScanInv'
    <3>1. /\ ServiceTyped' /\ HistoryTyped'
          /\ UNCHANGED <<head, lastSeen, boot, todo>> /\ pc[s] = "hash"
      BY <2>11 DEF GetHash
    <3> HIDE DEF ServiceTyped, HistoryTyped
    <3>2. CASE cur[s] > head
      <4>1. pc' = [pc EXCEPT ![s] = "idle"] /\ cur' = [cur EXCEPT ![s] = 0]
        BY <2>11, <3>2 DEF GetHash, Return, StepTo
      <4> QED
        BY <3>1, <4>1 DEF ScanSteps
    <3>3. CASE ~(cur[s] > head)
      <4>1. pc' = [pc EXCEPT ![s] = "param"] /\ UNCHANGED <<cur, inProgress>>
        BY <2>11, <3>3 DEF GetHash, StepTo
      <4>2. cur[s] \in 0..head
        BY <3>1, <3>3 DEF ServiceTyped
      <4> QED
        BY <3>1, <4>1, <4>2 DEF ScanSteps
    <3> QED
      BY <3>2, <3>3
  <2>12. ASSUME NEW s \in Scans, CheckScanParameters(s) PROVE ScanInv'
    <3>1. ServiceTyped' /\ HistoryTyped' /\ UNCHANGED <<head, lastSeen, boot>> /\ pc[s] = "param"
      BY <2>12 DEF CheckScanParameters
    <3>2. CASE Return(s) /\ UNCHANGED todo
      BY <3>1, <3>2 DEF Return, StepTo, ScanSteps
    <3>3. CASE /\ StepTo(s, "process") /\ cur' = cur
               /\ todo' = [todo EXCEPT ![s] =
                      [u \in Users |-> IF u \in Delegators[cur[s]] THEN "look" ELSE "none"]]
      <4> DEFINE plan == [u \in Users |-> IF u \in Delegators[cur[s]] THEN "look" ELSE "none"]
      <4>1. plan \in [Users -> Plans] /\ \A u \in Users : plan[u] # "none" => u \in Delegators[cur[s]]
        BY DEF Plans
      <4>2. todo' = [todo EXCEPT ![s] = plan]
        BY <3>3
      <4> HIDE DEF plan
      <4>3. pc' = [pc EXCEPT ![s] = "process"] /\ cur' = cur
        BY <3>3 DEF StepTo
      <4> QED
        BY <3>1, <4>1, <4>2, <4>3 DEF ScanSteps
    <3> QED
      BY <2>12, <3>2, <3>3 DEF CheckScanParameters
  <2>13. ASSUME NEW s \in Scans, NEW u \in Users, LookAtJob(s, u) PROVE ScanInv'
    BY <2>13 DEF LookAtJob, Plans
  <2>14. ASSUME NEW s \in Scans, NEW u \in Users, AddJob(s, u) PROVE ScanInv'
    BY <2>14 DEF AddJob, Asks, Plans, JobPlaces, Delegated, Blocks
  <2>15. ASSUME NEW s \in Scans, NEW u \in Users, RetryJob(s, u) PROVE ScanInv'
    BY <2>15 DEF RetryJob, Asks, Plans, JobPlaces, Delegated, Blocks
  <2>16. ASSUME NEW s \in Scans, ProcessedBlock(s) PROVE ScanInv'
    <3>1. cur[s] \in Blocks /\ \A u \in Users : todo[s][u] = "none"
      BY <2>16, NoPlanTyped DEF ProcessedBlock, Blocks
    <3>2. HistoryTyped'
      BY <2>16, <3>1 DEF ProcessedBlock
    <3> HIDE DEF HistoryTyped
    <3> QED
      BY <2>16, <3>1, <3>2 DEF ProcessedBlock, StepTo, ScanSteps
  <2>17. ASSUME NEW s \in Scans, SetLastSeen(s) PROVE ScanInv'
    BY <2>17 DEF SetLastSeen, StepTo, ScanSteps
  <2>18. ASSUME NEW u \in Users, JobStep(u) PROVE ScanInv'
    <3>1. UNCHANGED <<head, lastSeen, boot, pc, cur, todo, asked, handled, crashes>>
      BY <2>18 DEF JobStep, JobFrame
    <3>2. served' \cup joined' \subseteq asked'
      BY <2>18, <3>1
      DEF JobStep, PickJob, FetchGraph, AwaitTracked, Since, JobFails, JobRunsAgain, Resolve, Unserved
    <3>3. job' \in [Users -> JobPlaces]
      BY <2>18
      DEF JobStep, PickJob, FetchGraph, AwaitTracked, JobFails, JobRunsAgain, Resolve, Moves, JobPlaces
    <3> QED
      BY <3>1, <3>2, <3>3
  <2>19. CASE UNCHANGED vars
    BY <2>19 DEF vars
  <2> QED
    BY <2>1, <2>2, <2>3, <2>4, <2>5, <2>6, <2>7, <2>8, <2>9, <2>10, <2>11, <2>12, <2>13, <2>14, <2>15,
       <2>16, <2>17, <2>18, <2>19, <2>20 DEF BaseNext, MonitorStep, Next, Boot, ScanStep
<1> QED
  BY <1>1, <1>2, PTL DEF BaseSpec

\* Hence they hold of the delegation scanner, whose steps are some of BaseNext.
LEMMA SpecIsBase == Spec => BaseSpec
<1>1. [Next]_vars => [BaseNext]_vars
  BY DEF BaseNext
<1> QED
  BY <1>1, PTL DEF Spec, BaseSpec

\* Type correctness of the scanner.
THEOREM ScannerTypeCorrect == Spec => []TypeOK
<1>1. Init => inProgress \in BOOLEAN
  BY DEF Init
<1>2. inProgress \in BOOLEAN /\ [Next]_vars => (inProgress \in BOOLEAN)'
  BY DEF Next, vars, scanVars, Boot, GetOldKey, NewKeyExists, CopyOldKey, NewBlock, Restart,
         ScanThrows, StartAgain, Call, ScanStep, CheckInitialScanParameters, GetLastSeen, GetHash, Return,
         CheckScanParameters, LookAtJob, AddJob, RetryJob, Asks, ProcessedBlock, SetLastSeen, JobStep, JobFrame
<1> QED
  BY <1>1, <1>2, ScanTyped, SpecIsBase, PTL DEF Spec, ScanInv, TypeOK

(***************************************************************************)
(* No block is skipped.  The invariant adds what the two steps that move   *)
(* the marks rely on: the block a scan is about to record is handled, and  *)
(* so are the blocks of the older version.                                 *)
(***************************************************************************)
BlocksInv ==
    /\ NoBlockSkipped
    /\ \A b \in Blocks : b <= Legacy => b \in handled
    /\ \A s \in Scans : pc[s] = "set" => cur[s] \in handled

LEMMA BlocksFrame ==
    ASSUME BlocksInv, handled \subseteq handled', lastSeen' = lastSeen,
           \A s \in Scans : cur'[s] = cur[s] \/ cur'[s] = 0,
           \A s \in Scans : pc'[s] = "set" => pc[s] = "set" /\ cur'[s] = cur[s]
    PROVE  BlocksInv'
  <1>1. \A s \in Scans, b \in Blocks : b < cur'[s] => b < cur[s]
    BY ScannerFacts DEF Blocks
  <1> QED
    BY <1>1 DEF BlocksInv, NoBlockSkipped

LEMMA StartAgainBlocks == ASSUME BlocksInv, StartAgain PROVE BlocksInv'
  BY BlocksFrame DEF StartAgain

\* Every block up to the one recorded in Redis is handled, and scans go through
\* the blocks without a gap, whatever scans overlap and whenever the service
\* restarts.
THEOREM BlocksOfBase == BaseSpec => []NoBlockSkipped
<1>1. Init => BlocksInv
  BY ScannerFacts DEF Init, BlocksInv, NoBlockSkipped, Blocks
<1>2. ScanInv /\ BlocksInv /\ [BaseNext]_vars => BlocksInv'
  <2> SUFFICES ASSUME ScanInv, BlocksInv, [BaseNext]_vars PROVE BlocksInv'
    OBVIOUS
  <2> USE DEF ScanInv, ServiceTyped, ScansTyped, HistoryTyped, ScanInChain, scanVars, jobVars
  <2>1. CASE \E h \in 0..head : SkipTo(h)
    BY <2>1, ScannerFacts DEF SkipTo, BlocksInv, NoBlockSkipped, Blocks
  <2>2. CASE CopyOldKey
    BY <2>2 DEF CopyOldKey, BlocksInv, NoBlockSkipped
  <2>3. CASE GetOldKey \/ NewKeyExists \/ NewBlock
    BY <2>3, BlocksFrame DEF GetOldKey, NewKeyExists, NewBlock
  <2>4. CASE Restart
    BY <2>4, StartAgainBlocks DEF Restart
  <2>5. ASSUME NEW s \in Scans, NEW u \in Users, ScanThrows(s, u) PROVE BlocksInv'
    BY <2>5, StartAgainBlocks DEF ScanThrows
  <2>15. ASSUME NEW s \in Scans, MonitorThrows(s) PROVE BlocksInv'
    BY <2>15, StartAgainBlocks DEF MonitorThrows
  <2>6. ASSUME NEW s \in Scans, Call(s) \/ CheckInitialScanParameters(s) PROVE BlocksInv'
    BY <2>6, BlocksFrame DEF Call, CheckInitialScanParameters, StepTo
  <2>7. ASSUME NEW s \in Scans, GetLastSeen(s) PROVE BlocksInv'
    BY <2>7, ScannerFacts DEF GetLastSeen, StepTo, BlocksInv, NoBlockSkipped, Blocks
  <2>8. ASSUME NEW s \in Scans, GetHash(s) PROVE BlocksInv'
    BY <2>8, BlocksFrame DEF GetHash, Return, StepTo
  <2>9. ASSUME NEW s \in Scans, CheckScanParameters(s) PROVE BlocksInv'
    BY <2>9, BlocksFrame DEF CheckScanParameters, Return, StepTo
  <2>10. ASSUME NEW s \in Scans, NEW u \in Users, LookAtJob(s, u) \/ AddJob(s, u) \/ RetryJob(s, u)
         PROVE  BlocksInv'
    BY <2>10, BlocksFrame DEF LookAtJob, AddJob, RetryJob, Asks
  <2>11. ASSUME NEW s \in Scans, ProcessedBlock(s) PROVE BlocksInv'
    BY <2>11 DEF ProcessedBlock, StepTo, BlocksInv, NoBlockSkipped
  <2>12. ASSUME NEW s \in Scans, SetLastSeen(s) PROVE BlocksInv'
    BY <2>12, ScannerFacts DEF SetLastSeen, StepTo, BlocksInv, NoBlockSkipped, Blocks
  <2>13. ASSUME NEW u \in Users, JobStep(u) PROVE BlocksInv'
    BY <2>13, BlocksFrame DEF JobStep, JobFrame
  <2>14. CASE UNCHANGED vars
    BY <2>14, BlocksFrame DEF vars
  <2> QED
    BY <2>1, <2>2, <2>3, <2>4, <2>5, <2>6, <2>7, <2>8, <2>9, <2>10, <2>11, <2>12, <2>13, <2>14, <2>15
       DEF BaseNext, MonitorStep, Next, Boot, ScanStep
<1> QED
  BY <1>1, <1>2, ScanTyped, PTL DEF BaseSpec, BlocksInv

\* In particular the delegation scanner steps over no block.
THEOREM BlocksCorrect == Spec => []NoBlockSkipped
BY BlocksOfBase, SpecIsBase

(***************************************************************************)
(* The completion monitor tests and sets scanInProgress without an await   *)
(* in between.                                                             *)
(***************************************************************************)
FlagInv ==
    /\ ScansAreExclusive
    /\ \A s \in Scans : pc[s] # "check" /\ (Running(s) => inProgress)

LEMMA FlagFrame ==
    ASSUME FlagInv, inProgress' = inProgress,
           \A s \in Scans : (Running(s)' => Running(s)) /\ pc'[s] # "check"
    PROVE  FlagInv'
  BY DEF FlagInv, ScansAreExclusive

LEMMA StartAgainFlag == ASSUME StartAgain PROVE FlagInv'
  BY DEF StartAgain, FlagInv, ScansAreExclusive, Running

\* Two scans of the completion monitor never run at the same time.
THEOREM MonitorScansAreExclusive ==
    ASSUME ~Delegations PROVE BaseSpec => []ScansAreExclusive
<1>1. Init => FlagInv
  BY DEF Init, FlagInv, ScansAreExclusive, Running
<1>2. ScanInv /\ FlagInv /\ [BaseNext]_vars => FlagInv'
  <2> SUFFICES ASSUME ScanInv, FlagInv, [BaseNext]_vars PROVE FlagInv'
    OBVIOUS
  <2> USE DEF ScanInv, ServiceTyped, ScansTyped, scanVars, jobVars
  <2>1. CASE Boot \/ (\E h \in 0..head : SkipTo(h)) \/ NewBlock \/ UNCHANGED vars
    BY <2>1, FlagFrame DEF Boot, SkipTo, GetOldKey, NewKeyExists, CopyOldKey, NewBlock, vars, Running, FlagInv
  <2>2. ASSUME Restart \/ \E s \in Scans : MonitorThrows(s) \/ \E u \in Users : ScanThrows(s, u)
        PROVE  FlagInv'
    BY <2>2, StartAgainFlag DEF Restart, MonitorThrows, ScanThrows
  <2>3. ASSUME NEW s \in Scans, Call(s) PROVE FlagInv'
    BY <2>3 DEF Call, StepTo, FlagInv, ScansAreExclusive, Running
  <2>4. ASSUME NEW s \in Scans, CheckInitialScanParameters(s) PROVE FlagInv'
    BY <2>4 DEF CheckInitialScanParameters, FlagInv
  <2>5. ASSUME NEW s \in Scans,
               GetLastSeen(s) \/ ProcessedBlock(s) \/ SetLastSeen(s)
        PROVE  FlagInv'
    BY <2>5, FlagFrame DEF GetLastSeen, ProcessedBlock, SetLastSeen, StepTo, Running, FlagInv
  <2>6. ASSUME NEW s \in Scans, GetHash(s) PROVE FlagInv'
    <3>1. CASE cur[s] > head
      BY <2>6, <3>1 DEF GetHash, Return, StepTo, FlagInv, ScansAreExclusive, Running
    <3>2. CASE ~(cur[s] > head)
      BY <2>6, <3>2, FlagFrame DEF GetHash, StepTo, Running, FlagInv
    <3> QED
      BY <3>1, <3>2
  <2>7. ASSUME NEW s \in Scans, CheckScanParameters(s) PROVE FlagInv'
    BY <2>7, FlagFrame DEF CheckScanParameters, StepTo, Running, FlagInv
  <2>8. ASSUME NEW s \in Scans, NEW u \in Users, LookAtJob(s, u) \/ AddJob(s, u) \/ RetryJob(s, u)
        PROVE  FlagInv'
    BY <2>8, FlagFrame DEF LookAtJob, AddJob, RetryJob, Asks, Running, FlagInv
  <2>9. ASSUME NEW u \in Users, JobStep(u) PROVE FlagInv'
    BY <2>9, FlagFrame DEF JobStep, JobFrame, Running, FlagInv
  <2> QED
    BY <2>1, <2>2, <2>3, <2>4, <2>5, <2>6, <2>7, <2>8, <2>9 DEF BaseNext, MonitorStep, Next, ScanStep
<1> QED
  BY <1>1, <1>2, ScanTyped, PTL DEF BaseSpec, FlagInv

(***************************************************************************)
(* A user's job is only there because an update was asked for the user.    *)
(* If every user delegates once, the update that is asked for first finds  *)
(* no job of the user parked.                                              *)
(***************************************************************************)
OneDelegationEach ==
    \A b, c \in Blocks : \A u \in Delegators[b] \cap Delegators[c] : b = c

JobsAreAskedFor ==
    \A u \in Users : job[u] # "absent" => \E b \in Blocks : <<b, u>> \in asked

DelegationInv == DelegationNotLost /\ JobsAreAskedFor

LEMMA DelegationFrame ==
    ASSUME DelegationInv, UNCHANGED jobVars
    PROVE  DelegationInv'
  BY DEF DelegationInv, DelegationNotLost, JobsAreAskedFor, jobVars

\* While every user delegates once, no delegation is lost, overlapping scans, retries and
\* restarts notwithstanding, except by a job that finds the user's transactions tracked (:117)
\* when it runs and waits for them instead of fetching the graph.
THEOREM DelegationKept ==
    ASSUME OneDelegationEach PROVE Spec => []DelegationNotLost
<1>1. Init => DelegationInv
  BY DEF Init, DelegationInv, DelegationNotLost, JobsAreAskedFor
<1>2. ScanInv /\ DelegationInv /\ [Next]_vars => DelegationInv'
  <2> SUFFICES ASSUME ScanInv, DelegationInv, [Next]_vars PROVE DelegationInv'
    OBVIOUS
  <2> USE DEF ScanInv, ServiceTyped, ScansTyped, HistoryTyped, ScanInChain
  <2>1. CASE Boot \/ NewBlock \/ UNCHANGED vars
    BY <2>1, DelegationFrame DEF Boot, GetOldKey, NewKeyExists, CopyOldKey, NewBlock, vars
  <2>2. ASSUME Restart \/ \E s \in Scans, u \in Users : ScanThrows(s, u)
        PROVE  DelegationInv'
    BY <2>2, DelegationFrame DEF Restart, ScanThrows, StartAgain
  <2>3. ASSUME NEW s \in Scans,
               Call(s) \/ CheckInitialScanParameters(s) \/ GetLastSeen(s) \/ GetHash(s)
               \/ CheckScanParameters(s) \/ ProcessedBlock(s) \/ SetLastSeen(s)
        PROVE  DelegationInv'
    BY <2>3, DelegationFrame
       DEF Call, CheckInitialScanParameters, GetLastSeen, GetHash, CheckScanParameters, ProcessedBlock, SetLastSeen
  <2>4. ASSUME NEW s \in Scans, NEW u \in Users, LookAtJob(s, u) PROVE DelegationInv'
    BY <2>4, DelegationFrame DEF LookAtJob
  <2>5. ASSUME NEW s \in Scans, NEW u \in Users, AddJob(s, u) PROVE DelegationInv'
    <3>1. cur[s] \in Blocks /\ u \in Delegators[cur[s]]
      BY <2>5, ScannerFacts DEF AddJob, Blocks
    <3>2. <<cur[s], u>> \notin asked => job[u] = "absent"
      <4> SUFFICES ASSUME job[u] # "absent" PROVE <<cur[s], u>> \in asked
        OBVIOUS
      <4>1. PICK b \in Blocks : <<b, u>> \in asked
        BY DEF DelegationInv, JobsAreAskedFor
      <4>2. u \in Delegators[b]
        BY <4>1 DEF Delegated
      <4> QED
        BY <3>1, <4>1, <4>2 DEF OneDelegationEach
    <3>3. /\ asked' = asked \cup {<<cur[s], u>>} /\ UNCHANGED <<served, joined>>
          /\ job' = [job EXCEPT ![u] = IF job[u] = "absent" THEN "waiting" ELSE job[u]]
      BY <2>5 DEF AddJob, Asks
    <3>4. JobsAreAskedFor'
      BY <3>1, <3>3 DEF DelegationInv, JobsAreAskedFor
    <3>5. ASSUME NEW d \in asked' \ (served' \cup joined') PROVE job'[d[2]] \in {"waiting", "active", "failed"}
      <4>1. CASE d \in asked
        <5>1. d[2] \in Users
          BY <4>1 DEF Delegated
        <5> QED
          BY <3>3, <3>5, <4>1, <5>1 DEF DelegationInv, DelegationNotLost
      <4>2. CASE d \notin asked
        <5>1. d = <<cur[s], u>> /\ job[u] = "absent"
          BY <3>2, <3>3, <3>5, <4>2
        <5>2. d[2] = u
          BY <5>1
        <5> QED
          BY <3>3, <5>1, <5>2
      <4> QED
        BY <4>1, <4>2
    <3> QED
      BY <3>4, <3>5 DEF DelegationInv, DelegationNotLost
  <2>6. ASSUME NEW s \in Scans, NEW u \in Users, RetryJob(s, u) PROVE DelegationInv'
    <3>1. cur[s] \in Blocks
      BY <2>6, ScannerFacts DEF RetryJob, Blocks
    <3>2. /\ asked' = asked \cup {<<cur[s], u>>} /\ UNCHANGED <<served, joined>>
          /\ job' = [job EXCEPT ![u] = "waiting"]
      BY <2>6 DEF RetryJob, Asks
    <3>3. DelegationNotLost'
      BY <3>2 DEF DelegationInv, DelegationNotLost, Delegated
    <3> QED
      BY <3>1, <3>2, <3>3 DEF DelegationInv, JobsAreAskedFor
  <2>7. ASSUME NEW u \in Users, JobStep(u) PROVE DelegationInv'
    <3>1. asked' = asked
      BY <2>7 DEF JobStep, JobFrame
    <3>2. CASE PickJob(u) \/ JobFails(u) \/ JobRunsAgain(u) \/ Resolve(u)
      BY <3>1, <3>2
         DEF PickJob, JobFails, JobRunsAgain, Resolve, Moves, Unserved, DelegationInv, DelegationNotLost,
             JobsAreAskedFor, Delegated
    <3>3. CASE FetchGraph(u) \/ AwaitTracked(u)
      BY <3>1, <3>3
         DEF FetchGraph, AwaitTracked, Since, Moves, DelegationInv, DelegationNotLost, JobsAreAskedFor, Delegated
    <3> QED
      BY <2>7, <3>2, <3>3 DEF JobStep
  <2> QED
    BY <2>1, <2>2, <2>3, <2>4, <2>5, <2>6, <2>7 DEF Next, ScanStep
<1> QED
  BY <1>1, <1>2, ScanTyped, SpecIsBase, PTL DEF Spec, DelegationInv
=============================================================================
