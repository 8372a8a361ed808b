------------------------- MODULE BlockchainScanner -------------------------
(***************************************************************************)
(* The block scan that both scanners of the service inherit from           *)
(* BlockchainScannerService, and what GraphUpdateScannerService does with  *)
(* the blocks: ask for a graph update for every delegation.                *)
(*                                                                         *)
(* scan() is called by an interval, by the queue's 'drained' event and, in *)
(* the delegation scanner, once at boot; scanInProgress is to keep two     *)
(* calls from running together.  Each action is the code between two       *)
(* awaits.  The consumer of the jobs is abstracted to what the scanner     *)
(* sees of it; GraphUpdateJobs models it.                                  *)
(***************************************************************************)
EXTENDS Integers, FiniteSets

CONSTANTS
    Delegations,  \* TRUE: GraphUpdateScannerService; FALSE: the completion monitor
    Users,
    Delegators,   \* the users who delegate to the provider in each block
    MaxBlock,     \* BOUND: length of the chain
    Legacy,       \* block number under the key of older versions, NoKey if none
    HighWater,    \* QUEUE_HIGH_WATER
    Scans,        \* BOUND: calls of scan() alive at once
    MaxCrashes    \* BOUND: restarts of the service

NoKey == -1
Blocks == 1..MaxBlock

ASSUME ScannerAssumption ==
    /\ Delegations \in BOOLEAN
    /\ MaxBlock \in Nat /\ MaxCrashes \in Nat /\ HighWater \in Nat \ {0}
    /\ Legacy \in {NoKey} \cup 0..MaxBlock
    /\ Delegators \in [Blocks -> SUBSET Users]

VARIABLES
    head,        \* the chain's height
    lastSeen,    \* lastSeenBlockNumber in Redis, NoKey if it was never set
    boot,        \* step of onApplicationBootstrap
    inProgress,  \* scanInProgress
    pc, cur,     \* step and current block of each call of scan()
    todo,        \* per call and user, what is still to be done about a delegation
    job,         \* the graph-update job of each user
    handled,     \* HISTORY: blocks that need no processing any more
    asked,       \* HISTORY: <<block, user>> for which an update was asked
    served,      \* HISTORY: those whose graph was fetched after that
    joined       \* HISTORY: those whose job found the user's transactions tracked
VARIABLE crashes

scanVars == <<inProgress, pc, cur, todo>>
jobVars == <<job, asked, served, joined>>
vars == <<head, lastSeen, boot, scanVars, jobVars, handled, crashes>>

ScanSteps == {"idle", "check", "lastSeen", "hash", "param", "process", "set"}
Plans == {"none", "look", "retry", "add"}
JobPlaces == {"absent", "waiting", "active", "parked", "failed"}

NoPlan == [u \in Users |-> "none"]
Delegated == {d \in Blocks \X Users : d[2] \in Delegators[d[1]]}

ServiceTyped ==
    /\ head \in 0..MaxBlock
    /\ lastSeen \in {NoKey} \cup 0..MaxBlock
    /\ boot \in {"get", "exists", "copy", "done"}
    /\ job \in [Users -> JobPlaces]
    /\ crashes \in 0..MaxCrashes
ScansTyped ==
    /\ pc \in [Scans -> ScanSteps]
    /\ cur \in [Scans -> 0..MaxBlock + 1]
    /\ todo \in [Scans -> [Users -> Plans]]
HistoryTyped ==
    handled \subseteq Blocks /\ asked \subseteq Delegated /\ served \cup joined \subseteq asked
TypeOK == ServiceTyped /\ ScansTyped /\ HistoryTyped /\ inProgress \in BOOLEAN

Init ==
    /\ head \in {h \in 0..MaxBlock : h >= Legacy}
    /\ lastSeen = NoKey
    /\ boot = "get" /\ inProgress = FALSE
    /\ pc = [s \in Scans |-> "idle"] /\ cur = [s \in Scans |-> 0]
    /\ todo = [s \in Scans |-> NoPlan]
    /\ job = [u \in Users |-> "absent"]
    /\ handled = 1..Legacy            \* by the older version
    /\ asked = {} /\ served = {} /\ joined = {}
    /\ crashes = 0

(***************************************************************************)
(* Boot.  The delegation scanner starts its first scan without waiting for *)
(* the copy of the old key.                                                *)
(***************************************************************************)
GetOldKey ==
    /\ boot = "get"
    /\ boot' = "exists"
    /\ UNCHANGED <<head, lastSeen, scanVars, jobVars, handled, crashes>>

NewKeyExists ==
    /\ boot = "exists"
    /\ boot' = IF lastSeen = NoKey /\ Legacy # NoKey THEN "copy" ELSE "done"
    /\ UNCHANGED <<head, lastSeen, scanVars, jobVars, handled, crashes>>

CopyOldKey ==
    /\ boot = "copy"
    /\ lastSeen' = Legacy
    /\ boot' = "done"
    /\ UNCHANGED <<head, scanVars, jobVars, handled, crashes>>

Boot == GetOldKey \/ NewKeyExists \/ CopyOldKey

(***************************************************************************)
(* scan()                                                                  *)
(***************************************************************************)
queueCount == Cardinality({u \in Users : job[u] \in {"waiting", "parked"}})

StepTo(s, step) == pc' = [pc EXCEPT ![s] = step]

Call_Mutant(s) ==    \* MUTANT: the flag is not looked at
    /\ pc[s] = "idle" /\ StepTo(s, "lastSeen") /\ inProgress' = TRUE
    /\ UNCHANGED <<head, lastSeen, boot, cur, todo, jobVars, handled, crashes>>

Call(s) ==           \* the monitor's check resolves at once: nothing runs in between
    /\ pc[s] = "idle" /\ ~inProgress
    /\ IF Delegations THEN StepTo(s, "check") /\ UNCHANGED inProgress
       ELSE StepTo(s, "lastSeen") /\ inProgress' = TRUE
    /\ UNCHANGED <<head, lastSeen, boot, cur, todo, jobVars, handled, crashes>>

CheckInitialScanParameters(s) ==   \* the flag is set when Redis has answered
    /\ pc[s] = "check"
    /\ IF queueCount > 0 THEN StepTo(s, "idle") /\ UNCHANGED inProgress
       ELSE StepTo(s, "lastSeen") /\ inProgress' = TRUE
    /\ UNCHANGED <<head, lastSeen, boot, cur, todo, jobVars, handled, crashes>>

GetLastSeen(s) ==
    /\ pc[s] = "lastSeen"
    /\ cur' = [cur EXCEPT ![s] = (IF lastSeen = NoKey THEN 0 ELSE lastSeen) + 1]
    /\ StepTo(s, "hash")
    /\ UNCHANGED <<head, lastSeen, boot, inProgress, todo, jobVars, handled, crashes>>

Return_Mutant(s) ==  \* MUTANT: a return that forgets the flag
    StepTo(s, "idle") /\ cur' = [cur EXCEPT ![s] = 0] /\ UNCHANGED inProgress

Return(s) ==         \* whatever ends the scan, the flag is cleared
    StepTo(s, "idle") /\ cur' = [cur EXCEPT ![s] = 0] /\ inProgress' = FALSE

GetHash(s) ==
    /\ pc[s] = "hash"
    /\ IF cur[s] > head THEN Return(s) ELSE StepTo(s, "param") /\ UNCHANGED <<cur, inProgress>>
    /\ UNCHANGED <<head, lastSeen, boot, todo, jobVars, handled, crashes>>

CheckScanParameters_Mutant(s) ==   \* MUTANT: goes on with the next block at the mark
    /\ pc[s] = "param" /\ UNCHANGED <<cur, inProgress>>
    /\ IF Delegations /\ queueCount >= HighWater
       THEN StepTo(s, "set") /\ UNCHANGED todo
       ELSE /\ StepTo(s, "process")
            /\ todo' = [todo EXCEPT ![s] =
                   [u \in Users |-> IF u \in Delegators[cur[s]] THEN "look" ELSE "none"]]
    /\ UNCHANGED <<head, lastSeen, boot, jobVars, handled, crashes>>

CheckScanParameters(s) ==
    /\ pc[s] = "param"
    /\ IF Delegations /\ queueCount >= HighWater
       THEN Return(s) /\ UNCHANGED todo
       ELSE /\ StepTo(s, "process") /\ UNCHANGED <<cur, inProgress>>
            /\ todo' = [todo EXCEPT ![s] =
                   [u \in Users |-> IF u \in Delegators[cur[s]] THEN "look" ELSE "none"]]
    /\ UNCHANGED <<head, lastSeen, boot, jobVars, handled, crashes>>

LookAtJob(s, u) ==   \* getJob, isCompleted, isFailed: completed jobs are removed
    /\ pc[s] = "process" /\ todo[s][u] = "look"
    /\ todo' = [todo EXCEPT ![s][u] = IF job[u] = "failed" THEN "retry" ELSE "add"]
    /\ UNCHANGED <<head, lastSeen, boot, inProgress, pc, cur, jobVars, handled, crashes>>

Asks(s, u, to) ==
    /\ todo' = [todo EXCEPT ![s][u] = "none"]
    /\ job' = [job EXCEPT ![u] = to]
    /\ asked' = asked \cup {<<cur[s], u>>}
    /\ UNCHANGED <<head, lastSeen, boot, inProgress, pc, cur, served, joined, handled, crashes>>

AddJob(s, u) ==      \* a job that exists is left as it is
    /\ pc[s] = "process" /\ todo[s][u] = "add"
    /\ Asks(s, u, IF job[u] = "absent" THEN "waiting" ELSE job[u])

RetryJob(s, u) ==
    /\ pc[s] = "process" /\ todo[s][u] = "retry" /\ job[u] = "failed"
    /\ Asks(s, u, "waiting")

ProcessedBlock(s) ==
    /\ pc[s] = "process" /\ todo[s] = NoPlan
    /\ handled' = handled \cup {cur[s]}
    /\ StepTo(s, "set")
    /\ UNCHANGED <<head, lastSeen, boot, inProgress, cur, todo, jobVars, crashes>>

SetLastSeen_Mutant(s) == \* MUTANT: the loop counts as well
    /\ pc[s] = "set"
    /\ lastSeen' = cur[s]
    /\ cur' = [cur EXCEPT ![s] = @ + 2]
    /\ StepTo(s, "hash")
    /\ UNCHANGED <<head, boot, inProgress, todo, jobVars, handled, crashes>>

SetLastSeen(s) ==
    /\ pc[s] = "set"
    /\ lastSeen' = cur[s]
    /\ cur' = [cur EXCEPT ![s] = @ + 1]
    /\ StepTo(s, "hash")
    /\ UNCHANGED <<head, boot, inProgress, todo, jobVars, handled, crashes>>

ScanStep(s) ==
    \/ CheckInitialScanParameters(s) \/ GetLastSeen(s) \/ GetHash(s) \/ CheckScanParameters(s)
    \/ \E u \in Users : LookAtJob(s, u) \/ AddJob(s, u) \/ RetryJob(s, u)
    \/ ProcessedBlock(s) \/ SetLastSeen(s)

(***************************************************************************)
(* Nobody catches what scan() throws, so the process exits and is started  *)
(* again: a lost connection does it at any time, and so does the retry of  *)
(* a job that is not failed any more.                                      *)
(***************************************************************************)
StartAgain ==
    /\ boot' = "get" /\ inProgress' = FALSE
    /\ pc' = [s \in Scans |-> "idle"] /\ cur' = [s \in Scans |-> 0]
    /\ todo' = [s \in Scans |-> NoPlan]
    /\ UNCHANGED <<head, lastSeen, jobVars, handled>>

ScanThrows(s, u) ==
    /\ pc[s] = "process" /\ todo[s][u] = "retry" /\ job[u] # "failed"
    /\ StartAgain /\ UNCHANGED crashes

Restart ==
    /\ crashes < MaxCrashes /\ crashes' = crashes + 1
    /\ StartAgain

(***************************************************************************)
(* The consumer, as the scanner sees it.  A job that became active fetches *)
(* the graph, unless transactions of the user are tracked: by the user's   *)
(* other job, say, for the two share their key.  Then it only waits for    *)
(* them, and does not look at the graph when they have succeeded.          *)
(***************************************************************************)
Moves(u, from, to) == job[u] = from /\ job' = [job EXCEPT ![u] = to]
Since(u) == {d \in asked : d[2] = u}

FetchGraph(u) ==
    /\ \E to \in {"parked", "absent"} : Moves(u, "active", to)
    /\ served' = served \cup Since(u) /\ UNCHANGED joined
AwaitTracked(u) ==
    /\ Moves(u, "active", "parked")
    /\ joined' = joined \cup Since(u) /\ UNCHANGED served

Unserved == UNCHANGED <<served, joined>>
PickJob(u) == Moves(u, "waiting", "active") /\ Unserved
JobFails_Mutant(u) == Moves(u, "active", "absent") /\ Unserved   \* MUTANT: removeOnFail
JobFails(u) == Moves(u, "active", "failed") /\ Unserved
JobRunsAgain(u) == (\E from \in {"active", "parked"} : Moves(u, from, "waiting")) /\ Unserved
Resolve(u) == (\E to \in {"absent", "failed"} : Moves(u, "parked", to)) /\ Unserved

JobFrame == UNCHANGED <<head, lastSeen, boot, scanVars, asked, handled, crashes>>
JobStep(u) ==
    /\ \/ PickJob(u) \/ FetchGraph(u) \/ AwaitTracked(u)
       \/ JobFails(u) \/ JobRunsAgain(u) \/ Resolve(u)
    /\ JobFrame

NewBlock ==
    /\ head < MaxBlock /\ head' = head + 1
    /\ UNCHANGED <<lastSeen, boot, scanVars, jobVars, handled, crashes>>

Next ==
    \/ Boot \/ NewBlock \/ Restart
    \/ \E s \in Scans : Call(s) \/ ScanStep(s) \/ \E u \in Users : ScanThrows(s, u)
    \/ \E u \in Users : JobStep(u)

Spec == Init /\ [][Next]_vars

\* The interval calls scan() again and again, what is awaited is answered, and
\* the consumer ends every job (GraphUpdateJobs: QueuedIsResolved).
Fairness ==
    /\ WF_vars(Boot) /\ WF_vars(\E s \in Scans : Call(s))
    /\ \A s \in Scans : WF_vars(ScanStep(s) \/ \E u \in Users : ScanThrows(s, u))
    /\ \A u \in Users :
        /\ WF_vars(PickJob(u) /\ JobFrame)
        /\ SF_vars((FetchGraph(u) \/ AwaitTracked(u) \/ JobFails(u)) /\ JobFrame)
        /\ SF_vars(Resolve(u) /\ JobFrame)

FairSpec == Spec /\ Fairness

(***************************************************************************)
(* What the completion monitor does besides: at boot it skips to the head  *)
(* of the chain when no transaction is pending, and what it does with a    *)
(* block may throw.  CompletionMonitor says when, and implements BaseSpec. *)
(***************************************************************************)
SkipTo(h) ==          \* the head when it was read
    /\ boot = "get" /\ ~Delegations
    /\ lastSeen' = h /\ handled' = handled \cup 1..h
    /\ boot' = "exists"
    /\ UNCHANGED <<head, scanVars, jobVars, crashes>>

MonitorThrows(s) ==
    /\ ~Delegations /\ pc[s] = "process"
    /\ StartAgain /\ UNCHANGED crashes

MonitorStep == (\E h \in 0..head : SkipTo(h)) \/ \E s \in Scans : MonitorThrows(s)
BaseNext == Next \/ MonitorStep
BaseSpec == Init /\ [][BaseNext]_vars

(***************************************************************************)
(* Properties                                                              *)
(***************************************************************************)
\* Whatever the overlap of scans and restarts, every block up to the one in
\* Redis needs no processing any more, and a scan reaches a block only after all
\* blocks before it: no delegation is stepped over, and no transaction is called
\* expired while a block that may include it is unread.
NoBlockSkipped ==
    /\ \A b \in Blocks : b <= lastSeen => b \in handled
    /\ \A s \in Scans, b \in Blocks : b < cur[s] => b \in handled

\* scanInProgress lets one call of scan() past its checks at a time.
Running(s) == pc[s] \notin {"idle", "check"}
ScansAreExclusive == \A s, t \in Scans : Running(s) /\ Running(t) => s = t

\* A delegation the scanner asked an update for is not dropped: its graph was
\* fetched since, or the job is still in the queue and will fetch it, or it has
\* failed and stays visible.  Or the job found transactions of the user tracked
\* (:117) and waits for those alone: what is lost then, TransitiveUpdates shows.
DelegationNotLost ==
    \A d \in asked \ (served \cup joined) : job[d[2]] \in {"waiting", "active", "failed"}

\* A scan goes on where the older version stopped.
ResumesAfterLegacy == \A s \in Scans : Running(s) /\ cur[s] # 0 => cur[s] > Legacy

\* Every block is scanned in the end, although scans are skipped while one is in
\* progress or the queue is not empty, stop at the high-water mark, and die.
EveryBlockIsScanned == \A b \in Blocks : (head >= b) ~> (b \in handled)
=============================================================================
