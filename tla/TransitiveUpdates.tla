------------------------- MODULE TransitiveUpdates -------------------------
(***************************************************************************)
(* How the updates of several users make one social graph.                 *)
(*                                                                         *)
(* The scanner asks for a transitive job of every user who delegates; this *)
(* job updates the user's own graph, and asks for a plain job of everyone  *)
(* who is connected to the user and has delegated before, so that their    *)
(* graphs get the new connection (ReconnectionGraphService.formConnections *)
(* removes the plain job and adds it anew, awaiting neither).  A job whose *)
(* user has tracked transactions does not fetch: it waits for these.       *)
(*                                                                         *)
(* A job's way through the queue, which GraphUpdateJobs models in full, is *)
(* here: check, fetch, form the connections, send, park, verdict.  All     *)
(* batches of a job are one transaction, which the chain takes only if the *)
(* user's pages are as they were imported; two equal ones count as one,    *)
(* for the second would fail, and its retry find nothing to send.  Dead    *)
(* letters and crashes are left to GraphUpdateJobs.                        *)
(***************************************************************************)
EXTENDS Integers, FiniteSets

CONSTANTS
    Users,
    Connections,  \* <<u, v>>: in the provider's graph u is connected to v
    Staged,       \* TRUE: a user delegates only when nothing is under way
    MaxFailures   \* BOUND: failures of jobs and transactions

ASSUME GraphAssumption ==
    /\ Connections \subseteq {e \in Users \X Users : e[1] # e[2]}
    /\ Staged \in BOOLEAN /\ MaxFailures \in Nat
    /\ IsFiniteSet(Users) /\ {} \notin Users   \* {}: the user of NoJob and of NoTx

Jobs == [user : Users, transitive : BOOLEAN]
NoJob == [user |-> {}, transitive |-> FALSE]
Edges == Users \X Users
Txs == [user : Users, adds : SUBSET Edges, imported : SUBSET Edges]
NoTx == [user |-> {}, adds |-> {}, imported |-> {}]
Plain(u) == [user |-> u, transitive |-> FALSE]         \* SkipTransitiveGraphs
Transitive(u) == [user |-> u, transitive |-> TRUE]     \* UpdateTransitiveGraphs

VARIABLES
    delegated, onchain,   \* the chain: delegations to the provider, connections
    scanning, scanned,    \* a scan is in progress; users whose delegation was processed
    place,                \* where the queue keeps each job
    pool,                 \* transactions on their way: user, connections, pages imported
    tx, sent,             \* per user: status of the tracked transaction, and the transaction
    cpc, cjob,            \* the consumer: its step and its job
    answer, todo,         \* connected users the webhook named, those still to be queued
    judging,              \* the parked job the transaction monitor works on, NoJob if none
    failures

chainVars == <<delegated, onchain>>
scanVars == <<scanning, scanned>>
txVars == <<pool, tx, sent>>
workerVars == <<cpc, cjob, answer, todo>>
vars == <<chainVars, scanVars, place, txVars, workerVars, judging, failures>>

Places == {"absent", "waiting", "active", "parked", "failed"}

TypeOK ==
    /\ delegated \subseteq Users /\ onchain \subseteq Edges
    /\ scanning \in BOOLEAN /\ scanned \subseteq delegated
    /\ place \in [Jobs -> Places]
    /\ tx \in [Users -> {"none", "pending", "settled", "failed"}]
    /\ sent \in [Users -> Txs \cup {NoTx}] /\ pool \subseteq Txs
    /\ cpc \in {"idle", "check", "fetch", "form"}
    /\ cjob \in Jobs \cup {NoJob} /\ (cpc # "idle" => cjob \in Jobs)
    /\ answer \subseteq Users /\ todo \subseteq answer
    /\ judging \in Jobs \cup {NoJob}
    /\ failures \in 0..MaxFailures

Init ==
    /\ delegated = {} /\ onchain = {}
    /\ scanning = FALSE /\ scanned = {}
    /\ place = [j \in Jobs |-> "absent"]
    /\ tx = [u \in Users |-> "none"] /\ sent = [u \in Users |-> NoTx] /\ pool = {}
    /\ cpc = "idle" /\ cjob = NoJob /\ answer = {} /\ todo = {}
    /\ judging = NoJob
    /\ failures = 0

(***************************************************************************)
(* The users, and the scan for their delegations.                          *)
(***************************************************************************)
queueCount == Cardinality({j \in Jobs : place[j] \in {"waiting", "parked"}})
Quiet ==             \* nothing is under way
    /\ scanned = delegated /\ cpc = "idle" /\ queueCount = 0
    /\ pool = {} /\ \A u \in Users : tx[u] = "none"

Delegate(u) ==
    /\ u \notin delegated
    /\ Staged => Quiet
    /\ delegated' = delegated \cup {u}
    /\ UNCHANGED <<onchain, scanVars, place, txVars, workerVars, judging, failures>>

StartScan ==         \* not before the queue is empty
    /\ ~scanning /\ queueCount = 0
    /\ scanning' = TRUE
    /\ UNCHANGED <<chainVars, scanned, place, txVars, workerVars, judging, failures>>

ScanDelegation_Mutant(u) ==    \* MUTANT: delegations to any provider count
    /\ scanning /\ u \notin scanned
    /\ scanned' = scanned \cup {u}
    /\ place' = [place EXCEPT ![Transitive(u)] = IF @ \in {"absent", "failed"} THEN "waiting" ELSE @]
    /\ UNCHANGED <<chainVars, scanning, txVars, workerVars, judging, failures>>

ScanDelegation(u) == \* adding a job that exists does nothing
    /\ scanning /\ u \in delegated \ scanned
    /\ scanned' = scanned \cup {u}
    /\ place' = [place EXCEPT ![Transitive(u)] = IF @ \in {"absent", "failed"} THEN "waiting" ELSE @]
    /\ UNCHANGED <<chainVars, scanning, txVars, workerVars, judging, failures>>

EndScan ==           \* the end of the chain, or the high-water mark
    /\ scanning /\ (scanned = delegated \/ queueCount > 0)
    /\ scanning' = FALSE
    /\ UNCHANGED <<chainVars, scanned, place, txVars, workerVars, judging, failures>>

(***************************************************************************)
(* The consumer: one job at a time.                                        *)
(***************************************************************************)
Followed(u) == {v \in Users : <<u, v>> \in Connections}
Followers(u) == {v \in Users : <<v, u>> \in Connections}

Locked(j) == place[j] = "active" \/ judging = j

Idle == cpc' = "idle" /\ cjob' = NoJob /\ answer' = {} /\ todo' = {}

PickJob(j) ==
    /\ cpc = "idle" /\ place[j] = "waiting"
    /\ place' = [place EXCEPT ![j] = "active"]
    /\ cpc' = "check" /\ cjob' = j
    /\ UNCHANGED <<chainVars, scanVars, txVars, answer, todo, judging, failures>>

doesJobKeyExist(j) == tx[j.user] # "none"     \* the key is the user's, whichever the job

AwaitTracked ==      \* nothing is fetched, nobody queued: only the tracked transaction counts
    /\ cpc = "check" /\ doesJobKeyExist(cjob)
    /\ place' = [place EXCEPT ![cjob] = "parked"]
    /\ Idle
    /\ UNCHANGED <<chainVars, scanVars, txVars, judging, failures>>

StartUpdate ==
    /\ cpc = "check" /\ ~doesJobKeyExist(cjob)
    /\ cpc' = "fetch"
    /\ UNCHANGED <<chainVars, scanVars, place, txVars, cjob, answer, todo, judging, failures>>

FetchGraph_Mutant == \* MUTANT: the directions of the connections are confused
    /\ cpc = "fetch"
    /\ answer' = delegated \cap (Followed(cjob.user) \cup Followers(cjob.user))
    /\ todo' = IF cjob.transitive /\ cjob.user \in delegated
               THEN answer' \cap Followed(cjob.user) ELSE {}
    /\ cpc' = "form"
    /\ UNCHANGED <<chainVars, scanVars, place, txVars, cjob, judging, failures>>

FetchGraph ==        \* the webhook names the connected users who have migrated
    /\ cpc = "fetch"
    /\ answer' = delegated \cap (Followed(cjob.user) \cup Followers(cjob.user))
    /\ todo' = IF cjob.transitive /\ cjob.user \in delegated
               THEN answer' \cap Followers(cjob.user) ELSE {}
    /\ cpc' = "form"
    /\ UNCHANGED <<chainVars, scanVars, place, txVars, cjob, judging, failures>>

Replaced(j) ==       \* remove, which leaves a locked job, then add, which leaves one that exists
    IF Locked(j) THEN place ELSE [place EXCEPT ![j] = "waiting"]

QueueConnection(v) ==
    /\ cpc = "form" /\ v \in todo
    /\ todo' = todo \ {v}
    /\ place' = IF v \in delegated THEN Replaced(Plain(v)) ELSE place
    /\ UNCHANGED <<chainVars, scanVars, txVars, cpc, cjob, answer, judging, failures>>

Actions_Mutant(u) == {<<u, v>> : v \in answer}      \* MUTANT: followers are followed back
Actions(u) == IF u \in delegated THEN {<<u, v>> : v \in answer \cap Followed(u)} ELSE {}
Pages(u) == {e \in onchain : e[1] = u}
Updates(u) == Actions(u) \ Pages(u)                            \* what the export finds to change

NothingToSend ==
    /\ cpc = "form" /\ todo = {} /\ Updates(cjob.user) = {}
    /\ place' = [place EXCEPT ![cjob] = "absent"]
    /\ Idle
    /\ UNCHANGED <<chainVars, scanVars, txVars, judging, failures>>

SendUpdates ==       \* send, track, park
    /\ cpc = "form" /\ todo = {} /\ Updates(cjob.user) # {}
    /\ tx' = [tx EXCEPT ![cjob.user] = "pending"]
    /\ LET t == [user |-> cjob.user, adds |-> Updates(cjob.user), imported |-> Pages(cjob.user)]
       IN  pool' = pool \cup {t} /\ sent' = [sent EXCEPT ![cjob.user] = t]
    /\ place' = [place EXCEPT ![cjob] = "parked"]
    /\ Idle
    /\ UNCHANGED <<chainVars, scanVars, judging, failures>>

JobFails ==          \* to be retried, or for good
    /\ cpc # "idle" /\ failures < MaxFailures
    /\ failures' = failures + 1
    /\ \E p \in {"waiting", "failed"} : place' = [place EXCEPT ![cjob] = p]
    /\ Idle
    /\ UNCHANGED <<chainVars, scanVars, txVars, judging>>

ConsumerStep ==
    \/ AwaitTracked \/ StartUpdate \/ FetchGraph \/ NothingToSend \/ SendUpdates
    \/ \E v \in Users : QueueConnection(v)

(***************************************************************************)
(* The chain, and the two monitors: the completion monitor settles the     *)
(* transaction when it is included, the transaction monitor then forgets   *)
(* it and gives its verdict on the parked job it is a child of.            *)
(***************************************************************************)
Settled(t, status) ==
    /\ pool' = pool \ {t}
    /\ tx' = IF sent[t.user] = t THEN [tx EXCEPT ![t.user] = status] ELSE tx
    /\ UNCHANGED <<delegated, scanVars, place, sent, workerVars, judging>>

Include(t) ==
    /\ t \in pool /\ t.imported = Pages(t.user)
    /\ onchain' = onchain \cup t.adds
    /\ Settled(t, "settled")
    /\ UNCHANGED failures

PagesAreStale(t) ==
    /\ t \in pool /\ t.imported # Pages(t.user)
    /\ Settled(t, "failed")
    /\ UNCHANGED <<onchain, failures>>

TxFails_Mutant(t) == \* MUTANT: nobody notices that the era is over
    /\ t \in pool /\ failures < MaxFailures
    /\ failures' = failures + 1
    /\ pool' = pool \ {t}
    /\ UNCHANGED <<chainVars, scanVars, place, tx, sent, workerVars, judging>>

TxFails(t) ==        \* another error, or the end of its mortal era
    /\ t \in pool /\ failures < MaxFailures
    /\ failures' = failures + 1
    /\ Settled(t, "failed")
    /\ UNCHANGED onchain

Settle(t) == Include(t) \/ PagesAreStale(t) \/ TxFails(t)

Judge(j) ==
    /\ judging = NoJob /\ place[j] = "parked" /\ tx[j.user] # "pending"
    /\ judging' = j
    /\ UNCHANGED <<chainVars, scanVars, place, txVars, workerVars, failures>>

Verdict ==           \* statuses that another job's monitor forgot count as none failed
    /\ judging # NoJob
    /\ IF tx[judging.user] = "failed"
       THEN \E p \in {"waiting", "failed"} : place' = [place EXCEPT ![judging] = p]
       ELSE place' = [place EXCEPT ![judging] = "absent"]
    /\ tx' = [tx EXCEPT ![judging.user] = "none"]
    /\ sent' = [sent EXCEPT ![judging.user] = NoTx]
    /\ judging' = NoJob
    /\ UNCHANGED <<chainVars, scanVars, pool, workerVars, failures>>

Next ==
    \/ \E u \in Users : Delegate(u) \/ ScanDelegation(u)
    \/ \E t \in pool : Settle(t)
    \/ StartScan \/ EndScan
    \/ \E j \in Jobs : PickJob(j) \/ Judge(j)
    \/ ConsumerStep \/ JobFails \/ Verdict

Spec == Init /\ [][Next]_vars

\* The interval starts scans, which go on; the worker takes a job and goes on with it;
\* transactions are included or fail; a child whose transactions are settled is processed.
Fairness ==
    /\ WF_vars(StartScan) /\ WF_vars(\E u \in Users : ScanDelegation(u))
    /\ WF_vars(\E j \in Jobs : PickJob(j)) /\ WF_vars(ConsumerStep \/ JobFails)
    /\ WF_vars(\E t \in pool : Settle(t))
    /\ WF_vars(\E j \in Jobs : Judge(j)) /\ WF_vars(Verdict)

FairSpec == Spec /\ Fairness

(***************************************************************************)
(* Properties                                                              *)
(***************************************************************************)
\* The service does nothing else to the social graph than Migration allows: only the
\* provider's connections, only of users who delegated, and none is taken back.
M == INSTANCE Migration WITH delegated <- delegated, onchain <- onchain
ImplementsMigration == M!Spec

\* Two users who both delegated, with none of their jobs failed.
Failed(u) == \E j \in Jobs : j.user = u /\ place[j] = "failed"
Both(e) == {e[1], e[2]} \subseteq delegated /\ ~Failed(e[1]) /\ ~Failed(e[2])

\* When every delegation is processed and no job is left, every connection of two
\* users who delegated is on the chain, whoever of them delegated first: the job of
\* the second one asks for the update of the first (docs/example-sequence-diagram.md).
QuietMeansMirrored ==
    Quiet => \A e \in Connections : Both(e) => e \in onchain

\* It does not stop before: once both delegated, their connection gets on the chain.
ConnectionsAreMirrored ==
    \A e \in Connections : {e[1], e[2]} \subseteq delegated ~> e \in onchain \/ ~Both(e)
=============================================================================
