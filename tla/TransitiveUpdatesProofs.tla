---------------------- MODULE TransitiveUpdatesProofs ----------------------
(* Theorems about TransitiveUpdates, for any users, graph and failures. *)
EXTENDS TransitiveUpdates, FiniteSetTheorems, TLAPS

(***************************************************************************)
(* Types.  No step disturbs more than the conjuncts it is cited with.      *)
(***************************************************************************)
LEMMA JobFields ==
    /\ \A j \in Jobs : j.user \in Users
    /\ \A u \in Users : Plain(u) \in Jobs /\ Transitive(u) \in Jobs
    /\ NoTx.user = {}
BY DEF Jobs, Plain, Transitive, NoTx

LEMMA TypeInit == Init => TypeOK
<1> USE DEF Init
<1>1. Init => failures \in 0..MaxFailures
  BY GraphAssumption
<1>2. Init => /\ place \in [Jobs -> Places] /\ tx \in [Users -> {"none", "pending", "settled", "failed"}]
             /\ sent \in [Users -> Txs \cup {NoTx}]
  BY DEF Places
<1> QED
  BY <1>1, <1>2 DEF TypeOK

LEMMA TypeScan ==
    ASSUME TypeOK,
           \/ \E u \in Users : Delegate(u) \/ ScanDelegation(u)
           \/ StartScan \/ EndScan
    PROVE  TypeOK'
BY JobFields
DEF TypeOK, Delegate, StartScan, ScanDelegation, EndScan, chainVars, scanVars, txVars, workerVars,
    Places

LEMMA TypeWork ==
    ASSUME TypeOK,
           \/ \E j \in Jobs : PickJob(j)
           \/ AwaitTracked \/ StartUpdate \/ FetchGraph \/ NothingToSend \/ JobFails
    PROVE  TypeOK'
<1> USE JobFields DEF TypeOK, Idle, chainVars, scanVars, txVars, workerVars, Places
<1>1. CASE \E j \in Jobs : PickJob(j)
  BY <1>1 DEF PickJob
<1>2. CASE AwaitTracked \/ StartUpdate \/ NothingToSend
  BY <1>2 DEF AwaitTracked, StartUpdate, NothingToSend
<1>3. CASE FetchGraph
  <2>1. answer' \subseteq Users /\ todo' \subseteq answer'
    BY <1>3 DEF FetchGraph
  <2> QED
    BY <1>3, <2>1 DEF FetchGraph
<1>4. CASE JobFails
  <2>1. place' \in [Jobs -> Places] /\ failures' \in 0..MaxFailures
    BY <1>4, GraphAssumption DEF JobFails
  <2> QED
    BY <1>4, <2>1 DEF JobFails
<1> QED
  BY <1>1, <1>2, <1>3, <1>4

LEMMA TypeQueue ==
    ASSUME TypeOK, \E v \in Users : QueueConnection(v)
    PROVE  TypeOK'
BY JobFields
DEF TypeOK, QueueConnection, Replaced, Locked, chainVars, scanVars, txVars, workerVars, Places

LEMMA TypeSend ==
    ASSUME TypeOK, SendUpdates
    PROVE  TypeOK'
<1> DEFINE t == [user |-> cjob.user, adds |-> Updates(cjob.user), imported |-> Pages(cjob.user)]
<1>1. cjob \in Jobs /\ cjob.user \in Users
  BY JobFields DEF TypeOK, SendUpdates
<1>2. Updates(cjob.user) \subseteq Edges /\ Pages(cjob.user) \subseteq Edges
  BY <1>1 DEF TypeOK, Updates, Actions, Pages, Edges
<1>3. t \in Txs
  BY <1>1, <1>2 DEF Txs
<1>4. pool' = pool \cup {t} /\ sent' = [sent EXCEPT ![cjob.user] = t]
  BY DEF SendUpdates
<1> HIDE DEF t
<1> QED
  BY <1>1, <1>3, <1>4
  DEF TypeOK, SendUpdates, Idle, chainVars, scanVars, txVars, workerVars, Places

LEMMA TypeChain ==
    ASSUME TypeOK, \E t \in pool : Settle(t)
    PROVE  TypeOK'
<1>1. PICK t \in pool : Settle(t)
  OBVIOUS
<1>2. t \in Txs /\ t.user \in Users /\ t.adds \subseteq Edges
  BY DEF TypeOK, Txs
<1>3. onchain' \subseteq Edges /\ failures' \in 0..MaxFailures
  BY <1>1, <1>2, GraphAssumption DEF TypeOK, Settle, Include, PagesAreStale, TxFails
<1>4. \E status \in {"settled", "failed"} : Settled(t, status)
  BY <1>1 DEF Settle, Include, PagesAreStale, TxFails
<1> QED
  BY <1>2, <1>3, <1>4 DEF TypeOK, Settled, scanVars, workerVars

LEMMA TypeMonitor ==
    ASSUME TypeOK, (\E j \in Jobs : Judge(j)) \/ Verdict
    PROVE  TypeOK'
BY JobFields
DEF TypeOK, Judge, Verdict, chainVars, scanVars, txVars, workerVars, Places

LEMMA TypeNext == TypeOK /\ [Next]_vars => TypeOK'
<1> SUFFICES ASSUME TypeOK, [Next]_vars PROVE TypeOK'
  OBVIOUS
<1>1. CASE Next
  BY <1>1, TypeScan, TypeWork, TypeQueue, TypeSend, TypeChain, TypeMonitor DEF Next, ConsumerStep
<1>2. CASE UNCHANGED vars
  BY <1>2 DEF TypeOK, vars, chainVars, scanVars, txVars, workerVars
<1> QED
  BY <1>1, <1>2

\* Every state has the types that TypeOK states.
THEOREM TypeCorrect == Spec => []TypeOK
BY TypeInit, TypeNext, PTL DEF Spec

(***************************************************************************)
(* Refinement.  Nothing is sent but a delegated user's own connections,    *)
(* so that the chain, which includes what was sent, takes Migration's      *)
(* steps.                                                                  *)
(***************************************************************************)
OwnConnections(u) == {e \in Connections : e[1] = u /\ e[2] \in delegated}
PoolSound ==
    /\ answer \subseteq delegated
    /\ \A t \in pool : t.user \in delegated /\ t.adds \subseteq OwnConnections(t.user)

LEMMA SentIsOwn ==
    ASSUME TypeOK, PoolSound, SendUpdates
    PROVE  cjob.user \in delegated /\ Updates(cjob.user) \subseteq OwnConnections(cjob.user)
<1>1. Updates(cjob.user) # {} /\ Updates(cjob.user) \subseteq Actions(cjob.user)
  BY DEF SendUpdates, Updates
<1>2. cjob.user \in delegated
  BY <1>1 DEF Actions
<1>3. \A e \in Actions(cjob.user) : e \in OwnConnections(cjob.user)
  <2> TAKE e \in Actions(cjob.user)
  <2>1. PICK v \in answer \cap Followed(cjob.user) : e = <<cjob.user, v>>
    BY <1>2 DEF Actions
  <2> QED
    BY <2>1 DEF Followed, OwnConnections, PoolSound
<1> QED
  BY <1>1, <1>2, <1>3

LEMMA PoolSoundNext == TypeOK /\ PoolSound /\ [Next]_vars => PoolSound'
<1> SUFFICES ASSUME TypeOK, PoolSound, [Next]_vars PROVE PoolSound'
  OBVIOUS
<1>1. CASE SendUpdates
  <2> DEFINE new == [user |-> cjob.user, adds |-> Updates(cjob.user),
                     imported |-> Pages(cjob.user)]
  <2>1. new.user \in delegated /\ new.adds \subseteq OwnConnections(new.user)
    BY <1>1, SentIsOwn
  <2>2. pool' = pool \cup {new} /\ delegated' = delegated /\ answer' = {}
    BY <1>1 DEF SendUpdates, Idle, chainVars
  <2> HIDE DEF new
  <2> QED
    BY <2>1, <2>2 DEF PoolSound, OwnConnections
<1>2. CASE \E t \in pool : Settle(t)
  BY <1>2 DEF Settle, Include, PagesAreStale, TxFails, Settled, PoolSound, OwnConnections,
     workerVars
<1>3. CASE \E u \in Users : Delegate(u)
  BY <1>3 DEF Delegate, PoolSound, OwnConnections, txVars, workerVars
<1>4. CASE \/ \E u \in Users : ScanDelegation(u)
           \/ StartScan \/ EndScan \/ JobFails \/ Verdict
           \/ \E j \in Jobs : PickJob(j) \/ Judge(j)
  BY <1>4 DEF ScanDelegation, StartScan, EndScan, JobFails, Verdict, PickJob, Judge,
     PoolSound, OwnConnections, Idle, chainVars, txVars, workerVars
<1>5. CASE \/ AwaitTracked \/ StartUpdate \/ FetchGraph \/ NothingToSend
           \/ \E v \in Users : QueueConnection(v)
  BY <1>5 DEF AwaitTracked, StartUpdate, FetchGraph, NothingToSend, QueueConnection,
     PoolSound, OwnConnections, Idle, chainVars, txVars, workerVars
<1>6. CASE UNCHANGED vars
  BY <1>6 DEF vars, PoolSound, OwnConnections, Idle, chainVars, txVars, workerVars
<1> QED
  BY <1>1, <1>2, <1>3, <1>4, <1>5, <1>6 DEF Next, ConsumerStep

LEMMA StepRefines == TypeOK /\ PoolSound /\ [Next]_vars => [M!Next]_M!vars
<1> SUFFICES ASSUME TypeOK, PoolSound, [Next]_vars PROVE [M!Next]_M!vars
  OBVIOUS
<1> USE DEF M!vars
<1>1. CASE \E u \in Users : Delegate(u)
  BY <1>1 DEF Delegate, M!Next, M!Delegate
<1>2. CASE \E t \in pool : Settle(t)
  <2>1. PICK t \in pool : Settle(t)
    BY <1>2
  <2>2. t.user \in Users /\ t.user \in delegated /\ t.adds \subseteq OwnConnections(t.user)
    BY DEF TypeOK, PoolSound, Txs
  <2>3. CASE Include(t)
    <3>1. delegated' = delegated /\ onchain' = onchain \cup t.adds
      BY <2>3 DEF Include, Settled
    <3>2. M!Publish(t.user)
      BY <2>2, <3>1 DEF M!Publish, OwnConnections
    <3> QED
      BY <2>2, <3>2 DEF M!Next
  <2>4. CASE PagesAreStale(t) \/ TxFails(t)
    BY <2>4 DEF PagesAreStale, TxFails, Settled
  <2> QED
    BY <2>1, <2>3, <2>4 DEF Settle
<1>3. CASE \/ \E u \in Users : ScanDelegation(u)
           \/ StartScan \/ EndScan \/ JobFails \/ Verdict
           \/ \E j \in Jobs : PickJob(j) \/ Judge(j)
  BY <1>3 DEF ScanDelegation, StartScan, EndScan, JobFails, Verdict, PickJob, Judge, chainVars
<1>4. CASE ConsumerStep
  BY <1>4 DEF ConsumerStep, AwaitTracked, StartUpdate, FetchGraph, NothingToSend, SendUpdates,
     QueueConnection, chainVars
<1>5. CASE UNCHANGED vars
  BY <1>5 DEF vars, chainVars
<1> QED
  BY <1>1, <1>2, <1>3, <1>4, <1>5 DEF Next

\* The queue, the cache, the monitors and their failures, whatever they lose or repeat,
\* do to the social graph only what Migration allows: connections of users who
\* delegated, which the provider named, are added, and nothing is taken back.
THEOREM MigrationRefined == Spec => ImplementsMigration
<1>1. Init => PoolSound
  BY DEF Init, PoolSound
<1>2. Init => M!Init
  BY DEF Init, M!Init
<1> QED
  BY <1>1, <1>2, TypeInit, TypeNext, PoolSoundNext, StepRefines, PTL
  DEF Spec, ImplementsMigration, M!Spec

(***************************************************************************)
(* The graph is whole when all is quiet, if users delegate one at a time.  *)
(* A connection of two users who delegated is on its way to the chain, at  *)
(* every moment, in one of the ways that Covered lists: a job of the one   *)
(* who is connected, which will find it to be sent or finds it sent, or    *)
(* the other one's transitive job, which will ask for such a job.          *)
(***************************************************************************)
Live(j) == place[j] \in {"waiting", "active", "parked"}
Unscanned == delegated \ scanned

WorkInv ==           \* who works on what; the webhook's answer stays true
    /\ \A j \in Jobs : place[j] = "active" <=> cpc # "idle" /\ cjob = j
    /\ judging # NoJob => place[judging] = "parked" /\ tx[judging.user] # "pending"
    /\ cpc = "form" => /\ answer = delegated \cap (Followed(cjob.user) \cup Followers(cjob.user))
                       /\ cjob.user \notin todo /\ (todo # {} => cjob.transitive)
NewcomerInv ==       \* one newcomer at a time; no other job of its user beside a transitive one
    /\ \A u, v \in Unscanned : u = v
    /\ Unscanned # {} => /\ \A j \in Jobs : ~Live(j)
                         /\ pool = {} /\ \A u \in Users : tx[u] = "none"
    /\ \A j, k \in Jobs : Live(j) /\ Live(k) /\ j.transitive => (k.transitive <=> k.user = j.user)
TxInv ==             \* a tracked transaction misses nothing, and no newcomer waits for it unasked
    /\ \A t \in pool : t.adds # {}
    /\ \A u \in Users : tx[u] = "none" => sent[u] = NoTx
    /\ \A j \in Jobs : place[j] = "parked" => tx[j.user] # "none"
    /\ \A u \in Users : tx[u] # "none" /\ Live(Transitive(u)) => place[Transitive(u)] = "parked"
    /\ \A u \in Users : tx[u] # "none" =>
          \A v \in delegated : <<u, v>> \in Connections => <<u, v>> \in onchain \cup sent[u].adds
    /\ \A u \in Users : tx[u] = "settled" => sent[u].adds \subseteq onchain
Asks(v, w) ==        \* w's transitive job has still to ask for a job of v
    \/ place[Transitive(w)] = "waiting"
    \/ cjob = Transitive(w) /\ cpc \in {"check", "fetch"}
    \/ cjob = Transitive(w) /\ cpc = "form" /\ v \in todo
Covered(v, w) ==
    \/ <<v, w>> \in onchain
    \/ Failed(v) \/ place[Transitive(w)] = "failed"
    \/ {v, w} \cap Unscanned # {}
    \/ \E j \in Jobs : Live(j) /\ j.user = v
    \/ Asks(v, w)
CoverInv == \A v, w \in delegated : <<v, w>> \in Connections => Covered(v, w)
MirrorInv == WorkInv /\ NewcomerInv /\ TxInv /\ CoverInv

LEMMA JobKinds ==
    /\ NoJob \notin Jobs /\ NoTx \notin Txs
    /\ \A j \in Jobs : j = Plain(j.user) \/ j = Transitive(j.user)
    /\ \A j \in Jobs : j.transitive <=> j = Transitive(j.user)
    /\ \A u, v \in Users : Plain(u) # Transitive(v)
    /\ \A u \in Users : Plain(u).user = u /\ ~Plain(u).transitive
                        /\ Transitive(u).user = u /\ Transitive(u).transitive
    /\ \A u, v \in Users : /\ Transitive(u) = Transitive(v) => u = v
                           /\ Plain(u) = Plain(v) => u = v
<1>1. NoJob \notin Jobs /\ NoTx \notin Txs
  BY GraphAssumption DEF Jobs, NoJob, Txs, NoTx
<1>2. \A j \in Jobs : /\ j = Plain(j.user) \/ j = Transitive(j.user)
                      /\ j.transitive <=> j = Transitive(j.user)
  BY DEF Jobs, Plain, Transitive
<1>3. /\ \A u, v \in Users : Plain(u) # Transitive(v)
      /\ \A u \in Users : Plain(u).user = u /\ ~Plain(u).transitive
                          /\ Transitive(u).user = u /\ Transitive(u).transitive
      /\ \A u, v \in Users : /\ Transitive(u) = Transitive(v) => u = v
                             /\ Plain(u) = Plain(v) => u = v
  BY DEF Plain, Transitive
<1> QED
  BY <1>1, <1>2, <1>3

LEMMA JobsAreFinite == IsFiniteSet(Jobs)
<1> DEFINE pairs == Users \X BOOLEAN
           jobOf == [p \in pairs |-> [user |-> p[1], transitive |-> p[2]]]
<1>1. IsFiniteSet(pairs)
  <2>1. IsFiniteSet({TRUE} \cup {FALSE})
    BY FS_Singleton, FS_Union
  <2>2. BOOLEAN = {TRUE} \cup {FALSE}
    OBVIOUS
  <2> QED
    BY <2>1, <2>2, GraphAssumption, FS_Product
<1>2. jobOf \in Surjection(pairs, Jobs)
  <2>1. jobOf \in [pairs -> Jobs]
    BY DEF Jobs
  <2>2. \A j \in Jobs : <<j.user, j.transitive>> \in pairs /\ jobOf[<<j.user, j.transitive>>] = j
    BY DEF Jobs
  <2> QED
    BY <2>1, <2>2 DEF Surjection
<1> QED
  BY <1>1, <1>2, FS_Surjection

\* The queue is empty when its count is zero.
LEMMA QueueIsEmpty ==
    ASSUME queueCount = 0
    PROVE  \A j \in Jobs : place[j] \notin {"waiting", "parked"}
<1> DEFINE queued == {j \in Jobs : place[j] \in {"waiting", "parked"}}
<1>1. IsFiniteSet(queued)
  BY JobsAreFinite, FS_Subset
<1>2. queued = {}
  BY <1>1, FS_EmptySet DEF queueCount
<1> QED
  BY <1>2

LEMMA QuietMeansIdle ==
    ASSUME TypeOK, WorkInv, Quiet
    PROVE  (\A j \in Jobs : ~Live(j)) /\ judging = NoJob
<1>1. \A j \in Jobs : ~Live(j)
  BY QueueIsEmpty DEF Quiet, WorkInv, Live
<1> QED
  BY <1>1 DEF WorkInv, TypeOK, Live
LEMMA MirrorInit == Init => MirrorInv
<1> SUFFICES ASSUME Init PROVE MirrorInv
  OBVIOUS
<1> USE DEF Init
<1>1. WorkInv
  BY JobKinds DEF WorkInv
<1>2. NewcomerInv
  BY DEF NewcomerInv, Unscanned, Live
<1>3. TxInv
  BY JobKinds DEF TxInv, Live
<1>4. CoverInv
  BY DEF CoverInv
<1> QED
  BY <1>1, <1>2, <1>3, <1>4 DEF MirrorInv

\* The consumer's job, and the one that is judged, are the only ones of their user.
LEMMA Workers ==
    ASSUME TypeOK, WorkInv, NewcomerInv, TxInv
    PROVE  /\ cpc # "idle" => /\ cjob \in Jobs /\ cjob.user \in Users /\ place[cjob] = "active"
                              /\ Unscanned = {}
           /\ judging # NoJob => /\ judging \in Jobs /\ judging.user \in Users
                                 /\ place[judging] = "parked" /\ Unscanned = {}
                                 /\ tx[judging.user] \in {"settled", "failed"}
           /\ \A j, k \in Jobs : Live(j) /\ Live(k) /\ j.user = k.user => j = k
           /\ cpc # "idle" /\ judging # NoJob => judging.user # cjob.user
           /\ cpc # "idle" /\ cjob.transitive => tx[cjob.user] = "none"
<1>1. cpc # "idle" => /\ cjob \in Jobs /\ cjob.user \in Users /\ place[cjob] = "active"
                      /\ Unscanned = {}
  BY JobFields DEF TypeOK, WorkInv, NewcomerInv, Live
<1>2. judging # NoJob => /\ judging \in Jobs /\ judging.user \in Users
                         /\ place[judging] = "parked" /\ Unscanned = {}
                         /\ tx[judging.user] \in {"settled", "failed"}
  BY JobFields DEF TypeOK, WorkInv, NewcomerInv, TxInv, Live
<1>3. \A j, k \in Jobs : Live(j) /\ Live(k) /\ j.user = k.user => j = k
  <2> SUFFICES ASSUME NEW j \in Jobs, NEW k \in Jobs, Live(j), Live(k), j.user = k.user
               PROVE  j = k
    OBVIOUS
  <2>1. j.transitive <=> k.transitive
    BY DEF NewcomerInv
  <2> QED
    BY <2>1, JobKinds
<1>4. cpc # "idle" /\ judging # NoJob => judging.user # cjob.user
  BY <1>1, <1>2, <1>3 DEF Live
<1>5. cpc # "idle" /\ cjob.transitive => tx[cjob.user] = "none"
  BY <1>1, JobKinds DEF TxInv, Live
<1> QED
  BY <1>1, <1>2, <1>3, <1>4, <1>5

\* A verdict or a settlement: what happens to the tracked transactions.
LEMMA SettleKeepsNone ==
    ASSUME TypeOK, TxInv, NEW t \in pool, Settle(t)
    PROVE  /\ \A u \in Users : (tx'[u] = "none") = (tx[u] = "none")
           /\ \A u \in Users : tx[u] # "pending" => tx'[u] # "pending"
           /\ \A u \in Users : tx'[u] = "settled" => tx[u] = "settled" \/ sent[u].adds \subseteq onchain'
           /\ onchain \subseteq onchain' /\ pool' \subseteq pool
           /\ UNCHANGED <<delegated, scanVars, place, sent, workerVars, judging>>
<1>1. PICK status \in {"settled", "failed"} :
         /\ Settled(t, status)
         /\ status = "settled" => onchain' = onchain \cup t.adds
         /\ status = "failed" => UNCHANGED onchain
  BY DEF Settle, Include, PagesAreStale, TxFails
<1>2. t.user \in Users /\ t.adds # {}
  BY DEF TypeOK, TxInv, Txs
<1>3. sent[t.user] = t => tx[t.user] # "none"
  BY <1>2 DEF TxInv, NoTx
<1>4. tx' = IF sent[t.user] = t THEN [tx EXCEPT ![t.user] = status] ELSE tx
  BY <1>1 DEF Settled
<1>5. \A u \in Users : tx'[u] # tx[u] => u = t.user /\ sent[t.user] = t /\ tx'[u] = status
  BY <1>2, <1>4 DEF TypeOK
<1>6. \A u \in Users : (tx'[u] = "none") = (tx[u] = "none")
  BY <1>3, <1>5
<1>7. \A u \in Users : tx[u] # "pending" => tx'[u] # "pending"
  BY <1>5
<1>8. \A u \in Users : tx'[u] = "settled" => tx[u] = "settled" \/ sent[u].adds \subseteq onchain'
  BY <1>1, <1>5
<1> QED
  BY <1>1, <1>6, <1>7, <1>8 DEF Settled

LEMMA WorkNext ==
    ASSUME Staged, TypeOK, WorkInv, NewcomerInv, TxInv, [Next]_vars
    PROVE  WorkInv'
<1> USE Workers, JobKinds DEF WorkInv, chainVars, scanVars, txVars, workerVars
<1>1. CASE \E u \in Users : Delegate(u)
  BY <1>1, QuietMeansIdle DEF Delegate, Quiet
<1>2. CASE \E u \in Users : ScanDelegation(u)
  BY <1>2 DEF ScanDelegation, TypeOK
<1>3. CASE StartScan \/ EndScan \/ UNCHANGED vars
  BY <1>3 DEF StartScan, EndScan, vars
<1>4. CASE \E t \in pool : Settle(t)
  <2>1. /\ UNCHANGED <<delegated, place, workerVars, judging>>
        /\ \A u \in Users : tx[u] # "pending" => tx'[u] # "pending"
    BY <1>4, SettleKeepsNone DEF scanVars
  <2> QED
    BY <2>1
<1>5. CASE \E j \in Jobs : PickJob(j) \/ Judge(j)
  BY <1>5 DEF PickJob, Judge, TypeOK
<1>6. CASE AwaitTracked \/ StartUpdate \/ NothingToSend \/ SendUpdates
  BY <1>6 DEF AwaitTracked, StartUpdate, NothingToSend, SendUpdates, Idle, TypeOK
<1>7. CASE FetchGraph
  <2>1. cjob.user \notin Followers(cjob.user)
    BY GraphAssumption DEF Followers
  <2> QED
    BY <1>7, <2>1 DEF FetchGraph
<1>8. CASE \E v \in Users : QueueConnection(v)
  <2> PICK v \in Users : QueueConnection(v)
    BY <1>8
  <2>1. place' = place \/ (~Locked(Plain(v)) /\ place' = [place EXCEPT ![Plain(v)] = "waiting"])
    BY DEF QueueConnection, Replaced
  <2>2. \A j \in Jobs : /\ place[j] = "active" <=> place'[j] = "active"
                        /\ judging = j => place'[j] = place[j]
    BY <2>1 DEF Locked, TypeOK
  <2> QED
    BY <2>2 DEF QueueConnection
<1>9. CASE JobFails
  BY <1>9 DEF JobFails, Idle, TypeOK
<1>10. CASE Verdict
  BY <1>10 DEF Verdict, TypeOK
<1> QED
  BY <1>1, <1>2, <1>3, <1>4, <1>5, <1>6, <1>7, <1>8, <1>9, <1>10 DEF Next, ConsumerStep
\* Between two delegations nothing becomes live but the newcomer's transitive job, when
\* its delegation is found, and the plain jobs it asks for: never one of its own user.
LEMMA NewcomerNext ==
    ASSUME Staged, TypeOK, WorkInv, NewcomerInv, TxInv, [Next]_vars
    PROVE  NewcomerInv'
<1> USE Workers, JobKinds, JobFields DEF NewcomerInv, chainVars, scanVars, txVars, workerVars
<1>1. CASE \E u \in Users : Delegate(u)
  <2>1. (\A j \in Jobs : ~Live(j)) /\ Unscanned = {} /\ pool = {} /\ \A u \in Users : tx[u] = "none"
    BY <1>1, QuietMeansIdle DEF Delegate, Quiet, Unscanned
  <2>2. PICK u \in Users : delegated' = delegated \cup {u} /\ UNCHANGED <<scanned, place, pool, tx>>
    BY <1>1 DEF Delegate
  <2>3. \A v \in Unscanned' : v = u
    BY <2>1, <2>2 DEF Unscanned
  <2> QED
    BY <2>1, <2>2, <2>3 DEF Live
<1>2. CASE \E u \in Users : ScanDelegation(u)
  <2>1. PICK u \in Users : ScanDelegation(u)
    BY <1>2
  <2>2. (\A j \in Jobs : ~Live(j)) /\ \A v \in Unscanned : v = u
    BY <2>1 DEF ScanDelegation, Unscanned
  <2>3. Unscanned' = {}
    BY <2>1, <2>2 DEF ScanDelegation, Unscanned
  <2>4. \A j \in Jobs : Live(j)' => j = Transitive(u)
    BY <2>1, <2>2 DEF ScanDelegation, Live, TypeOK
  <2> QED
    BY <2>1, <2>3, <2>4
<1>3. CASE StartScan \/ EndScan \/ UNCHANGED vars
  BY <1>3 DEF StartScan, EndScan, vars, Unscanned, Live
<1>4. CASE \E t \in pool : Settle(t)
  <2>1. /\ UNCHANGED <<delegated, scanned, place>> /\ pool' \subseteq pool
        /\ \A u \in Users : tx[u] = "none" => tx'[u] = "none"
    BY <1>4, SettleKeepsNone
  <2> QED
    BY <2>1 DEF Unscanned, Live
<1>5. CASE \E v \in Users : QueueConnection(v)
  <2> PICK v \in Users : QueueConnection(v)
    BY <1>5
  <2>1. cpc = "form" /\ cjob.transitive /\ v # cjob.user /\ Live(cjob) /\ cjob \in Jobs
    BY DEF QueueConnection, WorkInv, Live
  <2>2. place' = place \/ place' = [place EXCEPT ![Plain(v)] = "waiting"]
    BY DEF QueueConnection, Replaced
  <2>3. \A j \in Jobs : Live(j)' => Live(j) \/ j = Plain(v)
    BY <2>2 DEF Live, TypeOK
  <2>4. Unscanned = {} /\ UNCHANGED <<delegated, scanned>>
    BY <2>1 DEF QueueConnection
  <2>5. \A j, k \in Jobs : (Live(j) \/ j = Plain(v)) /\ (Live(k) \/ k = Plain(v)) /\ j.transitive
                              => (k.transitive <=> k.user = j.user)
    <3> SUFFICES ASSUME NEW j \in Jobs, NEW k \in Jobs, Live(j), j.transitive, k = Plain(v)
                 PROVE  k.transitive <=> k.user = j.user
      OBVIOUS
    <3>1. j.user = cjob.user
      BY <2>1
    <3> QED
      BY <2>1, <3>1
  <2> QED
    BY <2>3, <2>4, <2>5 DEF Unscanned
<1>6. CASE \/ \E j \in Jobs : PickJob(j) \/ Judge(j)
           \/ AwaitTracked \/ StartUpdate \/ FetchGraph \/ NothingToSend \/ SendUpdates
           \/ JobFails \/ Verdict
  <2>1. Unscanned = {}
    BY <1>6 DEF PickJob, Judge, AwaitTracked, StartUpdate, FetchGraph, NothingToSend, SendUpdates,
       JobFails, Verdict, Live
  <2>2. UNCHANGED <<delegated, scanned>>
    BY <1>6 DEF PickJob, Judge, AwaitTracked, StartUpdate, FetchGraph, NothingToSend, SendUpdates,
       JobFails, Verdict
  <2>3. \A j \in Jobs : Live(j)' => Live(j)
    <3>1. CASE \E j \in Jobs : PickJob(j) \/ Judge(j)
      BY <3>1 DEF PickJob, Judge, Live, TypeOK
    <3>2. CASE AwaitTracked \/ StartUpdate \/ FetchGraph \/ NothingToSend \/ SendUpdates \/ JobFails
      BY <3>2 DEF AwaitTracked, StartUpdate, FetchGraph, NothingToSend, SendUpdates, JobFails,
         Live, TypeOK
    <3>3. CASE Verdict
      BY <3>3 DEF Verdict, Live, TypeOK
    <3> QED
      BY <1>6, <3>1, <3>2, <3>3
  <2> QED
    BY <2>1, <2>2, <2>3 DEF Unscanned
<1> QED
  BY <1>1, <1>2, <1>3, <1>4, <1>5, <1>6 DEF Next, ConsumerStep

\* What a user's job sends is all that is missing then, and nobody delegates before it
\* is settled, so that it stays all that is missing.
LEMMA SentIsAll ==
    ASSUME TypeOK, WorkInv, cpc = "form", cjob.user \in delegated,
           NEW v \in delegated, <<cjob.user, v>> \in Connections
    PROVE  <<cjob.user, v>> \in onchain \cup Updates(cjob.user)
<1>1. v \in answer \cap Followed(cjob.user)
  BY DEF WorkInv, Followed, TypeOK
<1> QED
  BY <1>1 DEF Updates, Actions, Pages

LEMMA TxNext ==
    ASSUME Staged, TypeOK, WorkInv, NewcomerInv, TxInv, [Next]_vars
    PROVE  TxInv'
<1> USE Workers, JobKinds, JobFields DEF TxInv, chainVars, scanVars, txVars, workerVars
<1>1. CASE \E u \in Users : Delegate(u)
  BY <1>1 DEF Delegate, Quiet, Live
<1>2. CASE \E u \in Users : ScanDelegation(u)
  <2>1. PICK u \in Users : ScanDelegation(u)
    BY <1>2
  <2>2. \A v \in Users : tx[v] = "none"
    BY <2>1 DEF ScanDelegation, NewcomerInv, Unscanned
  <2>3. \A j \in Jobs : place'[j] = "parked" => place[j] = "parked"
    BY <2>1 DEF ScanDelegation, TypeOK
  <2> QED
    BY <2>1, <2>2, <2>3 DEF ScanDelegation
<1>3. CASE StartScan \/ EndScan \/ UNCHANGED vars
  BY <1>3 DEF StartScan, EndScan, vars, Live
<1>4. CASE \E t \in pool : Settle(t)
  BY <1>4, SettleKeepsNone DEF Live
<1>5. CASE \E v \in Users : QueueConnection(v)
  <2> PICK v \in Users : QueueConnection(v)
    BY <1>5
  <2>1. place' = place \/ place' = [place EXCEPT ![Plain(v)] = "waiting"]
    BY DEF QueueConnection, Replaced
  <2>2. /\ \A j \in Jobs : place'[j] = "parked" => place[j] = "parked"
        /\ \A u \in Users : place'[Transitive(u)] = place[Transitive(u)]
    BY <2>1 DEF TypeOK
  <2> QED
    BY <2>2 DEF QueueConnection, Live
<1>6. CASE \E j \in Jobs : PickJob(j) \/ Judge(j)
  BY <1>6 DEF PickJob, Judge, Live, TypeOK
<1>7. CASE AwaitTracked
  BY <1>7 DEF AwaitTracked, doesJobKeyExist, Live, TypeOK
<1>8. CASE StartUpdate \/ FetchGraph \/ NothingToSend \/ JobFails
  <2>1. UNCHANGED <<delegated, onchain, pool, tx, sent>>
    BY <1>8 DEF StartUpdate, FetchGraph, NothingToSend, JobFails
  <2>2. \A j \in Jobs : /\ place'[j] = "parked" => place[j] = "parked"
                        /\ place'[j] # place[j] => j = cjob /\ place[j] = "active"
    BY <1>8 DEF StartUpdate, FetchGraph, NothingToSend, JobFails, TypeOK
  <2>3. \A j \in Jobs : Live(j)' => Live(j)
    BY <2>2 DEF Live
  <2> QED
    BY <2>1, <2>2, <2>3 DEF Live
<1>9. CASE SendUpdates
  <2> DEFINE u == cjob.user
             t == [user |-> u, adds |-> Updates(u), imported |-> Pages(u)]
  <2>1. /\ u \in Users /\ cpc = "form" /\ t.adds # {}
        /\ pool' = pool \cup {t} /\ sent' = [sent EXCEPT ![u] = t] /\ tx' = [tx EXCEPT ![u] = "pending"]
        /\ place' = [place EXCEPT ![cjob] = "parked"] /\ UNCHANGED <<delegated, onchain>>
    BY <1>9 DEF SendUpdates
  <2>2. u \in delegated
    BY <1>9 DEF SendUpdates, Updates, Actions
  <2>3. \A v \in delegated : <<u, v>> \in Connections => <<u, v>> \in onchain \cup t.adds
    BY <2>1, <2>2, SentIsAll
  <2>4. \A w \in Users : Live(Transitive(w))' => Live(Transitive(w))
    BY <2>1 DEF Live, TypeOK
  <2>5. Live(Transitive(u)) => cjob = Transitive(u)
    BY <2>1 DEF Live
  <2> HIDE DEF t
  <2>6. (\A s \in pool : s.adds # {})'
    BY <2>1
  <2>7. \A w \in Users : tx'[w] = "none" => sent'[w] = NoTx
    BY <2>1 DEF TypeOK
  <2>8. \A j \in Jobs : place'[j] = "parked" => tx'[j.user] # "none"
    BY <2>1 DEF TypeOK
  <2>9. \A w \in Users : tx'[w] # "none" /\ Live(Transitive(w))' => place'[Transitive(w)] = "parked"
    BY <2>1, <2>4, <2>5 DEF TypeOK
  <2>10. \A w \in Users : tx'[w] # "none" =>
           \A v \in delegated' : <<w, v>> \in Connections => <<w, v>> \in onchain' \cup sent'[w].adds
    BY <2>1, <2>3 DEF TypeOK
  <2>11. \A w \in Users : tx'[w] = "settled" => sent'[w].adds \subseteq onchain'
    BY <2>1 DEF TypeOK
  <2> QED
    BY <2>6, <2>7, <2>8, <2>9, <2>10, <2>11
<1>10. CASE Verdict
  <2>1. /\ judging \in Jobs /\ place[judging] = "parked" /\ place'[judging] # "parked"
        /\ \A j \in Jobs \ {judging} : place'[j] = place[j]
        /\ UNCHANGED <<delegated, onchain, pool>>
    BY <1>10 DEF Verdict, TypeOK
  <2>2. /\ tx' = [tx EXCEPT ![judging.user] = "none"]
        /\ sent' = [sent EXCEPT ![judging.user] = NoTx]
    BY <1>10 DEF Verdict
  <2>3. \A j \in Jobs \ {judging} : place[j] = "parked" => j.user # judging.user
    BY <2>1 DEF Live
  <2> QED
    BY <2>1, <2>2, <2>3 DEF TypeOK, Live
<1> QED
  BY <1>1, <1>2, <1>3, <1>4, <1>5, <1>6, <1>7, <1>8, <1>9, <1>10 DEF Next, ConsumerStep
\* A connection leaves one of the ways of Covered only for another, or for the chain.
LEMMA CoverNext ==
    ASSUME Staged, TypeOK, MirrorInv, [Next]_vars
    PROVE  CoverInv'
<1> USE Workers, JobKinds, JobFields DEF MirrorInv, chainVars, scanVars, txVars, workerVars
<1>1. CASE \E u \in Users : Delegate(u)
  <2>1. PICK u \in Users : delegated' = delegated \cup {u}
                           /\ UNCHANGED <<onchain, scanned, place, cpc, cjob, todo>>
    BY <1>1 DEF Delegate
  <2>2. \A v, w \in delegated' : {v, w} \cap Unscanned' # {} \/ {v, w} \subseteq delegated
    BY <2>1, <1>1 DEF Unscanned, Delegate, TypeOK
  <2>3. \A v, w : Covered(v, w) => Covered(v, w)'
    BY <2>1 DEF Covered, Asks, Failed, Live, Unscanned
  <2> QED
    BY <2>2, <2>3 DEF CoverInv, Covered
<1> SUFFICES ASSUME UNCHANGED delegated,
                    NEW v \in delegated, NEW w \in delegated, <<v, w>> \in Connections,
                    Covered(v, w)
             PROVE  Covered(v, w)'
  <2>1. CASE \E u \in Users : Delegate(u)
    BY <1>1, <2>1
  <2>2. CASE ~\E u \in Users : Delegate(u)
    <3>1. UNCHANGED delegated
      BY <2>2 DEF Next, vars, ScanDelegation, Settle, Include, PagesAreStale, TxFails, Settled,
         StartScan, EndScan, PickJob, Judge, ConsumerStep, AwaitTracked, StartUpdate, FetchGraph,
         NothingToSend, SendUpdates, QueueConnection, JobFails, Verdict
    <3> QED
      BY <3>1 DEF CoverInv
  <2> QED
    BY <2>1, <2>2
<1> USE DEF Covered
<1>0. v \in Users /\ w \in Users /\ v # w
  BY GraphAssumption DEF TypeOK
<1>2. CASE \E u \in Users : ScanDelegation(u)
  <2>1. PICK u \in Users : ScanDelegation(u)
    BY <1>2
  <2>2. (\A j \in Jobs : ~Live(j)) /\ \A x \in Unscanned : x = u
    BY <2>1 DEF ScanDelegation, Unscanned, NewcomerInv
  <2>3. place'[Transitive(u)] = "waiting" /\ \A j \in Jobs \ {Transitive(u)} : place'[j] = place[j]
    BY <2>1, <2>2 DEF ScanDelegation, Live, TypeOK, Places
  <2>4. cpc = "idle" /\ onchain' = onchain /\ cpc' = cpc
    BY <2>1, <2>2 DEF ScanDelegation, Live
  <2>5. CASE u = v
    BY <2>3, <2>5 DEF Live
  <2>6. CASE u = w
    BY <2>3, <2>6 DEF Asks
  <2>7. CASE u # v /\ u # w
    <3>1. <<v, w>> \in onchain \/ Failed(v) \/ place[Transitive(w)] = "failed"
      BY <1>0, <2>2, <2>4, <2>7 DEF Asks, Live
    <3>2. Failed(v) => Failed(v)'
      BY <2>3, <2>7 DEF Failed
    <3> QED
      BY <1>0, <2>3, <2>4, <2>7, <3>1, <3>2
  <2> QED
    BY <2>5, <2>6, <2>7
<1>3. CASE StartScan \/ EndScan \/ UNCHANGED vars \/ \E j \in Jobs : Judge(j)
  BY <1>3 DEF StartScan, EndScan, Judge, vars, Unscanned, Live, Failed, Asks
<1>4. CASE \E t \in pool : Settle(t)
  <2>1. UNCHANGED <<scanned, place, cpc, cjob, todo>> /\ onchain \subseteq onchain'
    BY <1>4, SettleKeepsNone
  <2> QED
    BY <2>1 DEF Unscanned, Live, Failed, Asks
<1>5. CASE \E v2 \in Users : QueueConnection(v2)
  <2> PICK x \in Users : QueueConnection(x)
    BY <1>5
  <2>1. place' = place \/ place' = [place EXCEPT ![Plain(x)] = "waiting"]
    BY DEF QueueConnection, Replaced
  <2>2. /\ place'[Transitive(w)] = place[Transitive(w)] /\ \A j \in Jobs : Live(j) => Live(j)'
        /\ UNCHANGED <<onchain, scanned, cjob, cpc>> /\ todo' = todo \ {x} /\ cpc = "form"
    <3>1. /\ UNCHANGED <<onchain, scanned, cjob, cpc>> /\ todo' = todo \ {x} /\ cpc = "form"
      BY DEF QueueConnection
    <3>2. place'[Transitive(w)] = place[Transitive(w)]
      BY <1>0, <2>1 DEF TypeOK
    <3>3. \A j \in Jobs : Live(j) => Live(j)'
      BY <2>1 DEF TypeOK, Live
    <3> QED
      BY <3>1, <3>2, <3>3
  <2>3. Failed(v) => Failed(v)' \/ \E j \in Jobs : Live(j)' /\ j.user = v
    BY <2>1 DEF Failed, Live, TypeOK
  <2>4. x = v => Live(Plain(v))'
    BY DEF QueueConnection, Replaced, Locked, Live, TypeOK, WorkInv
  <2>5. Asks(v, w) => x = v \/ Asks(v, w)'
    BY <2>2 DEF Asks
  <2> QED
    BY <1>0, <2>2, <2>3, <2>4, <2>5 DEF Unscanned
<1>6. CASE \E j \in Jobs : PickJob(j)
  <2>1. PICK j \in Jobs : PickJob(j)
    BY <1>6
  <2>2. /\ cpc = "idle" /\ place[j] = "waiting" /\ place' = [place EXCEPT ![j] = "active"]
        /\ cpc' = "check" /\ cjob' = j /\ UNCHANGED <<onchain, scanned>>
    BY <2>1 DEF PickJob
  <2>3. Failed(v) => Failed(v)'
    BY <2>2 DEF Failed, TypeOK
  <2>4. \A k \in Jobs : Live(k) => Live(k)'
    BY <2>2 DEF Live, TypeOK
  <2>5. Asks(v, w) => Asks(v, w)'
    BY <1>0, <2>2 DEF Asks, TypeOK
  <2>6. place[Transitive(w)] = "failed" => place'[Transitive(w)] = "failed"
    BY <1>0, <2>2 DEF TypeOK
  <2> QED
    BY <2>2, <2>3, <2>4, <2>5, <2>6 DEF Unscanned
<1>7. CASE StartUpdate \/ FetchGraph
  <2>1. UNCHANGED <<onchain, scanned, place, cjob>>
    BY <1>7 DEF StartUpdate, FetchGraph
  <2>2. Asks(v, w) => Asks(v, w)'
    <3>1. CASE StartUpdate
      BY <3>1 DEF StartUpdate, Asks
    <3>2. CASE FetchGraph
      BY <1>0, <3>2 DEF FetchGraph, Asks, Followers
    <3> QED
      BY <1>7, <3>1, <3>2
  <2> QED
    BY <2>1, <2>2 DEF Unscanned, Failed, Live
<1>8. CASE AwaitTracked \/ NothingToSend \/ SendUpdates \/ JobFails
  <2>1. /\ cpc # "idle" /\ UNCHANGED <<onchain, scanned>>
        /\ \A j \in Jobs \ {cjob} : place'[j] = place[j]
    BY <1>8 DEF AwaitTracked, NothingToSend, SendUpdates, JobFails, TypeOK
  <2>2. Unscanned = {} /\ cjob \in Jobs /\ place[cjob] = "active"
    BY <2>1
  <2>3. Failed(v) => Failed(v)'
    BY <2>1, <2>2 DEF Failed
  <2>4. place[Transitive(w)] = "failed" => place'[Transitive(w)] = "failed"
    BY <1>0, <2>1, <2>2
  <2>5. (\E j \in Jobs : Live(j) /\ j.user = v) =>
           Failed(v)' \/ (\E j \in Jobs : Live(j)' /\ j.user = v) \/ <<v, w>> \in onchain
    <3> SUFFICES ASSUME NEW j \in Jobs, Live(j), j.user = v
                 PROVE  Failed(v)' \/ (\E k \in Jobs : Live(k)' /\ k.user = v) \/ <<v, w>> \in onchain
      OBVIOUS
    <3>1. CASE j # cjob
      BY <2>1, <3>1 DEF Live
    <3>2. CASE j = cjob /\ NothingToSend
      BY <3>2, SentIsAll DEF NothingToSend
    <3>3. CASE j = cjob /\ ~NothingToSend
      BY <1>8, <3>3 DEF AwaitTracked, SendUpdates, JobFails, TypeOK, Live, Failed
    <3> QED
      BY <3>1, <3>2, <3>3
  <2>6. Asks(v, w) => Asks(v, w)' \/ place'[Transitive(w)] = "failed"
    <3>1. place[Transitive(w)] = "waiting" => place'[Transitive(w)] = "waiting"
      BY <1>0, <2>1, <2>2
    <3>2. CASE cjob = Transitive(w) /\ cpc \in {"check", "fetch"}
      <4>1. JobFails
        BY <1>0, <1>8, <3>2 DEF AwaitTracked, doesJobKeyExist, NothingToSend, SendUpdates
      <4> QED
        BY <2>2, <3>2, <4>1 DEF JobFails, Asks, TypeOK
    <3>3. CASE cjob = Transitive(w) /\ cpc = "form" /\ v \in todo
      <4>1. JobFails
        BY <1>8, <3>3 DEF AwaitTracked, NothingToSend, SendUpdates
      <4> QED
        BY <2>2, <3>3, <4>1 DEF JobFails, Asks, TypeOK
    <3> QED
      BY <3>1, <3>2, <3>3 DEF Asks
  <2> QED
    BY <2>1, <2>2, <2>3, <2>4, <2>5, <2>6 DEF Unscanned
<1>9. CASE Verdict
  <2>1. /\ judging \in Jobs /\ place[judging] = "parked" /\ Unscanned = {}
        /\ \A j \in Jobs \ {judging} : place'[j] = place[j]
        /\ UNCHANGED <<onchain, scanned, cpc, cjob, todo>>
    BY <1>9 DEF Verdict, TypeOK
  <2>2. Failed(v) => Failed(v)'
    BY <2>1 DEF Failed
  <2>3. place[Transitive(w)] = "failed" => place'[Transitive(w)] = "failed"
    BY <1>0, <2>1
  <2>4. (\E j \in Jobs : Live(j) /\ j.user = v) =>
           Failed(v)' \/ (\E j \in Jobs : Live(j)' /\ j.user = v) \/ <<v, w>> \in onchain
    <3> SUFFICES ASSUME NEW j \in Jobs, Live(j), j.user = v
                 PROVE  Failed(v)' \/ (\E k \in Jobs : Live(k)' /\ k.user = v) \/ <<v, w>> \in onchain
      OBVIOUS
    <3>1. CASE j # judging
      BY <2>1, <3>1 DEF Live
    <3>2. CASE j = judging /\ tx[v] = "failed"
      BY <1>9, <3>2 DEF Verdict, TypeOK, Live, Failed
    <3>3. CASE j = judging /\ tx[v] # "failed"
      <4>1. tx[v] = "settled"
        BY <1>9, <3>3 DEF Verdict
      <4> QED
        BY <1>0, <4>1 DEF TxInv
    <3> QED
      BY <3>1, <3>2, <3>3
  <2>5. Asks(v, w) => Asks(v, w)'
    BY <1>0, <2>1 DEF Asks
  <2> QED
    BY <2>1, <2>2, <2>3, <2>4, <2>5 DEF Unscanned
<1> QED
  BY <1>1, <1>2, <1>3, <1>4, <1>5, <1>6, <1>7, <1>8, <1>9 DEF CoverInv, Next, ConsumerStep

LEMMA MirrorNext == Staged /\ TypeOK /\ MirrorInv /\ [Next]_vars => MirrorInv'
BY WorkNext, NewcomerNext, TxNext, CoverNext DEF MirrorInv

LEMMA MirrorSuffices == TypeOK /\ MirrorInv => QuietMeansMirrored
<1> SUFFICES ASSUME TypeOK, MirrorInv, Quiet, NEW e \in Connections, Both(e)
             PROVE  e \in onchain
  BY DEF QuietMeansMirrored
<1>1. e = <<e[1], e[2]>> /\ e[1] \in delegated /\ e[2] \in delegated /\ e[2] \in Users
  BY GraphAssumption DEF Both
<1>2. Covered(e[1], e[2])
  BY <1>1 DEF MirrorInv, CoverInv
<1>3. (\A j \in Jobs : ~Live(j)) /\ Unscanned = {} /\ cpc = "idle"
  BY QuietMeansIdle DEF MirrorInv, Unscanned, Quiet
<1>4. ~Failed(e[1]) /\ place[Transitive(e[2])] # "failed"
  BY <1>1, JobFields, JobKinds DEF Both, Failed
<1>5. ~Asks(e[1], e[2])
  BY <1>1, <1>3, JobFields DEF Asks, Live
<1> QED
  BY <1>1, <1>2, <1>3, <1>4, <1>5 DEF Covered

\* Provided that nobody delegates while an update is under way, the social graph is
\* whole whenever the service is quiet: the job of whoever delegated second has asked
\* for, and got, the update of everyone connected to it, whatever fails and is retried
\* in between.  Without that proviso it is not so (the run migration_overlap).
THEOREM MirrorCorrect == ASSUME Staged PROVE Spec => []QuietMeansMirrored
<1>1. Staged
  OBVIOUS
<1>2. TypeOK /\ MirrorInv /\ [Next]_vars => MirrorInv'
  BY <1>1, MirrorNext
<1> QED
  BY <1>2, TypeInit, TypeNext, MirrorInit, MirrorSuffices, PTL DEF Spec
=============================================================================
