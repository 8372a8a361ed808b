--------------------------- MODULE UpdateRequests ---------------------------
(***************************************************************************)
(* What the job queue promises to those who ask for the update of a user's *)
(* graph: a request stays until every page that changes is on the chain,   *)
(* or until it is seen to have failed, and it may then be made again.      *)
(* Only a dead letter, itself made from another request, may be taken      *)
(* back; only a crash may break the promise, and users who have not        *)
(* granted the update have no claim to it.  GraphUpdateJobs implements it. *)
(***************************************************************************)
CONSTANTS Jobs, Users, Pages,
          Excused       \* the users whose grants may be missing

VARIABLES
    request,      \* "none", "open" or "failed" for each job
    onchain,      \* pages of each user already updated on chain
    crashed

vars == <<request, onchain, crashed>>

Init ==
    /\ request = [j \in Jobs |-> "none"]
    /\ onchain = [u \in Users |-> {}]
    /\ crashed = FALSE

Becomes(j, r) == request' = [request EXCEPT ![j] = r] /\ UNCHANGED <<onchain, crashed>>

Ask(j) == request[j] # "open" /\ Becomes(j, "open")
Fail(j) == request[j] = "open" /\ Becomes(j, "failed")
Complete(j) ==
    /\ request[j] = "open"
    /\ onchain[j.user] = Pages \/ crashed \/ j.user \in Excused
    /\ Becomes(j, "none")
Withdraw(j) == j.dead /\ Becomes(j, "none")

Publish(u) ==
    /\ \E ps \in SUBSET Pages : onchain' = [onchain EXCEPT ![u] = @ \cup ps]
    /\ UNCHANGED <<request, crashed>>

Crash ==              \* some of the open requests fail
    /\ \E js \in SUBSET {j \in Jobs : request[j] = "open"} :
           request' = [j \in Jobs |-> IF j \in js THEN "failed" ELSE request[j]]
    /\ crashed' = TRUE /\ UNCHANGED onchain

Next ==
    \/ \E j \in Jobs : Ask(j) \/ Fail(j) \/ Complete(j) \/ Withdraw(j)
    \/ \E u \in Users : Publish(u)
    \/ Crash

Spec == Init /\ [][Next]_vars
=============================================================================
