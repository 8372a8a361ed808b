-------------------------- MODULE NonceAllocator --------------------------
(***************************************************************************)
(* Which nonce a transaction of the provider gets.                         *)
(*                                                                         *)
(* getNextNonce asks the node for the account's next index, and then lets  *)
(* a Lua script reserve the first index from there for which Redis has no  *)
(* key.  Keys expire after a few seconds.  The node may have an older view *)
(* when the script runs, a reserved nonce may never be sent, and several   *)
(* instances of the service share the account and Redis.                   *)
(*                                                                         *)
(* The node's pool keeps a transaction whose predecessors are missing, but *)
(* it does not go into a block, and the next index is the first one that   *)
(* is missing.                                                             *)
(***************************************************************************)
EXTENDS Integers

CONSTANTS
    Calls,       \* calls of processSingleBatch at once, one for each instance
    KeysToCheck, \* NUMBER_OF_NONCE_KEYS_TO_CHECK
    MaxNonce,    \* BOUND: the last next index that is asked for
    MaxFaults    \* BOUND: calls that die and transactions the pool drops

ASSUME NonceAssumption ==
    KeysToCheck \in Nat \ {0} /\ MaxNonce \in Nat /\ MaxFaults \in Nat

Nonces == 0..MaxNonce + KeysToCheck

VARIABLES
    chainNonce,  \* the account's transactions in blocks
    pool,        \* nonces of those in the pool
    keys,        \* nonces whose key is in Redis
    pc, nonce,   \* step of each call; the index it read, then the one it reserved
    faults,
    unguarded    \* HISTORY: nonces handed out without a key, or whose key has expired

vars == <<chainNonce, pool, keys, pc, nonce, faults, unguarded>>

TypeOK ==
    /\ chainNonce \in 0..MaxNonce + KeysToCheck + 1
    /\ pool \subseteq Nonces /\ keys \subseteq Nonces /\ unguarded \subseteq Nonces
    /\ pc \in [Calls -> {"idle", "reserve", "send"}] /\ nonce \in [Calls -> Nonces]
    /\ faults \in 0..MaxFaults

Init ==
    /\ chainNonce = 0 /\ pool = {} /\ keys = {} /\ unguarded = {}
    /\ pc = [c \in Calls |-> "idle"] /\ nonce = [c \in Calls |-> 0]
    /\ faults = 0

(***************************************************************************)
(* The node                                                                *)
(***************************************************************************)
Taken(n) == n < chainNonce \/ n \in pool
IsNextIndex(n) == ~Taken(n) /\ \A m \in Nonces : m < n => Taken(m)

Include ==
    /\ chainNonce \in pool
    /\ chainNonce' = chainNonce + 1 /\ pool' = pool \ {chainNonce}
    /\ UNCHANGED <<keys, pc, nonce, faults, unguarded>>

Fault == faults < MaxFaults /\ faults' = faults + 1

DropTx(n) ==         \* its era is over
    /\ Fault /\ n \in pool
    /\ pool' = pool \ {n}
    /\ UNCHANGED <<chainNonce, keys, pc, nonce, unguarded>>

(***************************************************************************)
(* getNextNonce, and what processSingleBatch does with it                  *)
(***************************************************************************)
StepTo(c, step) == pc' = [pc EXCEPT ![c] = step]

GetNonce(c) ==
    /\ pc[c] = "idle" /\ StepTo(c, "reserve")
    /\ \E n \in 0..MaxNonce : IsNextIndex(n) /\ nonce' = [nonce EXCEPT ![c] = n]
    /\ UNCHANGED <<chainNonce, pool, keys, faults, unguarded>>

getNextPossibleKeys(n) == n..n + KeysToCheck - 1
FirstFree(n, k) ==
    /\ k \in getNextPossibleKeys(n) \ keys
    /\ \A j \in getNextPossibleKeys(n) : j < k => j \in keys

Full_Mutant(c) ==    \* MUTANT: the script's -1 is not looked for
    /\ getNextPossibleKeys(nonce[c]) \subseteq keys
    /\ nonce' = [nonce EXCEPT ![c] = @ + (-1) - 1]
    /\ UNCHANGED <<keys, unguarded>>

Full(c) ==           \* every key exists: the next nonce, without a key
    /\ getNextPossibleKeys(nonce[c]) \subseteq keys
    /\ nonce' = [nonce EXCEPT ![c] = @ + KeysToCheck]
    /\ keys' = keys
    /\ unguarded' = unguarded \cup {nonce[c] + KeysToCheck}

IncrementNonce_Peek(c) ==   \* MUTANT: peekNonce is called
    \E k \in Nonces :
        /\ FirstFree(nonce[c], k)
        /\ nonce' = [nonce EXCEPT ![c] = k]
        /\ UNCHANGED <<keys, unguarded>>

IncrementNonce(c) == \* the script is atomic
    \E k \in Nonces :
        /\ FirstFree(nonce[c], k)
        /\ nonce' = [nonce EXCEPT ![c] = k]
        /\ keys' = keys \cup {k}
        /\ UNCHANGED unguarded

Reserve(c) ==
    /\ pc[c] = "reserve" /\ StepTo(c, "send")
    /\ IncrementNonce(c) \/ Full(c)
    /\ UNCHANGED <<chainNonce, pool, faults>>

Expire_Mutant(k) ==  \* MUTANT: SET instead of SETEX
    k \in keys /\ UNCHANGED vars

Expire(k) ==
    /\ k \in keys /\ keys' = keys \ {k}
    /\ unguarded' = unguarded \cup {k}
    /\ UNCHANGED <<chainNonce, pool, pc, nonce, faults>>

Return(c) == StepTo(c, "idle") /\ nonce' = [nonce EXCEPT ![c] = 0]

Send(c) ==           \* the node refuses a nonce that is taken, and the call throws
    /\ pc[c] = "send" /\ Return(c)
    /\ pool' = IF Taken(nonce[c]) THEN pool ELSE pool \cup {nonce[c]}
    /\ UNCHANGED <<chainNonce, keys, faults, unguarded>>

CallDies(c) ==       \* the connection is lost, or the process ends
    /\ Fault /\ pc[c] # "idle" /\ Return(c)
    /\ UNCHANGED <<chainNonce, pool, keys, unguarded>>

Next ==
    \/ Include
    \/ \E n \in Nonces : DropTx(n) \/ Expire(n)
    \/ \E c \in Calls : GetNonce(c) \/ Reserve(c) \/ Send(c) \/ CallDies(c)

Spec == Init /\ [][Next]_vars

\* Calls are answered, keys expire, and there is a next call: what waits for a missing
\* nonce is called expired after its era, and its job sends another transaction.
Fairness ==
    /\ WF_vars(\E c \in Calls : GetNonce(c))
    /\ \A c \in Calls : WF_vars(Reserve(c)) /\ WF_vars(Send(c))
    /\ \A k \in Nonces : WF_vars(Expire(k))

FairSpec == Spec /\ Fairness

(***************************************************************************)
(* Properties                                                              *)
(***************************************************************************)
\* Two calls do not send the same nonce, and no call sends one that is in the pool or
\* on the chain already, unless its key expired or all keys existed: not even when the
\* index was read long before the script ran.
NonceIsFresh ==
    \A c \in Calls : pc[c] = "send" /\ nonce[c] \notin unguarded =>
        /\ ~Taken(nonce[c])
        /\ \A d \in Calls \ {c} : pc[d] = "send" => nonce[d] # nonce[c]

\* A nonce that was skipped, and that later ones wait for, is submitted "after
\* expiration" (cache-utils.ts:5), whatever was reserved and sent in the meantime.
Gap(n) == IsNextIndex(n) /\ \E k \in pool : k > n
SkippedNonceIsFilled == \A n \in 0..MaxNonce : Gap(n) ~> ~Gap(n)
=============================================================================
