----------------------- MODULE NonceAllocatorProofs -----------------------
(***************************************************************************)
(* Proofs about NonceAllocator, for any number of calls and keys.          *)
(***************************************************************************)
EXTENDS NonceAllocator, TLAPS

LEMMA NonceFacts == KeysToCheck \in Nat \ {0} /\ MaxNonce \in Nat /\ MaxFaults \in Nat
BY NonceAssumption

\* An index that was read is asked for only up to the bound, so that what is reserved from
\* it is in range.
AskedInRange == \A c \in Calls : pc[c] # "send" => nonce[c] \in 0..MaxNonce
NonceTyped == TypeOK /\ AskedInRange

LEMMA TypeInit == Init => NonceTyped
BY NonceFacts DEF Init, NonceTyped, TypeOK, AskedInRange, Nonces

LEMMA TypeNext == NonceTyped /\ [Next]_vars => NonceTyped'
<1> SUFFICES ASSUME NonceTyped, [Next]_vars PROVE TypeOK' /\ AskedInRange'
  BY DEF NonceTyped
<1>1. TypeOK /\ AskedInRange /\ 0 \in 0..MaxNonce /\ 0..MaxNonce \subseteq Nonces
  BY NonceFacts DEF NonceTyped, Nonces
<1> USE <1>1, NonceFacts DEF TypeOK, AskedInRange
<1>2. CASE Include
  BY <1>2 DEF Include, Nonces
<1>3. ASSUME NEW n \in Nonces, DropTx(n) PROVE TypeOK' /\ AskedInRange'
  BY <1>3 DEF DropTx, Fault
<1>4. ASSUME NEW n \in Nonces, Expire(n) PROVE TypeOK' /\ AskedInRange'
  BY <1>4 DEF Expire
<1>5. ASSUME NEW c \in Calls, GetNonce(c) PROVE TypeOK' /\ AskedInRange'
  BY <1>5 DEF GetNonce, StepTo
<1>6. ASSUME NEW c \in Calls, Reserve(c) PROVE TypeOK' /\ AskedInRange'
  <2>1. PICK k \in Nonces : /\ nonce' = [nonce EXCEPT ![c] = k]
                            /\ keys' \subseteq keys \cup {k} /\ unguarded' \subseteq unguarded \cup {k}
    <3>1. CASE IncrementNonce(c)
      BY <3>1 DEF IncrementNonce
    <3>2. CASE Full(c)
      <4>1. nonce[c] + KeysToCheck \in Nonces
        BY <1>6 DEF Reserve, Nonces
      <4> QED
        BY <3>2, <4>1 DEF Full
    <3> QED
      BY <1>6, <3>1, <3>2 DEF Reserve
  <2> QED
    BY <1>6, <2>1 DEF Reserve, StepTo
<1>7. ASSUME NEW c \in Calls, Send(c) PROVE TypeOK' /\ AskedInRange'
  <2>1. pool' \subseteq Nonces
    BY <1>7 DEF Send
  <2> QED
    BY <1>7, <2>1 DEF Send, Return, StepTo
<1>8. ASSUME NEW c \in Calls, CallDies(c) PROVE TypeOK' /\ AskedInRange'
  BY <1>8 DEF CallDies, Fault, Return, StepTo
<1>9. CASE UNCHANGED vars
  BY <1>9 DEF vars
<1> QED
  BY <1>2, <1>3, <1>4, <1>5, <1>6, <1>7, <1>8, <1>9 DEF Next

\* Type correctness of the allocator.
THEOREM NonceTypeCorrect == Spec => []TypeOK
BY TypeInit, TypeNext, PTL DEF Spec, NonceTyped

(***************************************************************************)
(* A nonce that is taken or about to be sent has its key as long as it is  *)
(* guarded, and the script gives out no nonce that has its key.            *)
(***************************************************************************)
InUse(n) == Taken(n) \/ \E c \in Calls : pc[c] = "send" /\ nonce[c] = n
UseIsGuarded == \A n \in Nonces : InUse(n) => n \in keys \/ n \in unguarded
FreshInv == UseIsGuarded /\ NonceIsFresh

\* No two transactions get the same nonce while its key lives, however old the index is
\* from which the script looks for it.
THEOREM NonceCorrect == Spec => []NonceIsFresh
<1>1. Init => FreshInv
  BY NonceFacts DEF Init, FreshInv, UseIsGuarded, NonceIsFresh, InUse, Taken, Nonces
<1>2. NonceTyped /\ FreshInv /\ [Next]_vars => FreshInv'
  <2> SUFFICES ASSUME NonceTyped, FreshInv, [Next]_vars PROVE FreshInv'
    OBVIOUS
  <2>1. TypeOK /\ UseIsGuarded /\ NonceIsFresh /\ AskedInRange
    BY DEF NonceTyped, FreshInv
  <2> USE <2>1, NonceFacts
  <2>2. ASSUME UNCHANGED <<keys, unguarded>>, \A n \in Nonces : InUse(n)' => InUse(n),
               \A n \in Nonces : Taken(n)' => Taken(n),
               \A c \in Calls : pc'[c] = "send" => pc[c] = "send" /\ nonce'[c] = nonce[c]
        PROVE  FreshInv'
    BY <2>2 DEF FreshInv, UseIsGuarded, NonceIsFresh, TypeOK
  <2>3. CASE Include
    <3>1. \A n \in Nonces : Taken(n)' => Taken(n)
      BY <2>3 DEF Include, Taken, TypeOK, Nonces
    <3> QED
      BY <2>2, <2>3, <3>1 DEF Include, InUse
  <2>4. ASSUME NEW n \in Nonces, DropTx(n) PROVE FreshInv'
    BY <2>2, <2>4 DEF DropTx, InUse, Taken
  <2>5. ASSUME NEW n \in Nonces, Expire(n) PROVE FreshInv'
    BY <2>5 DEF Expire, InUse, Taken, FreshInv, UseIsGuarded, NonceIsFresh
  <2>6. ASSUME NEW c \in Calls, GetNonce(c) PROVE FreshInv'
    <3>1. \A d \in Calls : pc'[d] = "send" => pc[d] = "send" /\ nonce'[d] = nonce[d]
      BY <2>6 DEF GetNonce, StepTo, TypeOK
    <3> QED
      BY <2>2, <2>6, <3>1 DEF GetNonce, InUse, Taken
  <2>7. ASSUME NEW c \in Calls, Reserve(c) PROVE FreshInv'
    <3>1. PICK k \in Nonces : /\ nonce' = [nonce EXCEPT ![c] = k]
                              /\ keys \subseteq keys' /\ unguarded \subseteq unguarded'
                              /\ (k \in keys' /\ k \notin keys) \/ k \in unguarded'
      <4>1. CASE IncrementNonce(c)
        BY <4>1 DEF IncrementNonce, FirstFree
      <4>2. CASE Full(c)
        <5>1. nonce[c] + KeysToCheck \in Nonces
          BY <2>7 DEF Reserve, AskedInRange, Nonces
        <5> QED
          BY <4>2, <5>1 DEF Full
      <4> QED
        BY <2>7, <4>1, <4>2 DEF Reserve
    <3>2. /\ \A d \in Calls : d # c => pc'[d] = pc[d] /\ nonce'[d] = nonce[d]
          /\ pc[c] = "reserve" /\ pc'[c] = "send" /\ nonce'[c] = k
          /\ \A n \in Nonces : Taken(n)' = Taken(n)
      BY <2>7, <3>1 DEF Reserve, StepTo, TypeOK, Taken
    <3>3. k \notin unguarded' => ~InUse(k)
      BY <3>1 DEF UseIsGuarded
    <3>4. \A n \in Nonces : InUse(n)' => InUse(n) \/ n = k
      BY <3>2 DEF InUse
    <3>5. UseIsGuarded'
      BY <3>1, <3>4 DEF UseIsGuarded
    <3>6. ASSUME NEW d \in Calls, pc'[d] = "send", nonce'[d] \notin unguarded'
          PROVE  /\ ~Taken(nonce[d])'
                 /\ \A e \in Calls \ {d} : pc'[e] = "send" => nonce'[e] # nonce'[d]
      <4>1. CASE d = c
        BY <4>1, <3>2, <3>3, <3>6 DEF InUse, Taken
      <4>2. CASE d # c
        <5>1. pc[d] = "send" /\ nonce'[d] = nonce[d] /\ nonce[d] \in Nonces /\ nonce[d] \notin unguarded
          BY <4>2, <3>1, <3>2, <3>6 DEF TypeOK
        <5>2. nonce[d] # k
          BY <5>1, <3>3, <3>6 DEF InUse
        <5> QED
          BY <5>1, <5>2, <3>2 DEF NonceIsFresh, Taken
      <4> QED
        BY <4>1, <4>2
    <3>7. NonceIsFresh'
      BY <3>6 DEF NonceIsFresh
    <3> QED
      BY <3>5, <3>7 DEF FreshInv
  <2>8. ASSUME NEW c \in Calls, Send(c) PROVE FreshInv'
    <3> PICK k \in Nonces : k = nonce[c]
      BY DEF TypeOK
    <3>1. /\ \A d \in Calls : pc'[d] = "send" => d # c /\ pc[d] = "send" /\ nonce'[d] = nonce[d]
          /\ pc[c] = "send" /\ nonce[c] = k
          /\ \A n \in Nonces : Taken(n)' => Taken(n) \/ n = k
          /\ UNCHANGED <<keys, unguarded>>
      BY <2>8 DEF Send, Return, StepTo, TypeOK, Taken
    <3>2. \A n \in Nonces : InUse(n)' => InUse(n)
      BY <3>1 DEF InUse
    <3>3. UseIsGuarded'
      BY <3>1, <3>2 DEF UseIsGuarded
    <3>4. ASSUME NEW d \in Calls, pc'[d] = "send", nonce'[d] \notin unguarded'
          PROVE  /\ ~Taken(nonce[d])'
                 /\ \A e \in Calls \ {d} : pc'[e] = "send" => nonce'[e] # nonce'[d]
      <4>1. d # c /\ pc[d] = "send" /\ nonce'[d] = nonce[d] /\ nonce[d] \in Nonces /\ nonce[d] \notin unguarded
        BY <3>1, <3>4 DEF TypeOK
      <4>2. nonce[d] # k /\ ~Taken(nonce[d])
        BY <4>1, <3>1 DEF NonceIsFresh
      <4>3. ~Taken(nonce[d])'
        BY <4>1, <4>2, <3>1 DEF Taken
      <4> QED
        BY <4>1, <4>3, <3>1 DEF NonceIsFresh
    <3> QED
      BY <3>3, <3>4 DEF FreshInv, NonceIsFresh
  <2>9. ASSUME NEW c \in Calls, CallDies(c) PROVE FreshInv'
    <3>1. /\ \A d \in Calls : pc'[d] = "send" => pc[d] = "send" /\ nonce'[d] = nonce[d]
          /\ UNCHANGED <<chainNonce, pool, keys, unguarded>>
      BY <2>9 DEF CallDies, Return, StepTo, TypeOK
    <3> QED
      BY <2>2, <3>1 DEF InUse, Taken
  <2>10. CASE UNCHANGED vars
    BY <2>2, <2>10 DEF vars, InUse, Taken
  <2> QED
    BY <2>3, <2>4, <2>5, <2>6, <2>7, <2>8, <2>9, <2>10 DEF Next
<1> QED
  BY <1>1, <1>2, TypeInit, TypeNext, PTL DEF Spec, FreshInv
=============================================================================
