----------------------------- MODULE Migration -----------------------------
(***************************************************************************)
(* What the reconnection service promises of the social graph: it copies   *)
(* the provider's connections to the chain, for the users who delegated,   *)
(* a set of them at a time, and takes none back.  TransitiveUpdates        *)
(* implements it.                                                          *)
(***************************************************************************)
CONSTANTS
    Users,
    Connections   \* <<u, v>>: in the provider's graph u is connected to v

VARIABLES
    delegated,    \* users who delegated to the provider
    onchain       \* connections on the chain

vars == <<delegated, onchain>>

Init == delegated = {} /\ onchain = {}

Delegate(u) ==
    /\ delegated' = delegated \cup {u}
    /\ UNCHANGED onchain

Publish(u) ==        \* some of the user's own connections, to others who delegated
    /\ u \in delegated
    /\ \E es \in SUBSET {e \in Connections : e[1] = u /\ e[2] \in delegated} :
           onchain' = onchain \cup es
    /\ UNCHANGED delegated

Next == \E u \in Users : Delegate(u) \/ Publish(u)

Spec == Init /\ [][Next]_vars
=============================================================================
