------------------------ MODULE MCBlockchainScanner ------------------------
EXTENDS BlockchainScanner, TLC
CONSTANTS u1, u2

\* Block by block: each user once; one user twice.
OnceEach == (1 :> {u1}) @@ (2 :> {u2}) @@ (3 :> {})
Twice == (1 :> {u1}) @@ (2 :> {u1})
NoLegacy == NoKey
=============================================================================
