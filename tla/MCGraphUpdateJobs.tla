------------------------ MODULE MCGraphUpdateJobs ------------------------
(* Small instances of GraphUpdateJobs for TLC. *)
EXTENDS GraphUpdateJobs

CONSTANT u1

ScannedJob == {[user |-> u1, transitive |-> TRUE, dead |-> FALSE]}
Siblings == [user : {u1}, transitive : BOOLEAN, dead : {FALSE}]

\* CONSTRAINT: crashes, attempts and odd outcomes together, so that each happens at every
\* step but they do not multiply.
OddTxs == {t \in Txs : fate[t] \in OddOutcomes}
FewFaults == \A j \in Jobs : attemptsMade[j] + crashes + Cardinality(OddTxs) <= 2
=============================================================================
