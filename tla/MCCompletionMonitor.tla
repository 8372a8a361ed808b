------------------------ MODULE MCCompletionMonitor ------------------------
EXTENDS CompletionMonitor

NoDelegations == [b \in Blocks |-> {}]
\* At most one of: a restart, an outcome the monitor does not expect, a transaction forgotten.
Odd == {t \in Txs : outcome[t] \in {"neither", "other"}}
Untracked == {t \in Txs : era[t] # Unsent /\ status[t] = "none" /\ sender.tx # t}
Faults == crashes + Cardinality(Odd) + Cardinality(Untracked)
OneFault == Faults <= 1
NoLegacy == NoKey
=============================================================================
