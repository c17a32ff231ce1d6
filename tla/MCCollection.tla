---------------------------- MODULE MCCollection ----------------------------
(* Instances of Collection for TLC: which task belongs to which batch and   *)
(* the types of the batches.                                                *)
EXTENDS Collection, TLC

CONSTANTS b1, t1, t2

OneBatch == {b1}
OneTask == {t1}
TwoTasks == {t1, t2}
SameBatch == [t \in Task |-> b1]

\* A daily batch, admitted at every storage level, or a backfill, which is not.
Daily == [b \in Batch |-> "DAILY"]
Backfill == [b \in Batch |-> "BACKFILL"]

Interchangeable == Permutations(Worker) \cup Permutations(Token)
=============================================================================
