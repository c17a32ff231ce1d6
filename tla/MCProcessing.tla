---------------------------- MODULE MCProcessing ----------------------------
(* Instances of Processing for TLC: batches, datasets, the dependencies     *)
(* between them, their scopes and the processor revisions.                  *)
EXTENDS Processing, TLC

CONSTANTS b1, b2, master, core, extra

OneBatch == {b1}
TwoBatches == {b1, b2}
TwoDatasets == {master, core}
ThreeDatasets == {master, core, extra}

\* Every batch holds what every dataset needs.
AffectsAll == [b \in Batch |-> Dataset]

\* The second batch repairs one dataset.
AffectsCore == [b \in Batch |-> IF b = b1 THEN Dataset ELSE {core}]

\* core needs master, extra needs both.
Chain == [d \in Dataset |-> CASE d = master -> {}
                              [] d = core -> {master}
                              [] d = extra -> {master, core}]

\* master is GLOBAL, the other datasets have a release for each batch's date.
Dates == [b \in Batch |-> [d \in Dataset |-> IF d = master THEN "GLOBAL" ELSE b]]

\* Two batches of the same date, as a daily batch and its repair are.
SameDate == [b \in Batch |-> [d \in Dataset |-> IF d = master THEN "GLOBAL" ELSE "day"]]

OneRevision == [c \in 1 .. LastCode |-> [d \in Dataset |-> 1]]
\* The second code release brings a new processor for the derived datasets only.
DerivedRevisions == [c \in 1 .. LastCode |-> [d \in Dataset |-> IF d = master THEN 1 ELSE c]]

Threads == Permutations(Worker)
=============================================================================
