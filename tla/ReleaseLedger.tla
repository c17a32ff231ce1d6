---------------------------- MODULE ReleaseLedger ----------------------------
(***************************************************************************)
(* What the processing side promises to the readers of the published       *)
(* tables, without queues, threads, retries or planning: a task publishes  *)
(* at most once and for good, and only when every dataset it needs has been *)
(* published in the scope it needs it in; a scope shows its last publication. *)
(***************************************************************************)
CONSTANTS Batch, Dataset, Needs, Scope, Process, None

VARIABLES
    published,  \* the tasks that have published
    current     \* [scope key -> the task of its release, or None]

ledgerVars == <<published, current>>

Key(p) == <<p.dataset, Scope[p.batch][p.dataset]>>

Init ==
    /\ published = {}
    /\ current = [k \in {<<d, Scope[b][d]>> : b \in Batch, d \in Dataset} |-> None]

Publish(p) ==
    /\ p \notin published
    /\ \A d \in Needs[p.dataset] :
          \E q \in published : Key(q) = <<d, Scope[p.batch][d]>>
    /\ published' = published \cup {p}
    /\ current' = [current EXCEPT ![Key(p)] = p]

Next == \E p \in Process : Publish(p)

Releases == Init /\ [][Next]_ledgerVars
=============================================================================
