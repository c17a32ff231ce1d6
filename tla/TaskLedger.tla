----------------------------- MODULE TaskLedger -----------------------------
(***************************************************************************)
(* What the collection side promises to the processing side, without       *)
(* threads, tokens, files, retries or crashes: tasks are accepted into open *)
(* batches, each gets one outcome, a batch is closed over a frozen set of  *)
(* tasks that all have one, or cancelled with everything in it, and the    *)
(* only thing that can happen to an outcome later is that its data is      *)
(* found missing.                                                          *)
(***************************************************************************)
EXTENDS FiniteSets

CONSTANTS Batch, Task, BatchOf

VARIABLES
    ledger,     \* [Batch -> "absent", "open", "closed" or "cancelled"]
    final,      \* [Batch -> its set of tasks is final]
    outcome     \* [Task -> "absent", "due", "data", "no_data" or "dropped"]

ledgerVars == <<ledger, final, outcome>>

Init ==
    /\ ledger = [b \in Batch |-> "absent"]
    /\ final = [b \in Batch |-> FALSE]
    /\ outcome = [t \in Task |-> "absent"]

Open(b) ==
    /\ ledger[b] = "absent"
    /\ ledger' = [ledger EXCEPT ![b] = "open"]
    /\ UNCHANGED <<final, outcome>>

\* Accept tasks into an open batch, possibly the last ones. Nothing is accepted
\* once the set is final.
Accept(b) ==
    /\ ledger[b] = "open"
    /\ ~final[b]
    /\ \E new \in SUBSET {t \in Task : BatchOf[t] = b /\ outcome[t] = "absent"}, last \in BOOLEAN :
         /\ outcome' = [t \in Task |-> IF t \in new THEN "due" ELSE outcome[t]]
         /\ final' = [final EXCEPT ![b] = last]
    /\ UNCHANGED ledger

Settle(t) ==
    /\ outcome[t] = "due"
    /\ ledger[BatchOf[t]] = "open"
    /\ \E result \in {"data", "no_data", "dropped"} :
         outcome' = [outcome EXCEPT ![t] = result]
    /\ UNCHANGED <<ledger, final>>

Close(b) ==
    /\ ledger[b] = "open"
    /\ final[b]
    /\ \A t \in Task : BatchOf[t] = b => outcome[t] # "due"
    /\ ledger' = [ledger EXCEPT ![b] = "closed"]
    /\ UNCHANGED <<final, outcome>>

Cancel(b) ==
    /\ ledger[b] = "open"
    /\ ledger' = [ledger EXCEPT ![b] = "cancelled"]
    /\ outcome' = [t \in Task |-> IF BatchOf[t] = b /\ outcome[t] = "due"
                                  THEN "dropped" ELSE outcome[t]]
    /\ UNCHANGED final

\* Registered data is found missing, whatever became of the batch.
Lose ==
    /\ \E missing \in SUBSET {t \in Task : outcome[t] \in {"data", "no_data"}} :
         outcome' = [t \in Task |-> IF t \in missing THEN "dropped" ELSE outcome[t]]
    /\ UNCHANGED <<ledger, final>>

Next ==
    \/ \E b \in Batch : Open(b) \/ Accept(b) \/ Close(b) \/ Cancel(b)
    \/ \E t \in Task : Settle(t)
    \/ Lose

Ledger == Init /\ [][Next]_ledgerVars
=============================================================================
