----------------------------- MODULE Collection -----------------------------
(***************************************************************************)
(* The collection side of the pipeline: batches and tasks in PostgreSQL,   *)
(* the collection threads that claim a task, seal a Parquet file and       *)
(* register it, the planner that appends tasks and freezes the plan, the   *)
(* close job, the administrator's skip and cancel commands, and the        *)
(* reconciliation that runs at startup and every five minutes.             *)
(*                                                                         *)
(* Every action is one database transaction or one file operation; what    *)
(* the code does between two of them is a step of its own, so that a crash *)
(* or another actor may come in between.                                   *)
(***************************************************************************)
EXTENDS Naturals, FiniteSets

CONSTANTS
    Batch,          \* collection_batch slots
    Task,           \* (api_name, scope_key) pairs, each of one batch
    BatchOf,        \* the batch a task is planned for
    TypeOf,         \* the BatchType of a batch
    Worker,         \* threads of the collection pool
    Token,          \* execution tokens; a token also names the file of its execution
    NoToken,        \* the NULL token
    NoTask,         \* a worker without a task
    NoBatch,        \* no cancel command under way
    MaxAttempts,    \* max_attempts of every task
    MaxFaults       \* bound: crashes, dead threads, timeouts, lost files

BatchTypes == {"REPAIR", "MASTER", "DAILY", "HOT", "DELAYED", "BACKFILL"}

ASSUME CollectionAssumption ==
    /\ IsFiniteSet(Task)
    /\ BatchOf \in [Task -> Batch]
    /\ TypeOf \in [Batch -> BatchTypes]
    /\ NoToken \notin Token
    /\ NoTask \notin Task
    /\ NoBatch \notin Batch
    /\ MaxAttempts \in Nat \ {0}
    /\ MaxFaults \in Nat

VARIABLES
    batchStatus,    \* [Batch -> status], "ABSENT" before the slot is created
    frozen,         \* [Batch -> planning_completed_at is set]
    planned,        \* [Batch -> tasks under plan_version, meaningful once frozen]
    taskStatus,     \* [Task -> status], "ABSENT" before the task is appended
    attempts,       \* [Task -> attempt_count]
    lease,          \* [Task -> execution_token or NoToken]
    asset,          \* [Task -> token naming the file its raw_data_asset row points to]
    file,           \* [Token -> content of the sealed file]
    worker,         \* [Worker -> what the thread is doing]
    recon,          \* the reconciliation under way
    cancelling,     \* the cancel command that holds row locks
    process,        \* the scheduler process
    faults          \* faults still to come

batchVars == <<batchStatus, frozen, planned>>
taskVars == <<taskStatus, attempts, lease, asset>>
vars == <<batchStatus, frozen, planned, taskStatus, attempts, lease, asset, file,
          worker, recon, cancelling, process, faults>>

BatchStatuses == {"ABSENT", "PENDING", "RUNNING", "CLOSED", "CANCELLED"}
Claimable == {"PENDING", "RETRY_WAIT"}
Terminal == {"SUCCESS", "EMPTY_VALID", "FAILED", "SKIPPED", "CANCELLED"}
TaskStatuses == {"ABSENT", "RUNNING"} \cup Claimable \cup Terminal
Contents == {"none", "rows", "empty", "lost"}
Sealed == {"rows", "empty"}

WorkerStates == [phase : {"idle", "querying", "sealed"},
                 task : Task \cup {NoTask}, token : Token \cup {NoToken}]
ReconStates == [phase : {"idle", "running_read", "tasks"}, all : BOOLEAN,
                snapshot : [Task -> Token \cup {NoToken}],
                assets : SUBSET Task]

Idle == [phase |-> "idle", task |-> NoTask, token |-> NoToken]
ReconIdle == [phase |-> "idle", all |-> FALSE,
              snapshot |-> [t \in Task |-> NoToken], assets |-> {}]
NotCancelling == [batch |-> NoBatch, tasks |-> {}]

TypeOK ==
    /\ batchStatus \in [Batch -> BatchStatuses]
    /\ frozen \in [Batch -> BOOLEAN]
    /\ planned \in [Batch -> SUBSET Task]
    /\ taskStatus \in [Task -> TaskStatuses]
    /\ attempts \in [Task -> 0 .. MaxAttempts]
    /\ lease \in [Task -> Token \cup {NoToken}]
    /\ asset \in [Task -> Token \cup {NoToken}]
    /\ file \in [Token -> Contents]
    /\ worker \in [Worker -> WorkerStates]
    /\ recon \in ReconStates
    /\ cancelling \in [batch : Batch \cup {NoBatch}, tasks : SUBSET Task]
    /\ process \in {"down", "starting", "up"}
    /\ faults \in 0 .. MaxFaults

Init ==
    /\ batchStatus = [b \in Batch |-> "ABSENT"]
    /\ frozen = [b \in Batch |-> FALSE]
    /\ planned = [b \in Batch |-> {}]
    /\ taskStatus = [t \in Task |-> "ABSENT"]
    /\ attempts = [t \in Task |-> 0]
    /\ lease = [t \in Task |-> NoToken]
    /\ asset = [t \in Task |-> NoToken]
    /\ file = [k \in Token |-> "none"]
    /\ worker = [w \in Worker |-> Idle]
    /\ recon = ReconIdle
    /\ cancelling = NotCancelling
    /\ process = "up"
    /\ faults = MaxFaults

TasksOf(b) == {t \in Task : BatchOf[t] = b /\ taskStatus[t] # "ABSENT"}
Open(b) == batchStatus[b] \in {"PENDING", "RUNNING"}

-----------------------------------------------------------------------------
(* Planning.                                                               *)

\* create_or_get_batch: the slot is unique, a second creation finds the first.
CreateBatch(b) ==
    /\ batchStatus[b] = "ABSENT"
    /\ batchStatus' = [batchStatus EXCEPT ![b] = "PENDING"]
    /\ UNCHANGED <<frozen, planned, taskVars, file, worker, recon, cancelling, process, faults>>

\* append_tasks: refused on a cancelled batch, an exact replay on a closed one
\* (no change), no new key on a frozen one. Existing keys are left alone.
AppendTasks(b, submitted, finalize) ==
    /\ Open(b)
    /\ frozen[b] => submitted \subseteq TasksOf(b)
    /\ taskStatus' = [t \in Task |-> IF t \in submitted /\ taskStatus[t] = "ABSENT"
                                     THEN "PENDING" ELSE taskStatus[t]]
    /\ IF finalize /\ ~frozen[b]
       THEN /\ frozen' = [frozen EXCEPT ![b] = TRUE]
            /\ planned' = [planned EXCEPT ![b] = TasksOf(b) \cup submitted]
       ELSE UNCHANGED <<frozen, planned>>
    /\ UNCHANGED <<batchStatus, attempts, lease, asset, file, worker, recon, cancelling,
                   process, faults>>

\* Variant: close_ready_batches without planning_completed_at IS NOT NULL.
CloseBatchUnplanned(b) ==
    /\ process = "up"
    /\ Open(b)
    /\ \A t \in TasksOf(b) : taskStatus[t] \in Terminal
    /\ batchStatus' = [batchStatus EXCEPT ![b] = "CLOSED"]
    /\ UNCHANGED <<frozen, planned, taskVars, file, worker, recon, cancelling, process, faults>>

\* Variant: RETRY_WAIT counted among the terminal statuses.
CloseBatchWithRetries(b) ==
    /\ process = "up"
    /\ Open(b)
    /\ frozen[b]
    /\ \A t \in TasksOf(b) : taskStatus[t] \in Terminal \cup {"RETRY_WAIT"}
    /\ batchStatus' = [batchStatus EXCEPT ![b] = "CLOSED"]
    /\ UNCHANGED <<frozen, planned, taskVars, file, worker, recon, cancelling, process, faults>>

\* close_ready_batches, for one batch of the transaction.
CloseBatch(b) ==
    /\ process = "up"
    /\ Open(b)
    /\ frozen[b]
    /\ Cardinality(planned[b]) = Cardinality(TasksOf(b))
    /\ \A t \in TasksOf(b) : taskStatus[t] \in Terminal
    /\ batchStatus' = [batchStatus EXCEPT ![b] = "CLOSED"]
    /\ UNCHANGED <<frozen, planned, taskVars, file, worker, recon, cancelling, process, faults>>

-----------------------------------------------------------------------------
(* The administrator's commands, from the API process.                     *)

\* A row lock held by the cancel command: other writers of the task wait for
\* it, the claim (SKIP LOCKED) passes the task over.
Locked(t) == t \in cancelling.tasks

\* transition_collection_task, with the command's target status.
TransitionTask(t, target) ==
    /\ ~Locked(t)
    /\ taskStatus[t] \in Claimable
    /\ taskStatus' = [taskStatus EXCEPT ![t] = target]
    /\ UNCHANGED <<batchVars, attempts, lease, asset, file, worker, recon, cancelling,
                   process, faults>>

\* cancel_batch, first half: lock the tasks the batch has now.
CancelLockTasks(b) ==
    /\ cancelling = NotCancelling
    /\ batchStatus[b] # "ABSENT"
    /\ cancelling' = [batch |-> b, tasks |-> TasksOf(b)]
    /\ UNCHANGED <<batchVars, taskVars, file, worker, recon, process, faults>>

\* Variant: cancel_batch without its recount of the tasks.
CancelAllowedUncounted(b) ==
    /\ Open(b)
    /\ \A t \in cancelling.tasks : taskStatus[t] # "RUNNING"

CancelAllowed(b) ==
    /\ Open(b)
    /\ Cardinality(TasksOf(b)) = Cardinality(cancelling.tasks)
    /\ \A t \in cancelling.tasks : taskStatus[t] # "RUNNING"

\* cancel_batch, second half: lock the batch, recount, cancel what is waiting.
CancelCommit(b) ==
    /\ cancelling.batch = b
    /\ CancelAllowed(b)
    /\ taskStatus' = [t \in Task |-> IF t \in cancelling.tasks /\ taskStatus[t] \in Claimable
                                     THEN "CANCELLED" ELSE taskStatus[t]]
    /\ batchStatus' = [batchStatus EXCEPT ![b] = "CANCELLED"]
    /\ cancelling' = NotCancelling
    /\ UNCHANGED <<frozen, planned, attempts, lease, asset, file, worker, recon, process, faults>>

\* The command answers with an error and rolls back.
CancelReject(b) ==
    /\ cancelling.batch = b
    /\ ~CancelAllowed(b)
    /\ cancelling' = NotCancelling
    /\ UNCHANGED <<batchVars, taskVars, file, worker, recon, process, faults>>

-----------------------------------------------------------------------------
(* Claiming and executing.                                                 *)

\* CapacitySnapshot.allowed_batch_types.
AllowedTypes(level) ==
    CASE level = "PROTECT" -> {"REPAIR"}
      [] level = "WARNING" -> BatchTypes \ {"BACKFILL"}
      [] level = "NORMAL"  -> BatchTypes

Rank(t) ==
    CASE TypeOf[BatchOf[t]] = "REPAIR"   -> 50
      [] TypeOf[BatchOf[t]] = "BACKFILL" -> 400
      [] OTHER                           -> 100

\* Variant: claim_next that forgets tasks waiting for a retry.
EligiblePending(t, level) ==
    /\ ~Locked(t)
    /\ taskStatus[t] = "PENDING"
    /\ Open(BatchOf[t])
    /\ TypeOf[BatchOf[t]] \in AllowedTypes(level)

\* The rows claim_next selects from; a RETRY_WAIT row counts once its
\* next_retry_at has passed, which may be at any time.
Eligible(t, level) ==
    /\ ~Locked(t)
    /\ taskStatus[t] \in Claimable
    /\ Open(BatchOf[t])
    /\ TypeOf[BatchOf[t]] \in AllowedTypes(level)

\* uuid4 never repeats: a token that nothing names any more stands for a fresh one.
Named(k) ==
    \/ \E t \in Task : k \in {lease[t], asset[t], recon.snapshot[t]}
    \/ \E w \in Worker : worker[w].token = k

\* _fill_available_slots and claim_next: the best eligible task, a new token. A
\* PENDING row of a better rank always comes first, a RETRY_WAIT row only when
\* it is due; the order within a rank is left open.
Claim(w, t, level, k) ==
    /\ process = "up"
    /\ worker[w] = Idle
    /\ Eligible(t, level)
    /\ \A u \in Task : Eligible(u, level) /\ taskStatus[u] = "PENDING" => Rank(t) <= Rank(u)
    /\ ~Named(k)
    /\ taskStatus' = [taskStatus EXCEPT ![t] = "RUNNING"]
    /\ attempts' = [attempts EXCEPT ![t] = @ + 1]
    /\ lease' = [lease EXCEPT ![t] = k]
    /\ batchStatus' = [batchStatus EXCEPT ![BatchOf[t]] = "RUNNING"]
    /\ file' = [file EXCEPT ![k] = "none"]
    /\ worker' = [worker EXCEPT ![w] = [phase |-> "querying", task |-> t, token |-> k]]
    /\ UNCHANGED <<frozen, planned, asset, recon, cancelling, process, faults>>

\* The provider answered and the store renamed the file into the token's path.
\* "empty" is the zero-row asset of a legal empty result.
Seal(w, content) ==
    /\ worker[w].phase = "querying"
    /\ file' = [file EXCEPT ![worker[w].token] = content]
    /\ worker' = [worker EXCEPT ![w].phase = "sealed"]
    /\ UNCHANGED <<batchVars, taskVars, recon, cancelling, process, faults>>

\* Variants: the fence without its token, and no fence at all.
HoldsAnyLease(t, k) == taskStatus[t] = "RUNNING"
HoldsAlways(t, k) == TRUE

\* The fence of complete_task, fail_task and recover_interrupted_task.
Holds(t, k) == taskStatus[t] = "RUNNING" /\ lease[t] = k

\* Variant: complete_task that takes every result for a non-empty one.
CompleteSuccess(t, k) ==
    IF Holds(t, k)
    THEN /\ taskStatus' = [taskStatus EXCEPT ![t] = "SUCCESS"]
         /\ asset' = [asset EXCEPT ![t] = k]
         /\ lease' = [lease EXCEPT ![t] = NoToken]
         /\ UNCHANGED attempts
    ELSE UNCHANGED taskVars

\* complete_task: register the asset and settle the task, under the fence.
Complete(t, k) ==
    IF Holds(t, k)
    THEN /\ taskStatus' = [taskStatus EXCEPT
                             ![t] = IF file[k] = "empty" THEN "EMPTY_VALID" ELSE "SUCCESS"]
         /\ asset' = [asset EXCEPT ![t] = k]
         /\ lease' = [lease EXCEPT ![t] = NoToken]
         /\ UNCHANGED attempts
    ELSE UNCHANGED taskVars

\* Variant: fail_task that compares attempt_count <= max_attempts.
FailOneMore(t, k, verdict) ==
    IF Holds(t, k)
    THEN /\ taskStatus' = [taskStatus EXCEPT
              ![t] = IF verdict = "skip" THEN "SKIPPED"
                     ELSE IF verdict = "retry" /\ attempts[t] <= MaxAttempts THEN "RETRY_WAIT"
                     ELSE "FAILED"]
         /\ lease' = [lease EXCEPT ![t] = NoToken]
         /\ UNCHANGED <<attempts, asset>>
    ELSE UNCHANGED taskVars

\* fail_task: verdict is "skip", "retry" (a retry_at was computed) or "final".
Fail(t, k, verdict) ==
    IF Holds(t, k)
    THEN /\ taskStatus' = [taskStatus EXCEPT
              ![t] = IF verdict = "skip" THEN "SKIPPED"
                     ELSE IF verdict = "retry" /\ attempts[t] < MaxAttempts THEN "RETRY_WAIT"
                     ELSE "FAILED"]
         /\ lease' = [lease EXCEPT ![t] = NoToken]
         /\ UNCHANGED <<attempts, asset>>
    ELSE UNCHANGED taskVars

\* Variants: a recovery that leaves the token in place, and one that gives up.
RecoverKeepsToken(t, k) ==
    IF Holds(t, k)
    THEN /\ taskStatus' = [taskStatus EXCEPT ![t] = "RETRY_WAIT"]
         /\ attempts' = [attempts EXCEPT ![t] = IF @ = 0 THEN 0 ELSE @ - 1]
         /\ UNCHANGED <<asset, lease>>
    ELSE UNCHANGED taskVars

\* recover_interrupted_task: the attempt is given back.
RecoverInterrupted(t, k) ==
    IF Holds(t, k)
    THEN /\ taskStatus' = [taskStatus EXCEPT ![t] = "RETRY_WAIT"]
         /\ attempts' = [attempts EXCEPT ![t] = IF @ = 0 THEN 0 ELSE @ - 1]
         /\ lease' = [lease EXCEPT ![t] = NoToken]
         /\ UNCHANGED asset
    ELSE UNCHANGED taskVars

Register(w) ==
    /\ worker[w].phase = "sealed"
    /\ ~Locked(worker[w].task)
    /\ Complete(worker[w].task, worker[w].token)
    /\ worker' = [worker EXCEPT ![w] = Idle]
    /\ UNCHANGED <<batchVars, file, recon, cancelling, process, faults>>

\* The commit of complete_task took effect but its answer was lost: the thread
\* sees an exception and goes on to record a failure.
RegisterUnacknowledged(w) ==
    /\ worker[w].phase = "sealed"
    /\ ~Locked(worker[w].task)
    /\ faults > 0
    /\ faults' = faults - 1
    /\ Holds(worker[w].task, worker[w].token)
    /\ Complete(worker[w].task, worker[w].token)
    /\ UNCHANGED <<batchVars, file, worker, recon, cancelling, process>>

\* The handlers of _execute: a provider or quality error while querying, an
\* error of the store or the database once the file is sealed (retryable).
RecordFailure(w, verdict) ==
    /\ \/ worker[w].phase = "querying"
       \/ worker[w].phase = "sealed" /\ verdict # "skip"
    /\ ~Locked(worker[w].task)
    /\ Fail(worker[w].task, worker[w].token, verdict)
    /\ worker' = [worker EXCEPT ![w] = Idle]
    /\ UNCHANGED <<batchVars, file, recon, cancelling, process, faults>>

-----------------------------------------------------------------------------
(* Reconciliation: AcquisitionRecovery.reconcile, at startup for every     *)
(* running task ("all"), every five minutes for the stale ones.            *)

\* running_tasks: the rows RUNNING now, with their tokens.
ReconReadRunning ==
    /\ process # "down"
    /\ recon.phase = "idle"
    /\ recon' = [phase |-> "running_read", all |-> process = "starting",
                 snapshot |-> [t \in Task |-> IF taskStatus[t] = "RUNNING"
                                              THEN lease[t] ELSE NoToken],
                 assets |-> {}]
    /\ UNCHANGED <<batchVars, taskVars, file, worker, cancelling, process, faults>>

InSnapshot(t) == recon.snapshot[t] # NoToken

\* mark_asset_missing: no look at the task's status, token or batch.
MarkAssetsMissing(missing) ==
    /\ taskStatus' = [t \in Task |-> IF t \in missing THEN "FAILED" ELSE taskStatus[t]]
    /\ lease' = [t \in Task |-> IF t \in missing THEN NoToken ELSE lease[t]]
    /\ UNCHANGED <<attempts, asset>>

\* assets (assets_for_tasks at startup), a second transaction, and the audit of
\* their files. A lost file stays lost and its task is touched by nobody else,
\* so that the marks, one transaction each, are one step here.
ReconAudit ==
    /\ recon.phase = "running_read"
    /\ LET rows == {t \in Task : asset[t] # NoToken /\ (recon.all => InSnapshot(t))}
           missing == {t \in rows : file[asset[t]] = "lost"}
       IN  /\ \A t \in missing : ~Locked(t)
           /\ MarkAssetsMissing(missing)
           /\ recon' = [recon EXCEPT !.phase = "tasks", !.assets = rows]
    /\ UNCHANGED <<batchVars, file, worker, cancelling, process, faults>>

ReconTaskDone(t) == recon' = [recon EXCEPT !.snapshot[t] = NoToken]

\* The file this reconciliation finds for a task of its snapshot: the one its
\* asset row names if it read one, else the one of the token it read.
FoundFile(t) == IF t \in recon.assets THEN asset[t] ELSE recon.snapshot[t]

\* A sealed file is registered, whether or not the task is stale.
ReconRegister(t) ==
    /\ recon.phase = "tasks"
    /\ InSnapshot(t)
    /\ file[FoundFile(t)] \in Sealed
    /\ ~Locked(t)
    /\ IF t \in recon.assets
       THEN Complete(t, recon.snapshot[t])
       ELSE \/ Complete(t, recon.snapshot[t])
            \/ recon.all /\ Fail(t, recon.snapshot[t], "final")  \* SCHEMA_CHANGED since
    /\ ReconTaskDone(t)
    /\ UNCHANGED <<batchVars, file, worker, cancelling, process, faults>>

\* No file to register and not stale, or the file of its asset row is gone. It
\* reads no row: that it waits for the cancel command here loses no behaviour.
ReconLeave(t) ==
    /\ recon.phase = "tasks"
    /\ InSnapshot(t)
    /\ ~Locked(t)
    /\ file[FoundFile(t)] \notin Sealed
    /\ recon.all => t \in recon.assets
    /\ ReconTaskDone(t)
    /\ UNCHANGED <<batchVars, taskVars, file, worker, cancelling, process, faults>>

\* A thread that still executes the task under the token of the snapshot.
Executing(t) == \E w \in Worker : worker[w].task = t /\ worker[w].token = recon.snapshot[t]

\* A stale task goes back to the queue. Time is not in the model: a task nobody
\* executes is stale at some reconciliation, one whose thread is merely slow
\* only at the cost of a fault.
ReconRecover(t) ==
    /\ recon.phase = "tasks"
    /\ InSnapshot(t)
    /\ t \notin recon.assets
    /\ file[FoundFile(t)] \notin Sealed
    /\ ~Locked(t)
    /\ IF Executing(t) THEN faults > 0 /\ faults' = faults - 1 ELSE UNCHANGED faults
    /\ RecoverInterrupted(t, recon.snapshot[t])
    /\ ReconTaskDone(t)
    /\ UNCHANGED <<batchVars, file, worker, cancelling, process>>

ReconEnd ==
    /\ recon.phase = "tasks"
    /\ \A t \in Task : ~InSnapshot(t)
    /\ recon' = ReconIdle
    /\ process' = "up"
    /\ UNCHANGED <<batchVars, taskVars, file, worker, cancelling, faults>>

\* An exception (a hash mismatch, the database) ends the whole reconciliation:
\* the periodic job fails, the starting process exits.
ReconAbort ==
    /\ recon.phase # "idle"
    /\ faults > 0
    /\ faults' = faults - 1
    /\ recon' = ReconIdle
    /\ process' = IF process = "starting" THEN "down" ELSE process
    /\ UNCHANGED <<batchVars, taskVars, file, worker, cancelling>>

-----------------------------------------------------------------------------
(* Faults.                                                                 *)

\* The future ended with an exception (fail_task itself failed): the thread is
\* free, the row stays RUNNING.
WorkerDies(w) ==
    /\ worker[w] # Idle
    /\ faults > 0
    /\ faults' = faults - 1
    /\ worker' = [worker EXCEPT ![w] = Idle]
    /\ UNCHANGED <<batchVars, taskVars, file, recon, cancelling, process>>

Crash ==
    /\ process # "down"
    /\ faults > 0
    /\ faults' = faults - 1
    /\ process' = "down"
    /\ worker' = [w \in Worker |-> Idle]
    /\ recon' = ReconIdle
    /\ UNCHANGED <<batchVars, taskVars, file, cancelling>>

Restart ==
    /\ process = "down"
    /\ process' = "starting"
    /\ UNCHANGED <<batchVars, taskVars, file, worker, recon, cancelling, faults>>

\* A registered file disappears from the disk.
LoseFile(t) ==
    /\ asset[t] # NoToken
    /\ file[asset[t]] # "lost"
    /\ faults > 0
    /\ faults' = faults - 1
    /\ file' = [file EXCEPT ![asset[t]] = "lost"]
    /\ UNCHANGED <<batchVars, taskVars, worker, recon, cancelling, process>>

-----------------------------------------------------------------------------
Plan(b) ==
    \/ CreateBatch(b)
    \/ \E submitted \in SUBSET {t \in Task : BatchOf[t] = b}, finalize \in BOOLEAN :
          AppendTasks(b, submitted, finalize)

Command ==
    \/ \E t \in Task, target \in {"SKIPPED", "CANCELLED"} : TransitionTask(t, target)
    \/ \E b \in Batch : CancelLockTasks(b) \/ CancelCommit(b) \/ CancelReject(b)

Execute(w) ==
    \/ \E content \in Sealed : Seal(w, content)
    \/ Register(w)
    \/ RegisterUnacknowledged(w)
    \/ \E verdict \in {"skip", "retry", "final"} : RecordFailure(w, verdict)
    \/ WorkerDies(w)

Dispatch(w) ==
    \E t \in Task, level \in {"NORMAL", "WARNING", "PROTECT"}, k \in Token :
        Claim(w, t, level, k)

Reconcile ==
    \/ ReconReadRunning
    \/ ReconAudit
    \/ \E t \in Task : ReconRegister(t) \/ ReconLeave(t) \/ ReconRecover(t)
    \/ ReconEnd
    \/ ReconAbort

Next ==
    \/ \E b \in Batch : Plan(b) \/ CloseBatch(b)
    \/ Command
    \/ \E w \in Worker : Dispatch(w) \/ Execute(w)
    \/ Reconcile
    \/ Crash
    \/ Restart
    \/ \E t \in Task : LoseFile(t)

Spec == Init /\ [][Next]_vars

\* What the scheduling of the code justifies: the pool, the refill thread and
\* the five-second timer keep dispatching; the close and reconcile jobs recur; a
\* supervisor restarts the process; commands end. PostgreSQL queues the waiters
\* of a row lock, so that a stream of commands cannot hold up a thread or a
\* reconciliation for ever: strong fairness. A task nobody executes grows stale,
\* and then a reconciliation recovers it.
Fairness ==
    /\ \A w \in Worker : WF_vars(Dispatch(w)) /\ SF_vars(Execute(w))
    /\ \A b \in Batch : WF_vars(CloseBatch(b)) /\ WF_vars(CancelCommit(b) \/ CancelReject(b))
    /\ SF_vars(Reconcile)
    /\ \A t \in Task : SF_vars(ReconRecover(t))
    /\ WF_vars(Restart)

FairSpec == Spec /\ Fairness

-----------------------------------------------------------------------------
(* Safety.                                                                 *)

\* close_ready_batches runs beside planners, threads, commands and
\* reconciliation: a closed batch has exactly its frozen plan, all of it settled.
ClosedBatchSettled ==
    \A b \in Batch : batchStatus[b] = "CLOSED" =>
        /\ frozen[b]
        /\ TasksOf(b) = planned[b]
        /\ \A t \in planned[b] : taskStatus[t] \in Terminal

\* cancel_batch locks the tasks it saw before it locks the batch: a task a
\* planner slips in between must not be left alive in a cancelled batch.
CancelledBatchDead ==
    \A b \in Batch : batchStatus[b] = "CANCELLED" =>
        \A t \in TasksOf(b) : taskStatus[t] \in Terminal

\* Whoever settles a task (its thread, a reconciliation of its file), the
\* status says what the registered file holds, and a registered asset never
\* belongs to a task that could still run.
ResultMatchesAsset ==
    \A t \in Task :
        /\ taskStatus[t] = "SUCCESS" => asset[t] # NoToken /\ file[asset[t]] \in {"rows", "lost"}
        /\ taskStatus[t] = "EMPTY_VALID" =>
              asset[t] # NoToken /\ file[asset[t]] \in {"empty", "lost"}
        /\ asset[t] # NoToken => /\ file[asset[t]] # "none"
                                 /\ taskStatus[t] \in {"SUCCESS", "EMPTY_VALID", "FAILED"}

\* One execution per lease: a running task has a token, a settled or waiting
\* one has none, and no two tasks or threads ever share one.
LeaseDiscipline ==
    /\ \A t \in Task : taskStatus[t] = "RUNNING" <=> lease[t] # NoToken
    /\ \A t, u \in Task : t # u /\ lease[t] # NoToken => lease[t] # lease[u]
    /\ \A v, w \in Worker : v # w /\ worker[v] # Idle => worker[v].token # worker[w].token

\* Attempts are taken by claims and given back by recoveries; a task waiting
\* for a retry always has an attempt left, a running one has used one.
RetryBudget ==
    \A t \in Task :
        /\ taskStatus[t] = "RETRY_WAIT" => attempts[t] < MaxAttempts
        /\ taskStatus[t] = "RUNNING" => attempts[t] > 0

(* Action properties.                                                      *)

\* Closed and cancelled batches never reopen and never get another task, and a
\* frozen plan stays what it is (docs/02 section 4).
BatchKept(b) ==
    /\ batchStatus[b] \in {"CLOSED", "CANCELLED"} =>
          batchStatus'[b] = batchStatus[b] /\ TasksOf(b)' = TasksOf(b)
    /\ frozen[b] => frozen'[b] /\ planned'[b] = planned[b] /\ TasksOf(b)' = TasksOf(b)
BatchFinality == [][\A b \in Batch : BatchKept(b)]_vars

\* A settled task changes only when the file its asset names has been lost, and
\* then to FAILED: a late thread, a stale reconciliation or a command cannot.
OutcomeKept(t) ==
    taskStatus[t] \in Terminal /\ taskStatus'[t] # taskStatus[t] =>
        taskStatus'[t] = "FAILED" /\ asset[t] # NoToken /\ file[asset[t]] = "lost"
OutcomeFinality == [][\A t \in Task : OutcomeKept(t)]_vars

\* An asset is registered only for the lease the task has at that moment, and
\* never replaced: an execution whose lease was recovered registers nothing.
RegisteredUnderLease(t) ==
    asset'[t] # asset[t] =>
        asset[t] = NoToken /\ taskStatus[t] = "RUNNING" /\ asset'[t] = lease[t]
RegisteredByLeaseHolder == [][\A t \in Task : RegisteredUnderLease(t)]_vars

(* The inductive invariant behind the safety properties.                   *)

\* Task t has something to do with token k: its lease, its asset, a thread or
\* the snapshot of a reconciliation.
Owns(t, k) ==
    \/ lease[t] = k
    \/ asset[t] = k
    \/ recon.snapshot[t] = k
    \/ \E w \in Worker : worker[w].task = t /\ worker[w].token = k

\* A token belongs to one task for as long as anything names it.
OneOwner == \A k \in Token : \A t, u \in Task : Owns(t, k) /\ Owns(u, k) => t = u

ThreadsApart ==
    /\ \A w \in Worker : worker[w].phase # "idle" =>
          worker[w].task \in Task /\ worker[w].token \in Token
    /\ \A w \in Worker : worker[w].phase = "idle" => worker[w] = Idle
    /\ \A v, w \in Worker : v # w /\ worker[v].phase # "idle" =>
          worker[v].token # worker[w].token

\* The file of an execution appears when its thread seals it; only a file an
\* asset names is ever lost.
FilesFollowThreads ==
    /\ \A w \in Worker : worker[w].phase = "querying" => file[worker[w].token] = "none"
    /\ \A w \in Worker : worker[w].phase = "sealed" => file[worker[w].token] # "none"
    /\ \A k \in Token : file[k] = "lost" => \E t \in Task : asset[t] = k

LeasesMatchStatus == \A t \in Task : taskStatus[t] = "RUNNING" <=> lease[t] # NoToken

FreshTasks == \A t \in Task : taskStatus[t] \in {"ABSENT", "PENDING"} => attempts[t] = 0

PlansFrozen ==
    /\ \A b \in Batch : batchStatus[b] = "ABSENT" => ~frozen[b] /\ TasksOf(b) = {}
    /\ \A b \in Batch : frozen[b] => TasksOf(b) = planned[b]

EndedBatches ==
    \A b \in Batch : batchStatus[b] \in {"CLOSED", "CANCELLED"} =>
        /\ batchStatus[b] = "CLOSED" => frozen[b]
        /\ \A t \in TasksOf(b) : taskStatus[t] \in Terminal

CancelLocksTasks ==
    /\ cancelling.batch = NoBatch => cancelling.tasks = {}
    /\ cancelling.batch # NoBatch => cancelling.tasks \subseteq TasksOf(cancelling.batch)

ReconSeesAssets == \A t \in recon.assets : asset[t] # NoToken

IInv ==
    /\ TypeOK
    /\ OneOwner
    /\ ThreadsApart
    /\ FilesFollowThreads
    /\ LeasesMatchStatus
    /\ ResultMatchesAsset
    /\ RetryBudget
    /\ FreshTasks
    /\ PlansFrozen
    /\ EndedBatches
    /\ CancelLocksTasks
    /\ ReconSeesAssets

(* The ledger the processing side sees (module TaskLedger).                *)

\* Threads, leases, retries, crashes and recoveries are invisible in it: every
\* step of Collection is one step of the ledger, or none.
Outcome(status) ==
    CASE status = "ABSENT"      -> "absent"
      [] status = "SUCCESS"     -> "data"
      [] status = "EMPTY_VALID" -> "no_data"
      [] status \in {"FAILED", "SKIPPED", "CANCELLED"} -> "dropped"
      [] OTHER                  -> "due"

LedgerStatus(status) ==
    CASE status = "ABSENT"    -> "absent"
      [] status = "CLOSED"    -> "closed"
      [] status = "CANCELLED" -> "cancelled"
      [] OTHER                -> "open"

Abstract == INSTANCE TaskLedger WITH
    ledger <- [b \in Batch |-> LedgerStatus(batchStatus[b])],
    final <- frozen,
    outcome <- [t \in Task |-> Outcome(taskStatus[t])]

\* Collection implements the ledger.
ImplementsLedger == Abstract!Ledger

(* Liveness.                                                               *)

\* Once its plan is frozen a batch reaches an end, through retries, crashes,
\* recoveries and commands.
FrozenBatchEnds ==
    \A b \in Batch : frozen[b] ~> batchStatus[b] \in {"CLOSED", "CANCELLED"}
=============================================================================
