----------------------------- MODULE Processing -----------------------------
(***************************************************************************)
(* The processing side of the pipeline: the planner that turns a closed    *)
(* batch into processing tasks and resolves their dependencies, the        *)
(* threads that claim a task, prepare it and publish a release or record a *)
(* failure, the recovery of interrupted tasks, and the administrator's     *)
(* retry, skip and cancel commands. The extra rules of stock_daily.core    *)
(* and stock_daily.limit are not in this module.                           *)
(*                                                                         *)
(* An action is one database transaction, except planning: it reads tasks  *)
(* it does not lock and writes most of what it decides when it commits     *)
(* (the sessions do not autoflush), so that it takes three steps.          *)
(***************************************************************************)
EXTENDS Naturals, FiniteSets

CONSTANTS
    Batch,          \* collection batches
    Dataset,        \* output datasets
    Affected,       \* the datasets a batch is planned for
    Needs,          \* the datasets whose release a dataset depends on
    Scope,          \* the release scope of a dataset in a batch: a date, or GLOBAL
    LastCode,       \* code releases are 1 .. LastCode
    Revision,       \* processor revision of a dataset in a code release
    Worker,         \* threads of the processing pool
    None,           \* no task, no thread, no batch
    MaxRunning,     \* PROCESSING_MAX_WORKERS
    MaxAttempts,    \* max_attempts of a new task
    MaxFaults,      \* bound: crashes, dead threads, timeouts of live threads
    MaxRetries,     \* bound: retries the administrator asks for
    MaxStops        \* bound: tasks the administrator skips or cancels

\* A processing task: its process_id is computed from the batch, the dataset
\* and the processor version.
Process == [batch : Batch, dataset : Dataset, rev : {Revision[c][d] : c \in 1 .. LastCode, d \in Dataset}]

ASSUME ProcessingAssumption ==
    /\ IsFiniteSet(Batch) /\ IsFiniteSet(Dataset)
    /\ Affected \in [Batch -> SUBSET Dataset]
    /\ Needs \in [Dataset -> SUBSET Dataset]
    /\ LastCode \in Nat \ {0}
    /\ Revision \in [1 .. LastCode -> [Dataset -> Nat]]
    /\ \A c, e \in 1 .. LastCode, d \in Dataset : c <= e => Revision[c][d] <= Revision[e][d]
    /\ None \notin Batch \cup Worker \cup Process
    /\ MaxRunning \in Nat \ {0}
    /\ MaxAttempts \in Nat \ {0}
    /\ MaxFaults \in Nat
    /\ MaxRetries \in Nat
    /\ MaxStops \in Nat

VARIABLES
    available,      \* [Batch -> datasets whose raw assets the batch has], None while it is open
    planned,        \* [Batch -> code release of processing_plan_version, 0 for NULL]
    status,         \* [Process -> status], "ABSENT" before the task is inserted
    attempts,       \* [Process -> attempt_count]
    limit,          \* [Process -> max_attempts]
    lease,          \* [Process -> the execution its token belongs to: a thread, or None]
    raw,            \* [Process -> status of its RAW_ASSET dependency rows]
    dep,            \* [Process -> [Dataset -> its DATASET_RELEASE row: status, resolved task]]
    release,        \* [scope key -> task of the dataset_release row, or None]
    worker,         \* [Worker -> the task the thread executes, or None]
    planner,        \* the planning transaction under way
    code,           \* the code release that runs
    up,             \* the scheduler process runs
    faults,         \* faults still to come
    retries,        \* retry commands still to come
    stops           \* skip and cancel commands still to come

taskVars == <<status, attempts, limit, lease, raw, dep>>
bounds == <<faults, retries, stops>>
vars == <<available, planned, taskVars, release, worker, planner, code, up, bounds>>

Terminal == {"SUCCESS", "FAILED", "SKIPPED", "CANCELLED"}
Mutable == {"WAITING_DEPENDENCY", "QUEUED", "RETRY_WAIT", "BLOCKED"}
Retryable == {"FAILED", "SKIPPED", "CANCELLED", "BLOCKED", "RETRY_WAIT"}
Replannable == {"WAITING_DEPENDENCY", "BLOCKED"}
Statuses == Terminal \cup Mutable \cup {"ABSENT", "RUNNING"}
RowStatuses == {"NONE", "READY", "WAITING", "FAILED", "MISSING"}
Rows == [status : RowStatuses, on : Process \cup {None}]
Keys == {<<d, Scope[b][d]>> : b \in Batch, d \in Dataset}

NoRow == [status |-> "NONE", on |-> None]
NotPlanning == [phase |-> "idle", batch |-> None, seen |-> [p \in Process |-> "ABSENT"],
                created |-> {}, locked |-> {}, cancelled |-> {},
                rows |-> [p \in Process |-> [d \in Dataset |-> NoRow]], complete |-> FALSE]

TypeOK ==
    /\ available \in [Batch -> (SUBSET Dataset) \cup {None}]
    /\ planned \in [Batch -> 0 .. LastCode]
    /\ status \in [Process -> Statuses]
    /\ attempts \in [Process -> 0 .. MaxAttempts + MaxRetries]
    /\ limit \in [Process -> 1 .. MaxAttempts + MaxRetries]
    /\ lease \in [Process -> Worker \cup {None}]
    /\ raw \in [Process -> {"NONE", "READY", "FAILED"}]
    /\ dep \in [Process -> [Dataset -> Rows]]
    /\ release \in [Keys -> Process \cup {None}]
    /\ worker \in [Worker -> Process \cup {None}]
    /\ planner \in [phase : {"idle", "read", "resolved"}, batch : Batch \cup {None},
                    seen : [Process -> Statuses], created : SUBSET Process,
                    locked : SUBSET Process, cancelled : SUBSET Process,
                    rows : [Process -> [Dataset -> Rows]], complete : BOOLEAN]
    /\ code \in 1 .. LastCode
    /\ up \in BOOLEAN
    /\ faults \in 0 .. MaxFaults
    /\ retries \in 0 .. MaxRetries
    /\ stops \in 0 .. MaxStops

Init ==
    /\ available = [b \in Batch |-> None]
    /\ planned = [b \in Batch |-> 0]
    /\ status = [p \in Process |-> "ABSENT"]
    /\ attempts = [p \in Process |-> 0]
    /\ limit = [p \in Process |-> MaxAttempts]
    /\ lease = [p \in Process |-> None]
    /\ raw = [p \in Process |-> "NONE"]
    /\ dep = [p \in Process |-> [d \in Dataset |-> NoRow]]
    /\ release = [k \in Keys |-> None]
    /\ worker = [w \in Worker |-> None]
    /\ planner = NotPlanning
    /\ code = 1
    /\ up = TRUE
    /\ faults = MaxFaults
    /\ retries = MaxRetries
    /\ stops = MaxStops

Key(p) == <<p.dataset, Scope[p.batch][p.dataset]>>
Current(b, d) == [batch |-> b, dataset |-> d, rev |-> Revision[code][d]]
Dependents(p) == {q \in Process : \E d \in Dataset : dep[q][d].on = p}
Newest(S) == CHOOSE p \in S : \A q \in S : q.rev <= p.rev

\* A row the planning transaction has locked; what it inserted is not visible.
Free(p) == p \notin planner.locked \cup planner.created

-----------------------------------------------------------------------------
(* Planning.                                                               *)

\* The batch is closed, with or without all its raw assets.
CloseBatch(b, datasets) ==
    /\ available[b] = None
    /\ available' = [available EXCEPT ![b] = datasets]
    /\ UNCHANGED <<planned, taskVars, release, worker, planner, code, up, bounds>>

\* The transaction locks a batch that is not planned with this code, and reads
\* its tasks without locking them.
PlanBegin(b) ==
    /\ up
    /\ planner.phase = "idle"
    /\ available[b] # None
    /\ planned[b] # code
    /\ planner' = [NotPlanning EXCEPT !.phase = "read", !.batch = b,
                     !.seen = [p \in Process |-> IF p.batch = b THEN status[p] ELSE "ABSENT"]]
    /\ UNCHANGED <<available, planned, taskVars, release, worker, code, up, bounds>>

\* Tasks of the dataset in the batch, of other revisions, that the planner saw.
Prior(b, d) ==
    {p \in Process : p.batch = b /\ p.dataset = d /\ p # Current(b, d) /\ planner.seen[p] # "ABSENT"}

\* _upsert_processing_task: keep the current task, or a published older one,
\* otherwise insert the current one.
Kept(b, d) ==
    IF planner.seen[Current(b, d)] = "ABSENT" /\ Prior(b, d) # {}
       /\ planner.seen[Newest(Prior(b, d))] = "SUCCESS"
    THEN Newest(Prior(b, d))
    ELSE Current(b, d)

\* Variant: only what could be claimed is cancelled.
ReplacedQueued(b, d) ==
    {p \in Prior(b, d) : planner.seen[Current(b, d)] = "ABSENT"
                         /\ planner.seen[p] \in {"QUEUED", "RETRY_WAIT"}}

\* An insertion cancels the older tasks that do not run.
Replaced(b, d) ==
    {p \in Prior(b, d) : planner.seen[Current(b, d)] = "ABSENT"
                         /\ planner.seen[p] \notin Terminal \cup {"RUNNING"}}

\* The upstream task of a dependency: the current one, else the newest.
Upstream(b, d, inserted) ==
    LET there == {p \in Process : /\ p.batch = b /\ p.dataset = d
                                  /\ status[p] # "ABSENT" \/ p \in inserted}
    IN  IF Current(b, d) \in there THEN Current(b, d)
        ELSE IF there # {} THEN Newest(there)
        ELSE None

RowStatus(s) ==
    IF s = "SUCCESS" THEN "READY" ELSE IF s \in Terminal THEN "FAILED" ELSE "WAITING"

\* _resolve_dependencies for one dependency: the upstream task of the batch,
\* read without a lock, else the release.
Resolve(b, d, inserted) ==
    LET u == Upstream(b, d, inserted)
        r == release[<<d, Scope[b][d]>>]
    IN  IF u # None
        THEN [status |-> RowStatus(status[u]), on |-> u]
        ELSE [status |-> IF r # None THEN "READY" ELSE "MISSING", on |-> r]

RawStatus(p) == IF p.dataset \in available[p.batch] THEN "READY" ELSE "FAILED"

\* Variant: the plan recorded whatever was skipped.
CompleteUnlessWaiting(skipped, resolved, rows) ==
    \A p \in resolved : \A d \in Dataset : rows[p][d].status # "WAITING"

\* The plan is recorded if every candidate was locked and nothing waits.
Complete(skipped, resolved, rows) ==
    skipped = {} /\ \A p \in resolved : \A d \in Dataset : rows[p][d].status # "WAITING"

\* Insert, lock and resolve. Rows another transaction has locked are skipped.
PlanResolve(skipped) ==
    /\ planner.phase = "read"
    /\ LET b == planner.batch
           kept == {Kept(b, d) : d \in Affected[b]}
           inserted == {p \in kept : status[p] = "ABSENT"}
           candidates == {p \in kept : status[p] \in Replannable}
           locked == candidates \ skipped
           rows == [p \in Process |->
                      [d \in Dataset |->
                         IF p \in inserted \cup locked /\ d \in Needs[p.dataset]
                         THEN Resolve(b, d, inserted) ELSE NoRow]]
       IN  /\ skipped \subseteq candidates
           /\ planner' = [planner EXCEPT
                !.phase = "resolved",
                !.created = inserted,
                !.locked = locked,
                !.cancelled = UNION {Replaced(b, d) : d \in Affected[b]},
                !.rows = rows,
                !.complete = Complete(skipped, inserted \cup locked, rows)]
    /\ UNCHANGED <<available, planned, taskVars, release, worker, code, up, bounds>>

\* Variant: one ready row is enough.
AnyReadiness(rawStatus, rows) ==
    LET found == ({rawStatus} \cup {rows[d].status : d \in Dataset}) \ {"NONE"}
    IN  IF "READY" \in found THEN "QUEUED"
        ELSE IF found \cap {"MISSING", "FAILED"} # {} THEN "BLOCKED"
        ELSE "WAITING_DEPENDENCY"

\* _refresh_task_readiness, from the rows of the task.
Readiness(rawStatus, rows) ==
    LET found == ({rawStatus} \cup {rows[d].status : d \in Dataset}) \ {"NONE"}
    IN  IF found = {"READY"} THEN "QUEUED"
        ELSE IF found \cap {"MISSING", "FAILED"} # {} THEN "BLOCKED"
        ELSE "WAITING_DEPENDENCY"

\* The flush at commit cancels the replaced tasks whatever they have become: they
\* were read without a lock.
PlanCommit ==
    /\ planner.phase = "resolved"
    /\ LET b == planner.batch
           resolved == planner.created \cup planner.locked
           new(p) == Readiness(RawStatus(p), planner.rows[p])
       IN  /\ status' = [p \in Process |->
                CASE p \in planner.cancelled -> "CANCELLED"
                  [] p \in resolved -> new(p)
                  [] OTHER -> status[p]]
           /\ raw' = [p \in Process |-> IF p \in resolved THEN RawStatus(p) ELSE raw[p]]
           /\ dep' = [p \in Process |-> IF p \in resolved THEN planner.rows[p] ELSE dep[p]]
           /\ planned' = [planned EXCEPT ![b] = IF planner.complete THEN code ELSE @]
    /\ planner' = NotPlanning
    /\ UNCHANGED <<available, attempts, limit, lease, release, worker, code, up, bounds>>

-----------------------------------------------------------------------------
(* Execution.                                                              *)

Running == {p \in Process : status[p] = "RUNNING"}

\* Variants: the scope of a release forgotten, and a queue without its retries.
RoomForAnyScope(p) == Cardinality(Running) < MaxRunning
ClaimableOnce == {"QUEUED"}

\* running_count and running_scope_conflict.
Room(p) == Cardinality(Running) < MaxRunning /\ \A q \in Running : Key(q) # Key(p)

Claimable == {"QUEUED", "RETRY_WAIT"}

\* claim_next, serialised by the advisory lock. A RETRY_WAIT row is due at any
\* time; the order within the queue is left open.
Claim(w, p) ==
    /\ up
    /\ worker[w] = None
    /\ status[p] \in Claimable
    /\ Free(p)
    /\ Room(p)
    /\ status' = [status EXCEPT ![p] = "RUNNING"]
    /\ attempts' = [attempts EXCEPT ![p] = @ + 1]
    /\ lease' = [lease EXCEPT ![p] = w]
    /\ worker' = [worker EXCEPT ![w] = p]
    /\ UNCHANGED <<available, planned, limit, raw, dep, release, planner, code, up, bounds>>

\* Variants: a fence without its token, and none.
HoldsAnyLease(w, p) == status[p] = "RUNNING"
HoldsAlways(w, p) == TRUE

\* The fence of publish_success and fail_task.
Holds(w, p) == status[p] = "RUNNING" /\ lease[p] = w

\* Variant: only rows that wait are marked.
MarkedWaiting(p, rowStatus) ==
    [q \in Process |-> [d \in Dataset |->
        IF dep[q][d].on = p /\ dep[q][d].status = "WAITING"
        THEN [dep[q][d] EXCEPT !.status = rowStatus] ELSE dep[q][d]]]

\* The rows that resolve to p, marked; the tasks they belong to, locked first.
Marked(p, rowStatus) ==
    [q \in Process |-> [d \in Dataset |->
        IF dep[q][d].on = p THEN [dep[q][d] EXCEPT !.status = rowStatus] ELSE dep[q][d]]]

\* publish_success: the release, the task and its dependents in one transaction.
Publish(w) ==
    /\ worker[w] # None
    /\ LET p == worker[w]
           rows == Marked(p, "READY")
       IN  IF Holds(w, p)
           THEN /\ \A q \in Dependents(p) : Free(q)
                /\ release' = [release EXCEPT ![Key(p)] = p]
                /\ dep' = rows
                /\ status' = [q \in Process |->
                     IF q = p THEN "SUCCESS"
                     ELSE IF q \in Dependents(p) /\ status[q] \in Mutable
                     THEN Readiness(raw[q], rows[q])
                     ELSE status[q]]
                /\ lease' = [lease EXCEPT ![p] = None]
           ELSE UNCHANGED <<release, dep, status, lease>>
    /\ worker' = [worker EXCEPT ![w] = None]
    /\ UNCHANGED <<available, planned, attempts, limit, raw, planner, code, up, bounds>>

Again(p, retryable) == retryable /\ attempts[p] < limit[p]

\* fail_task: a retry while attempts are left, else the dependents are blocked.
Fail(w, retryable) ==
    /\ worker[w] # None
    /\ LET p == worker[w]
       IN  /\ IF ~Holds(w, p) THEN UNCHANGED <<status, dep, lease>>
              ELSE IF Again(p, retryable)
              THEN /\ status' = [status EXCEPT ![p] = "RETRY_WAIT"]
                   /\ lease' = [lease EXCEPT ![p] = None]
                   /\ UNCHANGED dep
              ELSE /\ \A q \in Dependents(p) : Free(q)
                   /\ dep' = Marked(p, "FAILED")
                   /\ status' = [q \in Process |->
                        IF q = p THEN "FAILED"
                        ELSE IF q \in Dependents(p) /\ status[q] \notin Terminal THEN "BLOCKED"
                        ELSE status[q]]
                   /\ lease' = [q \in Process |->
                        IF q = p \/ (q \in Dependents(p) /\ status[q] \notin Terminal)
                        THEN None ELSE lease[q]]
    /\ worker' = [worker EXCEPT ![w] = None]
    /\ UNCHANGED <<available, planned, attempts, limit, raw, release, planner, code, up, bounds>>

-----------------------------------------------------------------------------
(* Interruptions.                                                          *)

\* recover_running_tasks: the attempt is given back.
Recover(tasks) ==
    /\ status' = [p \in Process |-> IF p \in tasks THEN "RETRY_WAIT" ELSE status[p]]
    /\ attempts' = [p \in Process |-> IF p \in tasks /\ attempts[p] > 0
                                      THEN attempts[p] - 1 ELSE attempts[p]]
    /\ lease' = [p \in Process |-> IF p \in tasks THEN None ELSE lease[p]]

\* The periodic recovery. A task nobody executes is stale at some time, one
\* whose thread is merely slow only at the cost of a fault.
RecoverStale(p) ==
    /\ up
    /\ status[p] = "RUNNING"
    /\ IF \E w \in Worker : worker[w] = p /\ lease[p] = w
       THEN faults > 0 /\ faults' = faults - 1
       ELSE UNCHANGED faults
    /\ Recover({p})
    /\ UNCHANGED <<available, planned, limit, raw, dep, release, worker, planner, code, up, retries, stops>>

\* The thread ends with an exception that fail_task raised itself.
WorkerDies(w) ==
    /\ worker[w] # None
    /\ faults > 0
    /\ faults' = faults - 1
    /\ worker' = [worker EXCEPT ![w] = None]
    /\ UNCHANGED <<available, planned, taskVars, release, planner, code, up, retries, stops>>

Crash ==
    /\ up
    /\ faults > 0
    /\ faults' = faults - 1
    /\ up' = FALSE
    /\ worker' = [w \in Worker |-> None]
    /\ planner' = NotPlanning
    /\ UNCHANGED <<available, planned, taskVars, release, code, retries, stops>>

\* The process starts, perhaps with newer code, and recovers every running task.
Restart(newCode) ==
    /\ ~up
    /\ up' = TRUE
    /\ newCode >= code
    /\ code' = newCode
    /\ Recover(Running)
    /\ UNCHANGED <<available, planned, limit, raw, dep, release, worker, planner, bounds>>

-----------------------------------------------------------------------------
(* The administrator's commands.                                           *)

Retry == retries > 0 /\ retries' = retries - 1
Stop == stops > 0 /\ stops' = stops - 1

AllReady(rawStatus, rows) == Readiness(rawStatus, rows) = "QUEUED"

\* _is_unchanged_deterministic_failure
Deterministic(p) ==
    /\ p = Current(p.batch, p.dataset)
    /\ status[p] = "FAILED"
    /\ attempts[p] < limit[p]

\* retry_processing_task on a task of the current revision.
RetryTask(p) ==
    /\ Retry
    /\ p = Current(p.batch, p.dataset)
    /\ status[p] \in Retryable
    /\ Free(p)
    /\ ~Deterministic(p)
    /\ AllReady(raw[p], dep[p])
    /\ status' = [status EXCEPT ![p] = "QUEUED"]
    /\ limit' = [limit EXCEPT ![p] = IF attempts[p] + 1 > @ THEN attempts[p] + 1 ELSE @]
    /\ UNCHANGED <<available, planned, attempts, lease, raw, dep, release, worker, planner, code, up, faults, stops>>

\* retry_processing_task on a task of an older revision: its replacement is
\* queued, created with the older task's dependency rows if it is not there.
RetryReplaced(p) ==
    LET r == Current(p.batch, p.dataset)
        absent == status[r] = "ABSENT"
        rows == IF absent THEN dep[p] ELSE dep[r]
        rawStatus == IF absent THEN raw[p] ELSE raw[r]
    IN  /\ Retry
        /\ p # r
        /\ status[p] \in Retryable
        /\ Free(p) /\ Free(r)
        /\ AllReady(raw[p], dep[p])
        /\ status[r] \notin {"SUCCESS", "RUNNING"}
        /\ ~Deterministic(r)
        /\ AllReady(rawStatus, rows)
        /\ status' = [status EXCEPT ![r] = "QUEUED"]
        /\ dep' = [dep EXCEPT ![r] = rows]
        /\ raw' = [raw EXCEPT ![r] = rawStatus]
        /\ limit' = [limit EXCEPT ![r] =
             LET base == IF absent /\ limit[p] > MaxAttempts THEN limit[p] ELSE @
             IN  IF attempts[r] + 1 > base THEN attempts[r] + 1 ELSE base]
        /\ UNCHANGED <<available, planned, attempts, lease, release, worker, planner, code, up, faults, stops>>

\* transition_processing_task: skip or cancel a task that is not running, and
\* block the tasks that wait for it.
TransitionTask(p, target) ==
    /\ Stop
    /\ status[p] \in Mutable
    /\ Free(p)
    /\ \A q \in Dependents(p) : Free(q)
    /\ dep' = Marked(p, "FAILED")
    /\ status' = [q \in Process |->
         IF q = p THEN target
         ELSE IF q \in Dependents(p) /\ status[q] \in Mutable THEN "BLOCKED"
         ELSE status[q]]
    /\ UNCHANGED <<available, planned, attempts, limit, lease, raw, release, worker, planner, code, up, faults, retries>>

-----------------------------------------------------------------------------
Plan ==
    \/ \E b \in Batch : PlanBegin(b)
    \/ \E skipped \in SUBSET {p \in Process : status[p] \in Replannable} : PlanResolve(skipped)
    \/ PlanCommit

Execute(w) ==
    \/ Publish(w)
    \/ \E retryable \in BOOLEAN : Fail(w, retryable)
    \/ WorkerDies(w)

Admin ==
    \E p \in Process :
        \/ RetryTask(p)
        \/ RetryReplaced(p)
        \/ \E target \in {"SKIPPED", "CANCELLED"} : TransitionTask(p, target)

Next ==
    \/ \E b \in Batch : \E datasets \in SUBSET Affected[b] : CloseBatch(b, datasets)
    \/ Plan
    \/ \E w \in Worker, p \in Process : Claim(w, p)
    \/ \E w \in Worker : Execute(w)
    \/ \E p \in Process : RecoverStale(p)
    \/ Crash
    \/ \E newCode \in 1 .. LastCode : Restart(newCode)
    \/ Admin

Spec == Init /\ [][Next]_vars

\* The timers and the refill thread keep planning, dispatching and recovering; a
\* thread ends what it began; the process is restarted. Nobody holds the row of a
\* waiting task each time the planner comes by.
Fairness ==
    /\ WF_vars(PlanCommit)
    /\ \A b \in Batch : SF_vars(PlanBegin(b)) /\ SF_vars(planner.batch = b /\ PlanResolve({}))
    /\ \A p \in Process : SF_vars(\E w \in Worker : Claim(w, p))
    /\ \A w \in Worker : SF_vars(Execute(w))
    /\ \A p \in Process : WF_vars(RecoverStale(p))
    /\ WF_vars(\E newCode \in 1 .. LastCode : Restart(newCode))

FairSpec == Spec /\ Fairness

-----------------------------------------------------------------------------
\* docs/02 section 6: at most PROCESSING_MAX_WORKERS tasks run, and never two
\* for the same release scope, whatever is recovered, retried or republished.
ConcurrencyLimits ==
    /\ Cardinality(Running) <= MaxRunning
    /\ \A p, q \in Running : p # q => Key(p) # Key(q)

\* docs/02 section 5: no task is queued, runs or waits for a retry on incomplete
\* inputs: its raw assets are there and every task it was resolved to has
\* published.
NoDegradedExecution ==
    \A p \in Process : status[p] \in {"QUEUED", "RUNNING", "RETRY_WAIT", "SUCCESS"} =>
        /\ raw[p] = "READY"
        /\ \A d \in Needs[p.dataset] : dep[p][d].status = "READY" /\ status[dep[p][d].on] = "SUCCESS"

\* A task left waiting by a planner that read a stale upstream status is never
\* forgotten: its batch is planned again until nothing waits.
WaitingIsReplanned ==
    \A p \in Process :
        status[p] = "WAITING_DEPENDENCY" /\ p = Current(p.batch, p.dataset) => planned[p.batch] # code

\* Only the execution that holds the lease publishes, and once: a thread whose
\* task was recovered changes neither the release nor the task.
PublishedByLeaseHolder ==
    [][\A p \in Process : status'[p] = "SUCCESS" /\ status[p] # "SUCCESS" =>
         /\ release'[Key(p)] = p
         /\ \E w \in Worker : worker[w] = p /\ lease[p] = w /\ worker'[w] = None]_vars

\* Once a batch is planned with the running code, no task of an older revision
\* waits, is queued or blocked in it: the current one has taken its place. (So it is while
\* no processor is replaced twice or the administrator retries no old task; a retry of one
\* queues the current task, and the planner then cancels no other old one.)
OldTasksRetired ==
    \A p \in Process : planned[p.batch] = code /\ p # Current(p.batch, p.dataset) =>
        status[p] \notin {"WAITING_DEPENDENCY", "QUEUED", "BLOCKED"}

\* docs/02 section 5: a task whose required dependencies are all there enters the
\* queue; in a planned batch none is left behind. (Of tasks the planner finds: one it
\* inserts in an upgrade may be, while an upstream task that failed is retried.)
ReadyTasksQueued ==
    \A p \in Process :
        status[p] \in Replannable /\ raw[p] = "READY" /\ planned[p.batch] = code =>
            \E d \in Needs[p.dataset] : dep[p][d].on = None \/ status[dep[p][d].on] # "SUCCESS"

\* No task that could run is overlooked: what waits is planned again, and what has all
\* its dependencies is queued.
NothingOverlooked == TypeOK /\ WaitingIsReplanned /\ ReadyTasksQueued

\* Processing implements the abstract ledger of releases: one publication per
\* task, and none before the datasets it needs are published in its scope.
Abstract == INSTANCE ReleaseLedger WITH
    published <- {p \in Process : status[p] = "SUCCESS"},
    current <- release
ImplementsReleases == Abstract!Releases

\* A queued task ends, through crashes, dead threads and timeouts.
QueuedEnds ==
    \A p \in Process : status[p] = "QUEUED" ~> status[p] \in Terminal

\* A task whose raw assets are there is queued unless an upstream is not to be
\* had: no success of an upstream task is lost.
WakeUp ==
    \A p \in Process : status[p] = "WAITING_DEPENDENCY" ~>
        \/ status[p] # "WAITING_DEPENDENCY"
        \/ \E d \in Needs[p.dataset] : status[Current(p.batch, d)] \in {"BLOCKED", "FAILED"}
=============================================================================
