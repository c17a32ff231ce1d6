----------------------------- MODULE StockDaily -----------------------------
(***************************************************************************)
(* The two datasets that write the same rows: stock_daily.core replaces    *)
(* the rows of a date, stock_daily.limit patches two columns of them. A    *)
(* limit release belongs to the core release it was checked against, so    *)
(* that a new core release withdraws it and has it made again.             *)
(*                                                                         *)
(* The module follows one business date. Tasks are those of the running    *)
(* processors; the dependency of the limit on the stock release is taken   *)
(* as ready. An action is a transaction; planning takes two steps, since   *)
(* nothing keeps a release from being published between them.              *)
(***************************************************************************)
EXTENDS Naturals, FiniteSets

CONSTANTS
    CoreBatch,      \* batches that stock_daily.core is planned for
    LimitBatch,     \* batches that stock_daily.limit is planned for
    Sealed,         \* [LimitBatch -> when its stk_limit asset was sealed, 0 if it has none]
    Worker,         \* threads of the processing pool
    None,           \* no task, no batch
    MaxAttempts,    \* max_attempts of a task
    MaxFaults,      \* bound: errors of a processor, timeouts of a live thread
    MaxCommands     \* bound: retries, skips and cancellations by the administrator

\* A batch has one core task, which goes by its name, its limit task <<b, None>>
\* and the successors <<b, c>> made for the release of core task c.
LimitTask == LimitBatch \X (CoreBatch \cup {None})
Task == CoreBatch \cup LimitTask

ASSUME StockDailyAssumption ==
    /\ IsFiniteSet(CoreBatch) /\ IsFiniteSet(LimitBatch)
    /\ (CoreBatch \cup LimitBatch) \cap LimitTask = {}
    /\ Sealed \in [LimitBatch -> Nat]
    /\ None \notin CoreBatch \cup LimitBatch \cup Task
    /\ MaxAttempts \in Nat \ {0}
    /\ MaxFaults \in Nat
    /\ MaxCommands \in Nat

VARIABLES
    status,         \* [Task -> status], "ABSENT" before the task is inserted
    attempts,       \* [Task -> attempt_count]
    limit,          \* [Task -> max_attempts]
    lease,          \* [Task -> the thread that holds its execution token, or None]
    row,            \* [LimitTask -> its stock_daily.core row: status, resolved task]
    coreRelease,    \* the task of the stock_daily.core release, or None
    limitRelease,   \* the task of the stock_daily.limit release, or None
    columns,        \* the task whose up_limit and down_limit the table holds, or None
    worker,         \* [Worker -> the task the thread executes, or None]
    planned,        \* batches whose processing_plan_version is set
    planner,        \* the planning transaction: batch, inserted and locked tasks, row
    faults,         \* faults still to come
    commands        \* commands still to come

taskVars == <<status, attempts, limit, lease, row>>
releaseVars == <<coreRelease, limitRelease, columns>>
vars == <<taskVars, releaseVars, worker, planned, planner, faults, commands>>

Terminal == {"SUCCESS", "FAILED", "SKIPPED", "CANCELLED"}
Mutable == {"WAITING_DEPENDENCY", "QUEUED", "RETRY_WAIT", "BLOCKED"}
Active == Mutable \cup {"RUNNING"}
Statuses == Active \cup Terminal \cup {"ABSENT"}
Rows == [status : {"NONE", "READY", "WAITING", "FAILED", "MISSING"}, on : CoreBatch \cup {None}]
NoRow == [status |-> "NONE", on |-> None]
NotPlanning == [batch |-> None, inserted |-> {}, locked |-> {}, row |-> NoRow]

TypeOK ==
    /\ status \in [Task -> Statuses]
    /\ attempts \in [Task -> 0 .. MaxAttempts + MaxCommands]
    /\ limit \in [Task -> 1 .. MaxAttempts + MaxCommands]
    /\ lease \in [Task -> Worker \cup {None}]
    /\ row \in [LimitTask -> Rows]
    /\ coreRelease \in CoreBatch \cup {None}
    /\ limitRelease \in LimitTask \cup {None}
    /\ columns \in LimitTask \cup {None}
    /\ worker \in [Worker -> Task \cup {None}]
    /\ planned \subseteq CoreBatch \cup LimitBatch
    /\ planner \in [batch : CoreBatch \cup LimitBatch \cup {None}, inserted : SUBSET Task,
                    locked : SUBSET Task, row : Rows]
    /\ faults \in 0 .. MaxFaults
    /\ commands \in 0 .. MaxCommands

Init ==
    /\ status = [t \in Task |-> "ABSENT"]
    /\ attempts = [t \in Task |-> 0]
    /\ limit = [t \in Task |-> MaxAttempts]
    /\ lease = [t \in Task |-> None]
    /\ row = [t \in LimitTask |-> NoRow]
    /\ coreRelease = None
    /\ limitRelease = None
    /\ columns = None
    /\ worker = [w \in Worker |-> None]
    /\ planned = {}
    /\ planner = NotPlanning
    /\ faults = MaxFaults
    /\ commands = MaxCommands

Standard(b) == <<b, None>>
Present == {t \in LimitTask : status[t] # "ABSENT"}
Free(t) == t \notin planner.locked

\* _refresh_task_readiness of a limit task.
Readiness(t, rowStatus) ==
    IF rowStatus \in {"MISSING", "FAILED"} \/ Sealed[t[1]] = 0 THEN "BLOCKED"
    ELSE IF rowStatus = "READY" THEN "QUEUED"
    ELSE "WAITING_DEPENDENCY"

-----------------------------------------------------------------------------
(* Planning of a closed batch.                                             *)

RowStatus(s) ==
    IF s = "SUCCESS" THEN "READY" ELSE IF s \in Terminal THEN "FAILED" ELSE "WAITING"

\* The row of the batch's limit task: the core task of the batch, else the release.
Resolved(b) ==
    IF b \in CoreBatch THEN [status |-> RowStatus(status[b]), on |-> b]
    ELSE [status |-> IF coreRelease = None THEN "MISSING" ELSE "READY", on |-> coreRelease]

\* The tasks of the batch are inserted, or locked while they wait, and resolved.
PlanResolve(b) ==
    /\ planner = NotPlanning
    /\ b \notin planned
    /\ LET own == {t \in {b, Standard(b)} : t \in Task}
       IN  planner' = [batch |-> b,
                       inserted |-> {t \in own : status[t] = "ABSENT"},
                       locked |-> {t \in own : status[t] \in {"WAITING_DEPENDENCY", "BLOCKED"}},
                       row |-> Resolved(b)]
    /\ UNCHANGED <<taskVars, releaseVars, worker, planned, faults, commands>>

\* The core task waits for its own upstream datasets, or does not.
PlanCommit(coreStatus) ==
    LET b == planner.batch
        resolved == planner.inserted \cup planner.locked
        limitStatus == Readiness(Standard(b), planner.row.status)
        waits == \/ Standard(b) \in resolved /\ planner.row.status = "WAITING"
                 \/ b \in resolved /\ coreStatus = "WAITING_DEPENDENCY"
    IN  /\ planner # NotPlanning
        /\ status' = [t \in Task |-> IF t \notin resolved THEN status[t]
                                     ELSE IF t = b THEN coreStatus
                                     ELSE limitStatus]
        /\ row' = [t \in LimitTask |-> IF t \in resolved THEN planner.row ELSE row[t]]
        /\ planned' = IF waits THEN planned ELSE planned \cup {b}
        /\ planner' = NotPlanning
        /\ UNCHANGED <<attempts, limit, lease, releaseVars, worker, faults, commands>>

\* The last upstream dataset of a core task is published.
CoreReady(b) ==
    /\ status[b] = "WAITING_DEPENDENCY"
    /\ Free(b)
    /\ status' = [status EXCEPT ![b] = "QUEUED"]
    /\ UNCHANGED <<attempts, limit, lease, row, releaseVars, worker, planned, planner, faults, commands>>

-----------------------------------------------------------------------------
(* Execution.                                                              *)

\* The core tasks a limit task stands back for.
ActiveCores == {t \in CoreBatch : status[t] \in {"QUEUED", "RUNNING", "RETRY_WAIT", "WAITING_DEPENDENCY"}}

\* claim_next: one running task per dataset of the date, no limit while a core
\* is active.
Claim(w, t) ==
    /\ worker[w] = None
    /\ status[t] \in {"QUEUED", "RETRY_WAIT"}
    /\ Free(t)
    /\ \A u \in Task : status[u] = "RUNNING" => (u \in CoreBatch) # (t \in CoreBatch)
    /\ t \in LimitTask => ActiveCores = {}
    /\ status' = [status EXCEPT ![t] = "RUNNING"]
    /\ attempts' = [attempts EXCEPT ![t] = @ + 1]
    /\ lease' = [lease EXCEPT ![t] = w]
    /\ worker' = [worker EXCEPT ![w] = t]
    /\ UNCHANGED <<limit, row, releaseVars, planned, planner, faults, commands>>

Holds(w) == worker[w] # None /\ status[worker[w]] = "RUNNING" /\ lease[worker[w]] = w

\* Variant: whichever task comes first.
AnyTask(tasks) == tasks

\* _freshest_stock_daily_limit_task
Freshest(tasks) == {t \in tasks : \A u \in tasks : Sealed[u[1]] <= Sealed[t[1]]}

\* Active limit tasks that were resolved to core task c.
PlannedFor(c) == {t \in LimitTask : status[t] \in Active /\ row[t].on = c}

\* Variant: tasks that failed are not made again.
SourcesActive(c) ==
    IF PlannedFor(c) # {} THEN Freshest(PlannedFor(c))
    ELSE IF limitRelease # None THEN {limitRelease}
    ELSE Freshest({t \in Present : status[t] \in Active})

\* The task the limit of core release c is made from: a planned task of c, else
\* the one whose release is withdrawn, else the freshest active or past one.
Sources(c) ==
    IF PlannedFor(c) # {} THEN Freshest(PlannedFor(c))
    ELSE IF limitRelease # None THEN {limitRelease}
    ELSE IF \E t \in Present : status[t] \in Active
    THEN Freshest({t \in Present : status[t] \in Active})
    ELSE Freshest(Present)

\* The planned task itself, or a successor of the source task.
Chosen(c, source) == IF source \in PlannedFor(c) THEN source ELSE <<source[1], c>>

\* Without a release to withdraw, the other tasks that do not run are cancelled.
Superseded(chosen) ==
    IF limitRelease # None THEN {}
    ELSE {t \in Present : status[t] \in Mutable /\ t # chosen}

\* _existing_stock_daily_patch_values: the columns outlive the rows they patch
\* where the prices are the same and the limit release was checked against the
\* core release that is replaced.
KeptColumns(samePrices) ==
    IF /\ samePrices
       /\ coreRelease # None /\ limitRelease # None
       /\ row[limitRelease] = [status |-> "READY", on |-> coreRelease]
    THEN columns ELSE None

\* publish_success of stock_daily.core.
PublishCore(w, samePrices) ==
    LET c == worker[w]
    IN  /\ Holds(w)
        /\ c \in CoreBatch
        /\ \A t \in LimitTask : Free(t)
        /\ \E source \in IF Sources(c) = {} THEN {None} ELSE Sources(c) :
             LET chosen == IF source = None THEN None ELSE Chosen(c, source)
                 rows == [t \in LimitTask |->
                            IF t = chosen \/ row[t].on = c
                            THEN [status |-> "READY", on |-> c] ELSE row[t]]
             IN  /\ row' = rows
                 /\ status' = [t \in Task |->
                      IF t = c THEN "SUCCESS"
                      ELSE IF t \in Superseded(chosen) THEN "CANCELLED"
                      ELSE IF \/ t = chosen /\ status[t] = "ABSENT"
                              \/ t \in LimitTask /\ row[t].on = c /\ status[t] \in Mutable
                      THEN Readiness(t, "READY")
                      ELSE status[t]]
        /\ coreRelease' = c
        /\ limitRelease' = None
        /\ columns' = KeptColumns(samePrices)
        /\ lease' = [t \in Task |-> IF t = c THEN None ELSE lease[t]]
        /\ worker' = [worker EXCEPT ![w] = None]
        /\ UNCHANGED <<attempts, limit, planned, planner, faults, commands>>

\* A retryable refusal: a core task is active, or nothing is released yet.
TooEarly == ActiveCores # {} \/ coreRelease = None

\* The output version of a successor names the core task of its row.
StaleLineage(t) == t[2] # None /\ row[t].on # t[2]

\* Variant: the row stays as it was resolved.
PublishLimitAsResolved(w) ==
    LET t == worker[w]
    IN  /\ Holds(w)
        /\ t \in LimitTask
        /\ ~TooEarly
        /\ ~StaleLineage(t)
        /\ limitRelease' = t
        /\ columns' = t
        /\ status' = [status EXCEPT ![t] = "SUCCESS"]
        /\ lease' = [lease EXCEPT ![t] = None]
        /\ worker' = [worker EXCEPT ![w] = None]
        /\ UNCHANGED <<attempts, limit, row, coreRelease, planned, planner, faults, commands>>

\* publish_success of stock_daily.limit: the row is pointed at the current core
\* release, which the prices are checked against.
PublishLimit(w) ==
    LET t == worker[w]
    IN  /\ Holds(w)
        /\ t \in LimitTask
        /\ ~TooEarly
        /\ ~StaleLineage(t)
        /\ row' = [row EXCEPT ![t] = [status |-> "READY", on |-> coreRelease]]
        /\ limitRelease' = t
        /\ columns' = t
        /\ status' = [status EXCEPT ![t] = "SUCCESS"]
        /\ lease' = [lease EXCEPT ![t] = None]
        /\ worker' = [worker EXCEPT ![w] = None]
        /\ UNCHANGED <<attempts, limit, coreRelease, planned, planner, faults, commands>>

\* fail_task. A failed core task blocks the limit tasks that wait for it.
FailTask(w, retryable) ==
    LET t == worker[w]
        again == retryable /\ attempts[t] < limit[t]
        hit == {u \in LimitTask : t \in CoreBatch /\ ~again /\ row[u].on = t}
    IN  /\ \A u \in hit : Free(u)
        /\ row' = [u \in LimitTask |-> IF u \in hit THEN [row[u] EXCEPT !.status = "FAILED"] ELSE row[u]]
        /\ status' = [u \in Task |->
             IF u = t THEN IF again THEN "RETRY_WAIT" ELSE "FAILED"
             ELSE IF u \in hit /\ status[u] \in Active THEN "BLOCKED"
             ELSE status[u]]
        /\ lease' = [u \in Task |-> IF u = t \/ (u \in hit /\ status[u] \in Active) THEN None ELSE lease[u]]
        /\ worker' = [worker EXCEPT ![w] = None]
        /\ UNCHANGED <<attempts, limit, releaseVars, planned, planner, commands>>

\* publish_success of a limit task is refused.
RefuseLimit(w) ==
    /\ Holds(w)
    /\ worker[w] \in LimitTask
    /\ TooEarly \/ StaleLineage(worker[w])
    /\ FailTask(w, TooEarly)
    /\ UNCHANGED faults

\* The processor, or the database, fails.
Fail(w, retryable) ==
    /\ Holds(w)
    /\ faults > 0
    /\ faults' = faults - 1
    /\ FailTask(w, retryable)

\* The thread has lost its lease: neither a publication nor a failure counts.
Abandon(w) ==
    /\ worker[w] # None
    /\ ~Holds(w)
    /\ worker' = [worker EXCEPT ![w] = None]
    /\ UNCHANGED <<taskVars, releaseVars, planned, planner, faults, commands>>

\* recover_running_tasks while the thread still runs.
Recover(t) ==
    /\ status[t] = "RUNNING"
    /\ faults > 0
    /\ faults' = faults - 1
    /\ status' = [status EXCEPT ![t] = "RETRY_WAIT"]
    /\ attempts' = [attempts EXCEPT ![t] = IF @ > 0 THEN @ - 1 ELSE 0]
    /\ lease' = [lease EXCEPT ![t] = None]
    /\ UNCHANGED <<limit, row, releaseVars, worker, planned, planner, commands>>

-----------------------------------------------------------------------------
(* The administrator's commands.                                           *)

Command == commands > 0 /\ commands' = commands - 1

\* retry_processing_task
Retry(t) ==
    /\ Command
    /\ status[t] \in {"FAILED", "SKIPPED", "CANCELLED", "BLOCKED", "RETRY_WAIT"}
    /\ Free(t)
    /\ ~(status[t] = "FAILED" /\ attempts[t] < limit[t])
    /\ t \in LimitTask => Readiness(t, row[t].status) = "QUEUED"
    /\ status' = [status EXCEPT ![t] = "QUEUED"]
    /\ limit' = [limit EXCEPT ![t] = IF attempts[t] + 1 > @ THEN attempts[t] + 1 ELSE @]
    /\ UNCHANGED <<attempts, lease, row, releaseVars, worker, planned, planner, faults>>

\* transition_processing_task
Stop(t, target) ==
    LET hit == {u \in LimitTask : row[u].on = t}
    IN  /\ Command
        /\ status[t] \in Mutable
        /\ \A u \in hit \cup {t} : Free(u)
        /\ row' = [u \in LimitTask |-> IF u \in hit THEN [row[u] EXCEPT !.status = "FAILED"] ELSE row[u]]
        /\ status' = [u \in Task |->
             IF u = t THEN target
             ELSE IF u \in hit /\ status[u] \in Mutable THEN "BLOCKED"
             ELSE status[u]]
        /\ UNCHANGED <<attempts, limit, lease, releaseVars, worker, planned, planner, faults>>

-----------------------------------------------------------------------------
Execute(w) ==
    \/ \E samePrices \in BOOLEAN : PublishCore(w, samePrices)
    \/ PublishLimit(w)
    \/ RefuseLimit(w)
    \/ \E retryable \in BOOLEAN : Fail(w, retryable)
    \/ Abandon(w)

Next ==
    \/ \E b \in CoreBatch \cup LimitBatch : PlanResolve(b)
    \/ \E coreStatus \in {"WAITING_DEPENDENCY", "QUEUED"} : PlanCommit(coreStatus)
    \/ \E b \in CoreBatch : CoreReady(b)
    \/ \E w \in Worker, t \in Task : Claim(w, t)
    \/ \E w \in Worker : Execute(w)
    \/ \E t \in Task : Recover(t) \/ Retry(t) \/ \E target \in {"SKIPPED", "CANCELLED"} : Stop(t, target)

Spec == Init /\ [][Next]_vars

\* A planning transaction ends, and planning passes that find a core task waiting,
\* and lock its day each time, do not keep everything else from going on.
Fairness ==
    /\ WF_vars(\E coreStatus \in {"WAITING_DEPENDENCY", "QUEUED"} : PlanCommit(coreStatus))
    /\ SF_vars(\/ \E b \in CoreBatch : CoreReady(b)
               \/ \E w \in Worker : Execute(w) \/ \E t \in Task : Claim(w, t))

FairSpec == Spec /\ Fairness

-----------------------------------------------------------------------------
\* The limit columns consumers are shown belong to the core rows they are shown:
\* the release was checked against the current core release, and the table holds
\* its values, whatever order cores and limits are planned and published in.
LimitOfShownCore ==
    limitRelease # None =>
        /\ coreRelease # None
        /\ row[limitRelease] = [status |-> "READY", on |-> coreRelease]
        /\ columns = limitRelease

\* A successor is never refused for its lineage: its row names the core task it
\* was made for until it publishes.
LineageHolds ==
    \A t \in LimitTask : status[t] \in Active => ~StaleLineage(t)

\* Limits and cores of a day fit, in whatever order they are published.
LimitsOfCores == TypeOK /\ LimitOfShownCore /\ LineageHolds

\* A core publication that finds no limit release leaves one limit task to be
\* executed, and if none was planned for it, the one made from the freshest data of
\* those it cancels.
CarriedOn ==
    coreRelease' # coreRelease /\ limitRelease = None =>
        /\ Cardinality({t \in LimitTask : status'[t] \in Mutable}) <= 1
        /\ PlannedFor(coreRelease') = {} =>
             \A t \in LimitTask : status[t] \in Mutable =>
                 \E u \in LimitTask : status'[u] \in Mutable /\ Sealed[u[1]] >= Sealed[t[1]]

FreshestCarriesOn == [][CarriedOn]_vars

\* docs/02 section 5: a task whose required dependencies are all there enters the
\* queue. A limit task that was blocked because no core was released does not stay
\* so once one is.
LimitNotForgotten ==
    \A b \in LimitBatch :
        b \in planned /\ coreRelease # None /\ row[Standard(b)].status = "MISSING" =>
            status[Standard(b)] # "BLOCKED"

\* A limit release that a new core release withdrew is made again, however many
\* core tasks follow each other and refuse it, if no processor fails and no command
\* is given.
Withdrawn == limitRelease = None /\ \E t \in LimitTask : status[t] = "SUCCESS"
Disturbed == faults < MaxFaults \/ commands < MaxCommands
WithdrawnLimitReturns == Withdrawn ~> limitRelease # None \/ Disturbed
=============================================================================
