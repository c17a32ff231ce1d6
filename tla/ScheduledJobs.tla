---------------------------- MODULE ScheduledJobs ----------------------------
(***************************************************************************)
(* The scheduler's job runs: timers, catch-up and manual requests execute  *)
(* the same functions in the threads of one pool. A run takes the advisory *)
(* lock of its job on a connection of its own, opens its record, executes  *)
(* the job, closes the record and gives the lock back; each of these is a  *)
(* transaction, and the process, the lock's connection or the closing      *)
(* transaction may fail between two of them.                               *)
(***************************************************************************)
EXTENDS Naturals, FiniteSets, Sequences

CONSTANTS
    Job,            \* the job ids of the catalog
    ManualAllowed,  \* the jobs an administrator may request
    Switched,       \* bound: the jobs that are enabled and disabled
    Thread,         \* the threads of the pool (scheduler_max_workers, at least two)
    Record,         \* primary keys of scheduled_job_execution
    None,
    MaxFaults       \* bound: crashes, lost connections, failed transactions

ASSUME ScheduledJobsAssumption ==
    /\ ManualAllowed \subseteq Job /\ Switched \subseteq Job
    /\ IsFiniteSet(Thread) /\ Cardinality(Thread) >= 2
    /\ None \notin Job \cup Thread \cup Record
    /\ MaxFaults \in Nat

VARIABLES
    records,    \* the rows of scheduled_job_execution in order of creation
    enabled,    \* [Job -> scheduled_job_control.enabled]
    holder,     \* [Job -> the thread whose connection holds the advisory lock]
    thread,     \* [Thread -> what it is doing]
    process,    \* the scheduler process
    faults,     \* faults still to come
    lost        \* history: the jobs whose lock was lost under a run

vars == <<records, enabled, holder, thread, process, faults, lost>>

Statuses == {"PENDING", "RUNNING", "SUCCESS", "FAILED"}
Rows == [id : Record, job : Job, status : Statuses]
Candidates == Seq([id : Record, job : Job])
Phases == {"idle", "locking", "opening", "running", "unlocking"}
ThreadStates == [phase : Phases, job : Job \cup {None}, id : Record \cup {None},
                 manual : BOOLEAN, todo : Candidates, ran : BOOLEAN]

Idle == [phase |-> "idle", job |-> None, id |-> None, manual |-> FALSE,
         todo |-> <<>>, ran |-> FALSE]

TypeOK ==
    /\ records \in Seq(Rows)
    /\ \A i, k \in DOMAIN records : records[i].id = records[k].id => i = k
    /\ enabled \in [Job -> BOOLEAN]
    /\ holder \in [Job -> Thread \cup {None}]
    /\ thread \in [Thread -> ThreadStates]
    /\ process \in {"up", "down"}
    /\ faults \in 0 .. MaxFaults
    /\ lost \subseteq Job

Init ==
    /\ records = <<>>
    /\ enabled = [j \in Job |-> TRUE]
    /\ holder = [j \in Job |-> None]
    /\ thread = [w \in Thread |-> Idle]
    /\ process = "up"
    /\ faults = MaxFaults
    /\ lost = {}

-----------------------------------------------------------------------------
(* The table.                                                              *)

Position(id) == CHOOSE i \in DOMAIN records : records[i].id = id
Exists(id) == \E i \in DOMAIN records : records[i].id = id
Status(id) == records[Position(id)].status

Names(state, id) == state.id = id \/ \E i \in DOMAIN state.todo : state.todo[i].id = id

\* uuid4 never repeats: a key that no row and no thread names stands for a new one.
Unused(id) == ~Exists(id) /\ \A w \in Thread : ~Names(thread[w], id)

New == CHOOSE id \in Record : Unused(id)

\* The rows at the given positions, in the order of the table. (SelectSeq by position:
\* the provers do not look into SelectSeq.)
Nth(positions, n) ==
    CHOOSE i \in positions : Cardinality({k \in positions : k <= i}) = n
RowsAt(rows, positions) ==
    [n \in 1 .. Cardinality(positions) |-> rows[Nth(positions, n)]]

\* What is kept of the table: closed rows are only deleted by cleanup_scheduled_job_executions,
\* weeks later, but no run reads them once nobody holds their key any more, so they are
\* left out from then on.
Kept(rows) ==
    RowsAt(rows, {i \in DOMAIN rows : \/ rows[i].status \in {"PENDING", "RUNNING"}
                                     \/ \E w \in Thread : Names(thread'[w], rows[i].id)})

\* Variant: no treatment of the rows an earlier run left RUNNING.
NothingInterrupted(rows, jobs) == rows

\* _mark_interrupted_execution over the RUNNING rows of the given jobs.
Interrupted(rows, jobs) ==
    [i \in DOMAIN rows |->
        IF rows[i].job \in jobs /\ rows[i].status = "RUNNING"
        THEN [rows[i] EXCEPT !.status = "FAILED"] ELSE rows[i]]

\* _finish_execution: by primary key, whatever the row's status is.
Finished(rows, id, status) ==
    [i \in DOMAIN rows |->
        IF rows[i].id = id THEN [rows[i] EXCEPT !.status = status] ELSE rows[i]]

-----------------------------------------------------------------------------
(* The administrator, from the API process.                                *)

Requestable(j) ==
    j \in ManualAllowed /\ \A i \in DOMAIN records :
                              records[i].job = j => records[i].status \notin {"PENDING", "RUNNING"}

\* request_scheduled_job_run, under its transaction lock on the job.
Request(j) ==
    /\ Requestable(j)
    /\ records' = Append(records, [id |-> New, job |-> j, status |-> "PENDING"])
    /\ UNCHANGED <<enabled, holder, thread, process, faults, lost>>

\* set_scheduled_job_enabled.
SetEnabled(j, on) ==
    /\ enabled[j] # on
    /\ enabled' = [enabled EXCEPT ![j] = on]
    /\ UNCHANGED <<records, holder, thread, process, faults, lost>>

-----------------------------------------------------------------------------
(* The threads.                                                            *)

Step(w, state) == thread' = [thread EXCEPT ![w] = state]

\* A dispatcher goes on with its next candidate, any other thread is free again.
NextCandidate(w) ==
    LET todo == thread[w].todo
    IN  IF todo = <<>> THEN Idle
        ELSE [phase |-> "locking", job |-> Head(todo).job, id |-> Head(todo).id,
              manual |-> TRUE, todo |-> Tail(todo), ran |-> FALSE]

\* A timer or the catch-up of the startup: max_instances is one for every job, and
\* a disabled job ends there.
Fire(w, j) ==
    /\ process = "up"
    /\ thread[w] = Idle
    /\ enabled[j]
    /\ \A v \in Thread : thread[v].job = j => thread[v].manual
    /\ Step(w, [Idle EXCEPT !.phase = "locking", !.job = j])
    /\ UNCHANGED <<records, enabled, holder, process, faults, lost>>

Dispatchers == {w \in Thread : thread[w].manual}

\* dispatch_manual_scheduled_job: the PENDING rows in order of creation; at most
\* scheduler_max_workers - 1 instances.
Dispatch(w) ==
    /\ process = "up"
    /\ thread[w] = Idle
    /\ Cardinality(Dispatchers) < Cardinality(Thread) - 1
    /\ LET pending == RowsAt(records, {i \in DOMAIN records : records[i].status = "PENDING"})
           todo == [i \in DOMAIN pending |-> [id |-> pending[i].id, job |-> pending[i].job]]
       IN  /\ todo # <<>>
           /\ Step(w, [phase |-> "locking", job |-> Head(todo).job, id |-> Head(todo).id,
                       manual |-> TRUE, todo |-> Tail(todo), ran |-> FALSE])
    /\ UNCHANGED <<records, enabled, holder, process, faults, lost>>

\* Variant: the lock is not tried.
LockUntried(w) ==
    /\ thread[w].phase = "locking"
    /\ holder' = [holder EXCEPT ![thread[w].job] = w]
    /\ Step(w, [thread[w] EXCEPT !.phase = "opening"])
    /\ UNCHANGED <<records, enabled, process, faults, lost>>

\* pg_try_advisory_lock on the job.
Lock(w) ==
    /\ thread[w].phase = "locking"
    /\ holder[thread[w].job] = None
    /\ holder' = [holder EXCEPT ![thread[w].job] = w]
    /\ Step(w, [thread[w] EXCEPT !.phase = "opening"])
    /\ UNCHANGED <<records, enabled, process, faults, lost>>

LockRefused(w) ==
    /\ thread[w].phase = "locking"
    /\ holder[thread[w].job] # None
    /\ Step(w, NextCandidate(w))
    /\ records' = Kept(records)
    /\ UNCHANGED <<enabled, holder, process, faults, lost>>

\* Variant: a request is started whatever became of it since it was read.
StartableAlways(id) == Exists(id)

\* The status check on the request's row, in the transaction that starts it.
Startable(id) == Exists(id) /\ Status(id) = "PENDING"

\* The opening transaction: rows left RUNNING by an earlier run are closed, then the
\* run's own row is created or leaves PENDING. A request that is no longer PENDING
\* only gives the lock back. (A request's row cannot vanish: history keeps it.)
Open(w) ==
    /\ thread[w].phase = "opening"
    /\ LET j == thread[w].job
           id == thread[w].id
           rows == Interrupted(records, {j})
       IN  \/ /\ id = None
              /\ Step(w, [thread[w] EXCEPT !.phase = "running", !.id = New])
              /\ records' = Append(Kept(rows), [id |-> New, job |-> j, status |-> "RUNNING"])
           \/ /\ id # None
              /\ Startable(id)
              /\ Step(w, [thread[w] EXCEPT !.phase = "running"])
              /\ records' = Kept(Finished(rows, id, "RUNNING"))
           \/ /\ id # None
              /\ ~Startable(id)
              /\ Step(w, [thread[w] EXCEPT !.phase = "unlocking"])
              /\ records' = Kept(rows)
    /\ UNCHANGED <<enabled, holder, process, faults, lost>>

\* The job's function returns or raises, and _finish_execution records it.
Finish(w, outcome) ==
    /\ thread[w].phase = "running"
    /\ Step(w, [thread[w] EXCEPT !.phase = "unlocking", !.ran = TRUE])
    /\ records' = Kept(Finished(records, thread[w].id, outcome))
    /\ UNCHANGED <<enabled, holder, process, faults, lost>>

\* The opening or the closing transaction fails: its exception goes through the
\* finally clause, a record stays as it was.
TransactionFails(w) ==
    /\ faults > 0
    /\ thread[w].phase \in {"opening", "running"}
    /\ Step(w, [thread[w] EXCEPT !.phase = "unlocking", !.ran = TRUE])
    /\ records' = Kept(records)
    /\ faults' = faults - 1
    /\ UNCHANGED <<enabled, holder, process, lost>>

\* Variant: the lock stays with a connection that goes back to a pool.
UnlockNever(w) ==
    /\ thread[w].phase = "unlocking"
    /\ Step(w, IF ~thread[w].ran
               THEN NextCandidate(w) ELSE Idle)
    /\ records' = Kept(records)
    /\ UNCHANGED <<enabled, holder, process, faults, lost>>

\* The finally clause. A run that took place, or raised, ends its dispatcher; a request
\* that was not PENDING any more lets it go on. The unlock of a lost connection raises.
Unlock(w) ==
    /\ thread[w].phase = "unlocking"
    /\ holder' = [holder EXCEPT ![thread[w].job] = IF @ = w THEN None ELSE @]
    /\ Step(w, IF ~thread[w].ran /\ holder[thread[w].job] = w
               THEN NextCandidate(w) ELSE Idle)
    /\ records' = Kept(records)
    /\ UNCHANGED <<enabled, process, faults, lost>>

-----------------------------------------------------------------------------
(* Faults.                                                                 *)

\* The server closes the lock's connection, which is idle while the job executes.
LoseConnection(j) ==
    /\ faults > 0
    /\ holder[j] # None
    /\ holder' = [holder EXCEPT ![j] = None]
    /\ lost' = lost \cup {j}
    /\ faults' = faults - 1
    /\ UNCHANGED <<records, enabled, thread, process>>

\* The process dies: its connections and so its locks are gone, the rows stay.
Crash ==
    /\ faults > 0
    /\ process = "up"
    /\ thread' = [w \in Thread |-> Idle]
    /\ holder' = [j \in Job |-> None]
    /\ records' = Kept(records)
    /\ process' = "down"
    /\ faults' = faults - 1
    /\ UNCHANGED <<enabled, lost>>

\* Startup, holding the singleton lock: recover_interrupted_scheduled_job_executions.
Start ==
    /\ process = "down"
    /\ UNCHANGED thread
    /\ records' = Kept(Interrupted(records, Job))
    /\ process' = "up"
    /\ UNCHANGED <<enabled, holder, faults, lost>>

-----------------------------------------------------------------------------
ThreadStep(w) ==
    \/ \E j \in Job : Fire(w, j)
    \/ Dispatch(w)
    \/ Lock(w)
    \/ LockRefused(w)
    \/ Open(w)
    \/ \E outcome \in {"SUCCESS", "FAILED"} : Finish(w, outcome)
    \/ Unlock(w)

Next ==
    \/ \E w \in Thread : ThreadStep(w) \/ TransactionFails(w)
    \/ \E j \in Job : Request(j)
    \/ \E j \in Switched, on \in BOOLEAN : SetEnabled(j, on)
    \/ \E j \in Job : LoseConnection(j)
    \/ Crash
    \/ Start

Spec == Init /\ [][Next]_vars

Has(j, status) == \E i \in DOMAIN records : records[i].job = j /\ records[i].status = status

\* A thread goes on with what it has begun, jobs end. Timers and the dispatcher's interval
\* (seconds) are independent of how long jobs hold their locks, so a timer that fires again
\* and again, or a dispatcher that looks again and again, also does so while the lock of
\* the job is free, and gets it.
Fairness ==
    /\ WF_vars(Start)
    /\ \A w \in Thread :
         WF_vars(\/ Lock(w) \/ LockRefused(w) \/ Open(w)
                 \/ Unlock(w)
                 \/ \E outcome \in {"SUCCESS", "FAILED"} : Finish(w, outcome))
    /\ \A j \in Job :
         /\ SF_vars(holder[j] = None /\ \E w \in Thread : Fire(w, j))
         /\ SF_vars(holder[j] = None /\ Has(j, "PENDING") /\ \E w \in Thread : Dispatch(w))
         /\ SF_vars(\E w \in Thread : Lock(w) /\ thread[w].job = j /\ ~thread[w].manual)
         /\ SF_vars(\E w \in Thread : Lock(w) /\ thread[w].job = j /\ thread[w].manual)

FairSpec == Spec /\ Fairness

-----------------------------------------------------------------------------
(* Properties.                                                             *)

Active(w) == thread[w].phase \in {"opening", "running"}

\* As long as no lock was lost, a job executes in one thread at a time, however timers,
\* the catch-up and several dispatchers compete for it.
OneRunAtATime ==
    \A v, w \in Thread :
        v # w /\ Active(v) /\ Active(w) /\ thread[v].job = thread[w].job => thread[v].job \in lost

\* A job has one RUNNING row and one PENDING row at most: no transaction of these runs
\* into the unique partial indexes of the table, however runs were interrupted.
OneRowPerState ==
    \A i, k \in DOMAIN records :
        records[i].job = records[k].job /\ records[i].status = records[k].status =>
            i = k \/ records[i].status \in {"SUCCESS", "FAILED"}

\* A RUNNING row whose execution is gone (its closing failed, its process died) does not
\* survive the next execution of the job.
OrphansCollected ==
    \A i \in DOMAIN records, w \in Thread :
        /\ records[i].status = "RUNNING"
        /\ thread[w].phase = "running"
        /\ thread[w].job = records[i].job
        /\ records[i].job \notin lost
        => thread[w].id = records[i].id

\* The rows of a job tell the truth about its runs.
RowsTellRuns == TypeOK /\ OneRunAtATime /\ OneRowPerState /\ OrphansCollected

\* A verdict is final: a request is executed once, whichever dispatchers read it, and no
\* run changes the record of another one. (Unless the lock was lost: then a live
\* execution is taken for dead, and it overwrites the verdict when it ends.)
VerdictsFinal ==
    [][\A i \in DOMAIN records :
        records[i].status \in {"SUCCESS", "FAILED"} /\ records[i].job \notin lost =>
            \A k \in DOMAIN records' : records'[k].id = records[i].id => records'[k] = records[i]]_vars

\* Every request is taken up, in whatever order locks are held and jobs fail.
RequestsServed == \A j \in ManualAllowed : Has(j, "PENDING") ~> ~Has(j, "PENDING")

\* A record does not stay RUNNING, without any restart, if the job stays enabled.
RunsEnd == \A j \in Job : Has(j, "RUNNING") ~> ~Has(j, "RUNNING") \/ ~enabled[j]
=============================================================================
