--------------------------- MODULE RepairCommands ---------------------------
(***************************************************************************)
(* The commands that collect failed tasks again, beside the planner, the   *)
(* executor, the audit of the files, and one another. A command never      *)
(* touches the failed task: it makes a frozen repair batch with a new task *)
(* of the same logical scope (provider, API, scope key). Whether a failure *)
(* still needs one is decided from the times at which tasks finished and   *)
(* batches were scheduled. A command is recorded under its idempotency key *)
(* in the transaction of its effect.                                       *)
(*                                                                         *)
(* A batch is its slot (uq_collection_batch_slot), here with the key of    *)
(* the command that made it instead of its type.                           *)
(***************************************************************************)
EXTENDS Naturals, Sequences, FiniteSets

CONSTANTS
    MaxRequests,    \* bound: HTTP requests in flight
    MaxKeys,        \* bound: idempotency keys
    Scopes,         \* logical tasks
    MaxTasks,       \* bound: rows of collection_task
    MaxFaults,      \* bound: lost files, broken connections
    Audits,         \* bound: audits after a file was lost
    MaxPlans,       \* bound: plans
    Slots,          \* times at which planned batches are scheduled
    Days,           \* business dates
    None

VARIABLES
    clock,      \* the last time that was given out
    tasks,      \* collection_task
    requests,   \* where each request is
    records,    \* operation_command
    lock,       \* holder of the advisory lock of the retry commands
    faults,     \* faults still to come
    audits,     \* audits still to come
    plans       \* plans still to come

Requests == 1 .. MaxRequests
Keys == 1 .. MaxKeys

vars == <<clock, tasks, requests, records, lock, faults, audits, plans>>

\* The answer that names no batch.
Refused == {}

NoRequest == [phase |-> "idle", key |-> 0, kind |-> None, now |-> 0, chosen |-> {},
              answer |-> None]

Planned(time, day) == [scheduled |-> time, date |-> day, key |-> None]

Task(scope, batch) ==
    [scope |-> scope, batch |-> batch, status |-> "PENDING", finished |-> 0,
     lost |-> FALSE]

TypeOK ==
    /\ clock \in Nat
    /\ \A i \in DOMAIN tasks :
         /\ tasks[i].scope \in Scopes
         /\ tasks[i].batch.date \in Days
         /\ tasks[i].batch.key \in Keys \cup {None}
         /\ tasks[i].status \in {"PENDING", "SUCCESS", "FAILED"}
         /\ tasks[i].finished <= clock
    /\ \A r \in Requests : requests[r].phase \in {"idle", "inserting", "locking", "selecting",
                                                  "creating", "done"}
    /\ lock \in Requests \cup {None}
    /\ faults \in 0 .. MaxFaults

Init ==
    /\ clock = 0
    /\ tasks = <<>>
    /\ requests = [r \in Requests |-> NoRequest]
    /\ records = [k \in Keys |-> None]
    /\ lock = None
    /\ faults = MaxFaults
    /\ audits = Audits
    /\ plans = MaxPlans

Scheduled(i) == tasks[i].batch.scheduled
SameScope(i, j) == tasks[i].scope = tasks[j].scope

-----------------------------------------------------------------------------
(* The planner, the executor and the audit.                                *)

\* The members of a set, each once.
Listed(S) ==
    CHOOSE s \in [1 .. Cardinality(S) -> S] : \A x \in S : \E n \in DOMAIN s : s[n] = x

\* A new batch, or more tasks of one that is not frozen: a stage of the planner, or a command
\* that collects anew (create_backfill, create_repair). The time is a fixed one of the day,
\* whenever the stage is run, or that at which the command arrived.
Plan(scopes, day, time) ==
    /\ plans > 0
    /\ Len(tasks) + Cardinality(scopes) <= MaxTasks
    /\ \A i \in DOMAIN tasks : tasks[i].batch = Planned(time, day) => tasks[i].scope \notin scopes
    /\ plans' = plans - 1
    /\ clock' = clock + 1
    /\ tasks' = tasks \o [n \in 1 .. Cardinality(scopes) |-> Task(Listed(scopes)[n], Planned(time, day))]
    /\ UNCHANGED <<requests, records, lock, faults, audits>>

Finish(i, status) ==
    /\ tasks[i].status = "PENDING"
    /\ clock' = clock + 1
    /\ tasks' = [tasks EXCEPT ![i].status = status, ![i].finished = clock + 1]
    /\ UNCHANGED <<requests, records, lock, faults, audits, plans>>

LoseFile(i) ==
    /\ faults > 0
    /\ tasks[i].status = "SUCCESS"
    /\ ~tasks[i].lost
    /\ tasks' = [tasks EXCEPT ![i].lost = TRUE]
    /\ faults' = faults - 1
    /\ UNCHANGED <<clock, requests, records, lock, audits, plans>>

\* mark_asset_missing, every five minutes for every row whose file is not there.
Audit(i) ==
    /\ audits > 0
    /\ tasks[i].lost
    /\ audits' = audits - 1
    /\ clock' = clock + 1
    /\ tasks' = [tasks EXCEPT ![i].status = "FAILED", ![i].finished = clock + 1]
    /\ UNCHANGED <<requests, records, lock, faults, plans>>

-----------------------------------------------------------------------------
(* What still needs a repair.                                              *)

\* Variant: an earlier batch cannot be recovered by what a later one collected before.
RecoveredByBatch(i) ==
    \E j \in DOMAIN tasks :
        SameScope(i, j) /\ tasks[j].status = "SUCCESS" /\ Scheduled(j) > Scheduled(i)

\* A success that finished after the failure did.
Recovered(i) ==
    \E j \in DOMAIN tasks :
        SameScope(i, j) /\ tasks[j].status = "SUCCESS" /\ tasks[j].finished > tasks[i].finished

\* A task of a batch scheduled later that is not settled.
Active(i) ==
    \E j \in DOMAIN tasks :
        SameScope(i, j) /\ tasks[j].status = "PENDING" /\ Scheduled(j) > Scheduled(i)

Repairable(i) == tasks[i].status = "FAILED" /\ ~Recovered(i) /\ ~Active(i)

\* The order of the rows of retry_all: newest batch first, then the latest failure.
Before(i, j) ==
    Scheduled(i) > Scheduled(j) \/ (Scheduled(i) = Scheduled(j) /\ tasks[i].finished > tasks[j].finished)

\* The tasks a command takes.
Selection(kind) ==
    LET repairable == {i \in DOMAIN tasks : Repairable(i)}
    IN  CASE kind[1] = "task" -> repairable \cap {kind[2]}
          [] kind[1] = "batch" -> {i \in repairable : tasks[i].batch = kind[2]}
          [] kind[1] = "all" -> {i \in repairable :
                                    ~\E j \in repairable : SameScope(i, j) /\ Before(j, i)}

-----------------------------------------------------------------------------
(* _execute.                                                               *)

Failed == {i \in DOMAIN tasks : tasks[i].status = "FAILED"}
Kinds == {<<"all">>} \cup ({"task"} \X Failed) \cup ({"batch"} \X {tasks[i].batch : i \in Failed})

\* The time of a command is that of its arrival, not that of its turn. (Commands come once
\* something has failed; requests and keys are taken in order.)
Begin(r) ==
    /\ Failed # {}
    /\ requests[r].phase = "idle"
    /\ \A q \in Requests : q < r => requests[q].phase # "idle"
    /\ \E key \in {k \in Keys : k = 1 \/ \E q \in Requests : requests[q].key = k - 1}, kind \in Kinds :
         requests' = [requests EXCEPT ![r] = [NoRequest EXCEPT !.phase = "inserting", !.key = key,
                                                               !.kind = kind, !.now = clock + 1]]
    /\ clock' = clock + 1
    /\ UNCHANGED <<tasks, records, lock, faults, audits, plans>>

Answer(r, answer) ==
    requests' = [requests EXCEPT ![r] = [NoRequest EXCEPT !.phase = "done", !.key = requests[r].key,
                                                          !.answer = answer]]

\* The record of the key: inserted, or, if another transaction inserted it, waited for. A
\* key that is accepted is answered from the record, or refused for another command.
Insert(r) ==
    LET record == records[requests[r].key]
    IN  /\ requests[r].phase = "inserting"
        /\ \/ /\ record = None
              /\ records' = [records EXCEPT ![requests[r].key] =
                                [kind |-> requests[r].kind, accepted |-> FALSE, batches |-> Refused]]
              /\ requests' = [requests EXCEPT ![r].phase = "locking"]
           \/ /\ record # None
              /\ record.accepted
              /\ Answer(r, IF record.kind = requests[r].kind THEN record.batches ELSE Refused)
              /\ UNCHANGED records
        /\ UNCHANGED <<clock, tasks, lock, faults, audits, plans>>

\* Variant: nobody waits.
LockUnasked(r) ==
    /\ requests[r].phase = "locking"
    /\ requests' = [requests EXCEPT ![r].phase = "selecting"]
    /\ UNCHANGED <<clock, tasks, records, lock, faults, audits, plans>>

Lock(r) ==
    /\ requests[r].phase = "locking"
    /\ lock = None
    /\ lock' = r
    /\ requests' = [requests EXCEPT ![r].phase = "selecting"]
    /\ UNCHANGED <<clock, tasks, records, faults, audits, plans>>

\* The end of a transaction: its lock, and its record if it is rolled back.
Release(r) == lock' = IF lock = r THEN None ELSE lock
Rollback(r) ==
    /\ Release(r)
    /\ records' = IF requests[r].phase = "inserting" THEN records
                  ELSE [records EXCEPT ![requests[r].key] = None]

Select(r) ==
    /\ requests[r].phase = "selecting"
    /\ IF Selection(requests[r].kind) = {}
       THEN Rollback(r) /\ Answer(r, Refused)
       ELSE /\ requests' = [requests EXCEPT ![r].phase = "creating",
                                            ![r].chosen = Selection(requests[r].kind)]
            /\ UNCHANGED <<records, lock>>
    /\ UNCHANGED <<clock, tasks, faults, audits, plans>>

\* A batch for each business date of the tasks, with a task more for each of them; the answer
\* and the commit. (The rows are FAILED and locked: only the audit could write them, FAILED
\* again.)
Create(r) ==
    LET chosen == requests[r].chosen
        BatchFor(i) == [scheduled |-> requests[r].now, date |-> tasks[i].batch.date,
                        key |-> requests[r].key]
        made == {BatchFor(i) : i \in chosen}
    IN  /\ requests[r].phase = "creating"
        /\ Len(tasks) + Cardinality(chosen) <= MaxTasks
        /\ tasks' = tasks \o [n \in 1 .. Cardinality(chosen) |->
                                Task(tasks[Listed(chosen)[n]].scope, BatchFor(Listed(chosen)[n]))]
        /\ records' = [records EXCEPT ![requests[r].key] =
                          [kind |-> requests[r].kind, accepted |-> TRUE, batches |-> made]]
        /\ Answer(r, made)
        /\ Release(r)
        /\ UNCHANGED <<clock, faults, audits, plans>>

\* The connection breaks, before the commit or before the answer arrives; the client may
\* ask again with the same key.
Break(r) ==
    /\ faults > 0
    /\ requests[r].phase # "idle"
    /\ faults' = faults - 1
    /\ IF requests[r].phase = "done" THEN UNCHANGED <<records, lock>> ELSE Rollback(r)
    /\ requests' = [requests EXCEPT ![r] = NoRequest]
    /\ UNCHANGED <<clock, tasks, audits, plans>>

Next ==
    \/ \E scopes \in SUBSET Scopes \ {{}}, day \in Days, time \in Slots :
         Plan(scopes, day, time)
    \/ \E i \in DOMAIN tasks :
         Finish(i, "SUCCESS") \/ Finish(i, "FAILED") \/ LoseFile(i) \/ Audit(i)
    \/ \E r \in Requests :
         Begin(r) \/ Insert(r) \/ Lock(r) \/ Select(r) \/ Create(r) \/ Break(r)

Spec == Init /\ [][Next]_vars

-----------------------------------------------------------------------------
(* Properties.                                                             *)

UnderRepair(i) == tasks[i].status = "PENDING" /\ tasks[i].batch.key # None

\* docs/02 section 4: the lock and the check behind it make sure that commands which overlap
\* make one repair of a logical task.
OneRepairAtATime ==
    \A i, j \in DOMAIN tasks : SameScope(i, j) /\ UnderRepair(i) /\ UnderRepair(j) => i = j

\* What the check does give: while a repair of a logical task is under way, another one is
\* made only of a failure that was scheduled no earlier. That is one that was planned ahead of
\* its time, or the repair of a command that overtook the first one on its way to the lock.
OneRepairUnlessOvertaken ==
    \A i, j \in DOMAIN tasks :
        i < j /\ SameScope(i, j) /\ UnderRepair(i) /\ UnderRepair(j) =>
            \E k \in DOMAIN tasks :
                SameScope(k, i) /\ tasks[k].status = "FAILED" /\ Scheduled(k) >= Scheduled(i)

BatchesOf(key) == {tasks[i].batch : i \in {j \in DOMAIN tasks : tasks[j].batch.key = key}}

\* A key has one effect, at one time, however often and by whomever it is sent, and whoever
\* is told of batches is told of all those of its key and of no other.
OneEffectPerKey ==
    /\ \A i, j \in DOMAIN tasks :
         tasks[i].batch.key # None /\ tasks[i].batch.key = tasks[j].batch.key =>
            Scheduled(i) = Scheduled(j) /\ (SameScope(i, j) => i = j)
    /\ \A r \in Requests :
         requests[r].answer \notin {None, Refused} => requests[r].answer = BatchesOf(requests[r].key)

\* A command for everything leaves no logical task out whose latest result is a failure and
\* that nothing else is collecting.
NoneLeftOut ==
    \A r \in Requests :
        requests[r].kind = <<"all">> /\ requests[r].phase = "selecting"
        /\ requests'[r].phase \in {"creating", "done"} =>
            \A i \in DOMAIN tasks :
                /\ tasks[i].status = "FAILED"
                /\ \A j \in DOMAIN tasks :
                     SameScope(i, j) => tasks[j].status # "PENDING"
                                        /\ tasks[j].finished <= tasks[i].finished
                => \E j \in requests'[r].chosen : SameScope(i, j)
=============================================================================
