----------------------------- MODULE RetryPolicy -----------------------------
(***************************************************************************)
(* When a collection task tries again: the life of one task against the    *)
(* clock, through the rules of the executor (what an empty answer means,   *)
(* when the next attempt is, whether there is one) and the last word of    *)
(* fail_task. Leases, threads and crashes are in module Collection.        *)
(*                                                                         *)
(* Time is counted in ticks, DayLength of them a day. A thread reads the   *)
(* clock when it starts, for the verdict on an empty answer, and again     *)
(* when it records a failure.                                              *)
(***************************************************************************)
EXTENDS Integers

CONSTANTS
    DayLength,      \* ticks in a day
    Today,          \* the day the clock starts in
    Retentions,     \* numbers of days a provider keeps (historical_retention_months)
    InitialWait,    \* initial_wait_seconds of the ApiSpec
    MaxWait,        \* max_wait_seconds
    MaxAttempts,    \* max_attempts
    Horizon,        \* bound: the last tick
    None            \* a NULL column, a policy without the setting

ASSUME RetryPolicyAssumption ==
    /\ DayLength \in Nat \ {0} /\ Today \in Nat /\ Retentions \subseteq Nat
    /\ InitialWait \in Nat /\ MaxWait \in Nat /\ MaxAttempts \in Nat \ {0}
    /\ None \notin Int

Historical == {"BACKFILL", "REPAIR"}
Policies == {"ALLOWED", "RETRY_UNTIL_CUTOFF", "FORBIDDEN", "UNSUPPORTED"}
Answers == {"EMPTY_RESULT", "TRANSIENT", "FATAL"}

VARIABLES
    now,        \* the clock
    task,       \* what the row and its ApiSpec say: type, day, policy, cutoff, kept
    status,     \* CollectionTaskStatus
    attempts,   \* attempt_count
    retryAt,    \* next_retry_at
    started,    \* the clock the running thread read first
    finishedAt, \* finished_at
    reason      \* error_code; "gap" for the warning of an accepted gap

vars == <<now, task, status, attempts, retryAt, started, finishedAt, reason>>

DayOf(time) == time \div DayLength

\* Any day up to the one the clock starts in; "kept" is the number of days the
\* provider keeps, "cutoff" the tick of the day.
Tasks ==
    [type : {"DAILY"} \cup Historical, day : (0 .. Today) \cup {None}, policy : Policies,
     cutoff : (0 .. DayLength - 1) \cup {None}, kept : Retentions \cup {None}]

Init ==
    /\ now \in Today * DayLength .. (Today + 1) * DayLength - 1
    /\ task \in Tasks
    /\ status = "PENDING"
    /\ attempts = 0
    /\ retryAt = None
    /\ started = None
    /\ finishedAt = None
    /\ reason = "none"

TypeOK ==
    /\ now \in Nat
    /\ task \in Tasks
    /\ status \in {"PENDING", "RUNNING", "RETRY_WAIT", "SUCCESS", "EMPTY_VALID", "SKIPPED", "FAILED"}
    /\ attempts \in 0 .. MaxAttempts
    /\ retryAt \in Int \cup {None}
    /\ started \in Nat \cup {None}
    /\ finishedAt \in Nat \cup {None}
    /\ reason \in {"none", "gap", "UNSUPPORTED"} \cup Answers

-----------------------------------------------------------------------------
(* The rules.                                                              *)

\* _cutoff_at: of the business day, whatever day it is now.
CutoffAt ==
    IF task.cutoff = None \/ task.day = None THEN None
    ELSE task.day * DayLength + task.cutoff

PastCutoff(candidate) == CutoffAt # None /\ candidate > CutoffAt

OutsideRetention(today) ==
    /\ task.kept # None
    /\ task.type \in Historical
    /\ task.day # None
    /\ task.day < today - task.kept

\* _exhausted_historical_backfill: only a day that is over is given up.
ExhaustedBackfill(today) ==
    /\ task.type \in Historical
    /\ task.day # None
    /\ task.day < today
    /\ attempts >= MaxAttempts

HistoricalGap ==
    /\ task.policy # "UNSUPPORTED"
    /\ OutsideRetention(DayOf(started)) \/ ExhaustedBackfill(DayOf(started))

Backoff ==
    LET wait == InitialWait * 2 ^ (attempts - 1)
    IN  IF wait <= MaxWait THEN wait ELSE MaxWait

\* The current day, before its cutoff, with no attempt left.
WaitsForCutoff ==
    /\ CutoffAt # None
    /\ task.day = DayOf(now)
    /\ now < CutoffAt
    /\ attempts >= MaxAttempts

\* Variant: a retry for historical tasks only before their own cutoff.
RetryBeforeCutoff ==
    IF WaitsForCutoff THEN CutoffAt
    ELSE IF attempts < MaxAttempts /\ ~PastCutoff(now + Backoff)
    THEN now + Backoff
    ELSE None

\* retry_at of _record_failure for a retryable error.
RetryTime ==
    IF WaitsForCutoff THEN CutoffAt
    ELSE IF attempts < MaxAttempts /\ (task.type \in Historical \/ ~PastCutoff(now + Backoff))
    THEN now + Backoff
    ELSE None

-----------------------------------------------------------------------------
Tick ==
    /\ now < Horizon
    /\ now' = now + 1
    /\ UNCHANGED <<task, status, attempts, retryAt, started, finishedAt, reason>>

\* claim_next: a PENDING row, or a RETRY_WAIT row that is due.
Claim ==
    /\ \/ status = "PENDING"
       \/ status = "RETRY_WAIT" /\ retryAt <= now
    /\ status' = "RUNNING"
    /\ attempts' = attempts + 1
    /\ started' = now
    /\ retryAt' = None
    /\ finishedAt' = None
    /\ reason' = "none"
    /\ UNCHANGED <<now, task>>

Settle(verdict, time, why) ==
    /\ status' = verdict
    /\ retryAt' = None
    /\ started' = None
    /\ finishedAt' = time
    /\ reason' = why
    /\ UNCHANGED <<now, task, attempts>>

\* complete_task with rows; beyond the retention the provider is not asked.
Rows ==
    /\ status = "RUNNING"
    /\ ~OutsideRetention(DayOf(started))
    /\ Settle("SUCCESS", now, "none")

\* fail_task has the last word: no retry without an attempt left.
RecordFailure(error, retryable) ==
    LET at == IF retryable THEN RetryTime ELSE None
    IN  IF at # None /\ attempts < MaxAttempts
        THEN /\ status' = "RETRY_WAIT"
             /\ retryAt' = at
             /\ started' = None
             /\ finishedAt' = None
             /\ reason' = error
             /\ UNCHANGED <<now, task, attempts>>
        ELSE Settle("FAILED", now, error)

\* _handle_empty: an allowed or unavoidable gap is a result, an unsupported
\* scope is skipped, anything else a failure.
Empty ==
    /\ status = "RUNNING"
    /\ IF task.policy = "ALLOWED" \/ HistoricalGap
       THEN Settle("EMPTY_VALID", started, IF HistoricalGap THEN "gap" ELSE "none")
       ELSE IF task.policy = "UNSUPPORTED"
       THEN Settle("SKIPPED", started, "UNSUPPORTED")
       ELSE RecordFailure("EMPTY_RESULT", task.policy = "RETRY_UNTIL_CUTOFF")

\* A retryable error (network, rate limit, asset write) or a fatal one
\* (permission, schema, quality).
Error(kind) ==
    /\ status = "RUNNING"
    /\ RecordFailure(kind, kind = "TRANSIENT")

Next ==
    \/ Tick
    \/ Claim
    \/ Rows
    \/ Empty
    \/ \E kind \in {"TRANSIENT", "FATAL"} : Error(kind)

Spec == Init /\ [][Next]_vars

-----------------------------------------------------------------------------
\* A retryable failure is final only when every attempt is used, or when the next one of a
\* daily task would be due after its cut-off. (It does not wait for the cut-off: see
\* CutoffRetryKept.) Where empty answers are not allowed, one becomes a result only as the
\* gap of a historical day that was over when the last attempt started, and only after all
\* attempts or when the provider no longer keeps the day.
NoAttemptGivenUp ==
    /\ /\ status = "FAILED"
       /\ \/ reason = "TRANSIENT"
          \/ reason = "EMPTY_RESULT" /\ task.policy = "RETRY_UNTIL_CUTOFF"
       => \/ attempts = MaxAttempts
          \/ task.type \notin Historical /\ PastCutoff(finishedAt + Backoff)
    /\ status = "EMPTY_VALID" /\ task.policy # "ALLOWED" =>
          /\ task.type \in Historical
          /\ task.day < DayOf(finishedAt)
          /\ attempts = MaxAttempts \/ OutsideRetention(DayOf(finishedAt))

\* No attempt of a daily task is due after the cut-off of its business day: what is missing
\* then is for a repair batch. (One that is due before may be claimed late: it is the last.)
DailyStopsAtCutoff ==
    status = "RETRY_WAIT" /\ task.type \notin Historical /\ CutoffAt # None => retryAt <= CutoffAt

\* An attempt that is left and would be in time is made; one that would be too late is not
\* planned.
AttemptsUsedInTime == TypeOK /\ NoAttemptGivenUp /\ DailyStopsAtCutoff

\* docs/03 section 3: a backfill of the current day keeps at least one retry at
\* the cutoff even when its regular attempts are used up, and never ends in
\* failure before the data can be there.
CutoffRetryKept ==
    /\ task.type = "BACKFILL"
    /\ task.policy = "RETRY_UNTIL_CUTOFF"
    /\ status = "FAILED"
    /\ reason = "EMPTY_RESULT"
    /\ CutoffAt # None
    => finishedAt >= CutoffAt
=============================================================================
