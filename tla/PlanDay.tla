------------------------------- MODULE PlanDay -------------------------------
(***************************************************************************)
(* One day of the planning jobs, and the check of the next morning. Four   *)
(* stages append their APIs to the daily batch and the last one freezes    *)
(* it; timers, requests of an administrator and the catch-up of a restart  *)
(* run them, in any order and more than once, while the trade calendar may *)
(* still be missing. From eight o'clock on the check reports a day that    *)
(* did not come out right, once. That a job has one run at a time is       *)
(* ScheduledJobs.                                                          *)
(***************************************************************************)
EXTENDS Catalog, Sequences

CONSTANTS
    Switched,       \* bound: the jobs that are enabled and disabled
    Workers,        \* threads of the pool
    MaxFaults       \* bound: crashes, failed messages, timers missed in a running process

VARIABLES
    clock,      \* index of the present instant in Instants
    due,        \* the jobs whose timer fires at this instant
    calendar,   \* the published calendar says of the day: "missing", "open" or "closed"
    batch,      \* the daily batch of the day
    runs,       \* [job -> phase of its run and status of its latest record of the day]
    enabled,    \* the jobs that are enabled
    catchup,    \* what a restart still has to run before the timers start
    up,         \* the scheduler process runs
    check,      \* the check: its run, its record of the morning, its messages
    faults      \* faults still to come

vars == <<clock, due, calendar, batch, runs, enabled, catchup, up, check, faults>>

Jobs == DOMAIN DailyStages
CheckJob == "check-previous-day-data-sync"

\* The timers of the day and the first and the last of the next morning's check.
Instants == <<At(0, 0), At(9, 25), At(16, 10), At(17, 30), At(19, 0), At(24, 0) + At(8, 0),
              At(24, 0) + At(8, 45)>>

Morning == Instants[clock] >= At(24, 0)
Timers(instant) == IF instant >= At(24, 0) THEN {CheckJob}
                   ELSE {j \in Jobs : DailyStages[j].at = instant}

NoRun == [phase |-> "idle", status |-> "NONE"]
NoBatch == [created |-> FALSE, apis |-> {}, frozen |-> FALSE, closed |-> FALSE, planned |-> FALSE]

RunStatuses == {"NONE", "RUNNING", "SUCCESS", "FAILED"}

TypeOK ==
    /\ clock \in DOMAIN Instants
    /\ due \subseteq Jobs \cup {CheckJob}
    /\ calendar \in {"missing", "open", "closed"}
    /\ batch \in [created : BOOLEAN, apis : SUBSET FinalApis, frozen : BOOLEAN,
                  closed : BOOLEAN, planned : BOOLEAN]
    /\ runs \in [Jobs -> [phase : {"idle", "planning", "appending", "failing", "done"},
                          status : RunStatuses]]
    /\ enabled \subseteq Jobs
    /\ catchup \subseteq Jobs \cup {CheckJob}
    /\ up \in BOOLEAN
    /\ check.phase \in {"idle", "reading", "sending", "silent", "sent", "failing"}
    /\ check.status \in RunStatuses
    /\ check.messages \in 0 .. MaxFaults + 1
    /\ check.passed \in BOOLEAN
    /\ faults \in 0 .. MaxFaults

Init ==
    /\ clock = 1
    /\ due = {}
    /\ calendar = "missing"
    /\ batch = NoBatch
    /\ runs = [j \in Jobs |-> NoRun]
    /\ enabled \in {Jobs, {}}
    /\ catchup = {}
    /\ up = TRUE
    /\ check = [phase |-> "idle", status |-> "NONE", messages |-> 0, passed |-> FALSE]
    /\ faults = MaxFaults

Running == up /\ catchup = {}
Idle == check.phase = "idle" /\ \A j \in Jobs : runs[j].phase = "idle"

-----------------------------------------------------------------------------
(* Time and the world.                                                     *)

\* The next instant; no run takes that long. A timer that has not fired is missed: the
\* process was down, or no thread was free for five minutes.
Tick ==
    /\ clock < Len(Instants)
    /\ Idle
    /\ up /\ due # {} => faults > 0
    /\ faults' = IF up /\ due # {} THEN faults - 1 ELSE faults
    /\ clock' = clock + 1
    /\ due' = Timers(Instants[clock + 1])
    /\ UNCHANGED <<calendar, batch, runs, enabled, catchup, up, check>>

\* The calendar of the year is published at some time.
PublishCalendar ==
    /\ calendar = "missing"
    /\ calendar' \in {"open", "closed"}
    /\ UNCHANGED <<clock, due, batch, runs, enabled, catchup, up, check, faults>>

\* close_ready_batches once the tasks are settled, and the processing plan after it.
Advance ==
    /\ \/ batch.frozen /\ ~batch.closed /\ batch' = [batch EXCEPT !.closed = TRUE]
       \/ batch.closed /\ ~batch.planned /\ batch' = [batch EXCEPT !.planned = TRUE]
    /\ UNCHANGED <<clock, due, calendar, runs, enabled, catchup, up, check, faults>>

SetEnabled(j) ==
    /\ ~Morning
    /\ j \in Switched
    /\ enabled' = IF j \in enabled THEN enabled \ {j} ELSE enabled \cup {j}
    /\ UNCHANGED <<clock, due, calendar, batch, runs, catchup, up, check, faults>>

-----------------------------------------------------------------------------
(* A run of a stage's job.                                                 *)

SetRun(j, phase, status) == runs' = [runs EXCEPT ![j] = [phase |-> phase, status |-> status]]

Begin(j) ==
    /\ runs[j].phase = "idle"
    /\ Cardinality({k \in Jobs : runs[k].phase # "idle"}) < Workers
    /\ SetRun(j, "planning", "RUNNING")

\* A timer. A disabled job ends there, without a record.
Fire(j) ==
    /\ Running
    /\ j \in due
    /\ due' = due \ {j}
    /\ IF j \in enabled THEN Begin(j) ELSE UNCHANGED runs
    /\ UNCHANGED <<clock, calendar, batch, enabled, catchup, up, check, faults>>

\* A request of an administrator, which does not ask whether the job is enabled. After
\* midnight it would plan the next day.
Request(j) ==
    /\ Running
    /\ ~Morning
    /\ Begin(j)
    /\ UNCHANGED <<clock, due, calendar, batch, enabled, catchup, up, check, faults>>

\* The calendar decides: no row is an error, a closed day is skipped, and on an open day
\* the batch is created or found. It is one batch for all stages.
Plan(j) ==
    /\ runs[j].phase = "planning"
    /\ SetRun(j, CASE calendar = "missing" -> "failing"
                   [] calendar = "closed" -> "done"
                   [] calendar = "open" -> "appending", "RUNNING")
    /\ batch' = IF calendar = "open" THEN [batch EXCEPT !.created = TRUE] ELSE batch
    /\ UNCHANGED <<clock, due, calendar, enabled, catchup, up, check, faults>>

\* Variant: every stage freezes the plan.
AppendFinal(j) ==
    LET apis == DailyStages[j].apis
    IN  /\ runs[j].phase = "appending"
        /\ SetRun(j, IF batch.frozen /\ ~batch.closed /\ ~(apis \subseteq batch.apis)
                     THEN "failing" ELSE "done", "RUNNING")
        /\ batch' = IF batch.frozen THEN batch
                    ELSE [batch EXCEPT !.apis = @ \cup apis, !.frozen = TRUE]
        /\ UNCHANGED <<clock, due, calendar, enabled, catchup, up, check, faults>>

\* append_tasks: a closed batch only answers, and a plan that differs from the closed one
\* is no error of the stage; a frozen one refuses tasks it does not have.
AppendTasks(j) ==
    LET apis == DailyStages[j].apis
    IN  /\ runs[j].phase = "appending"
        /\ SetRun(j, IF batch.frozen /\ ~batch.closed /\ ~(apis \subseteq batch.apis)
                     THEN "failing" ELSE "done", "RUNNING")
        /\ batch' = IF batch.frozen THEN batch
                    ELSE [batch EXCEPT !.apis = @ \cup apis, !.frozen = DailyStages[j].final]
        /\ UNCHANGED <<clock, due, calendar, enabled, catchup, up, check, faults>>

\* The record. In a catch-up a missing calendar ends the stages, not the check after them.
End(j) ==
    /\ runs[j].phase \in {"done", "failing"}
    /\ SetRun(j, "idle", IF runs[j].phase = "done" THEN "SUCCESS" ELSE "FAILED")
    /\ catchup' = IF runs[j].phase = "failing" /\ calendar = "missing"
                  THEN catchup \cap {CheckJob} ELSE catchup
    /\ UNCHANGED <<clock, due, calendar, batch, enabled, up, check, faults>>

-----------------------------------------------------------------------------
(* The check.                                                              *)

\* build_previous_day_data_sync_alert: an enabled job whose latest record of the day is
\* no success, and a batch that is not closed or has no processing plan. (Other jobs and
\* tasks only add issues.)
Issues ==
    \/ \E j \in enabled : runs[j].status # "SUCCESS"
    \/ batch.created /\ ~(batch.closed /\ batch.planned)

SetCheck(phase, status) == check' = [check EXCEPT !.phase = phase, !.status = status]

CheckBegin ==
    /\ check.phase = "idle"
    /\ check' = [check EXCEPT !.phase = "reading",
                              !.passed = @ \/ check.status = "SUCCESS", !.status = "RUNNING"]

FireCheck ==
    /\ Running
    /\ CheckJob \in due
    /\ due' = due \ {CheckJob}
    /\ CheckBegin
    /\ UNCHANGED <<clock, calendar, batch, runs, enabled, catchup, up, faults>>

\* A morning that has a successful check already needs no other one.
CheckRead ==
    /\ check.phase = "reading"
    /\ SetCheck(CASE check.passed -> "sent" [] ~check.passed /\ Issues -> "sending"
                  [] OTHER -> "silent", "RUNNING")
    /\ UNCHANGED <<clock, due, calendar, batch, runs, enabled, catchup, up, faults>>

CheckSend ==
    /\ check.phase = "sending"
    /\ \/ /\ check' = [check EXCEPT !.phase = "sent", !.messages = @ + 1]
          /\ UNCHANGED faults
       \/ /\ faults > 0
          /\ faults' = faults - 1
          /\ SetCheck("failing", "RUNNING")
    /\ UNCHANGED <<clock, due, calendar, batch, runs, enabled, catchup, up>>

CheckEnd ==
    /\ check.phase \in {"silent", "sent", "failing"}
    /\ SetCheck("idle", IF check.phase = "failing" THEN "FAILED" ELSE "SUCCESS")
    /\ UNCHANGED <<clock, due, calendar, batch, runs, enabled, catchup, up, faults>>

-----------------------------------------------------------------------------
(* Restarts.                                                               *)

Crash ==
    /\ up
    /\ faults > 0
    /\ up' = FALSE
    /\ due' = {}
    /\ catchup' = {}
    /\ runs' = [j \in Jobs |-> [runs[j] EXCEPT !.phase = "idle"]]
    /\ check' = [check EXCEPT !.phase = "idle"]
    /\ faults' = faults - 1
    /\ UNCHANGED <<clock, calendar, batch, enabled>>

Missed(status) == IF status = "RUNNING" THEN "FAILED" ELSE status

\* main: records left RUNNING are closed, then the stages whose time has come run in
\* their order, then the check.
Start ==
    /\ ~up
    /\ up' = TRUE
    /\ runs' = [j \in Jobs |-> [runs[j] EXCEPT !.status = Missed(@)]]
    /\ check' = [check EXCEPT !.status = Missed(@)]
    /\ catchup' = IF Morning THEN {CheckJob}
                  ELSE {j \in Jobs : DailyStages[j].at <= Instants[clock]}
    /\ UNCHANGED <<clock, due, calendar, batch, enabled, faults>>

\* The check runs after the stages, and those in the order of their times.
First(j) ==
    \A k \in catchup \ {j} :
        j # CheckJob /\ (k = CheckJob \/ DailyStages[j].at < DailyStages[k].at)

\* plan_due_collection_stages and _run_startup_job, one after the other.
CatchUp(j) ==
    /\ up
    /\ j \in catchup
    /\ First(j)
    /\ Idle
    /\ IF j = CheckJob THEN CheckBegin /\ UNCHANGED runs
       ELSE UNCHANGED check /\ IF j \in enabled THEN Begin(j) ELSE UNCHANGED runs
    /\ catchup' = catchup \ {j}
    /\ UNCHANGED <<clock, due, calendar, batch, enabled, up, faults>>

Next ==
    \/ Tick \/ PublishCalendar \/ Advance \/ Crash \/ Start
    \/ \E j \in Jobs \cup {CheckJob} : CatchUp(j)
    \/ \E j \in Jobs : Fire(j) \/ Request(j) \/ Plan(j) \/ AppendTasks(j) \/ End(j) \/ SetEnabled(j)
    \/ FireCheck \/ CheckRead \/ CheckSend \/ CheckEnd

Spec == Init /\ [][Next]_vars

-----------------------------------------------------------------------------
(* Properties.                                                             *)

\* In whatever order the stages ran, were repeated or missed, the frozen plan of a day
\* has every daily API and the stock list, and it is frozen by the last stage only.
FrozenPlanComplete == batch.frozen => batch.apis = FinalApis

\* A stage that comes after the last one (a late request, a catch-up after a crash) is
\* an idle repetition and never refused: a run only fails for want of a calendar.
StagesAccepted == \A j \in Jobs : runs[j].phase = "appending" => runs'[j].phase # "failing"

\* The record of the last stage tells the truth: a success on an open day means that the
\* plan is frozen, whatever crash or error came between the two.
SuccessMeansFrozen ==
    runs["plan-daily-final"].status = "SUCCESS" /\ calendar = "open" => batch.frozen

\* A check that finds nothing wrong is right: the day was no trading day, or its batch is
\* complete, closed and planned, or every stage was disabled and nothing was begun.
JustifiedIfSilent ==
    check.phase = "reading" /\ check'.phase = "silent" =>
        \/ calendar = "closed"
        \/ batch.apis = FinalApis /\ batch.closed /\ batch.planned
        \/ enabled = {} /\ ~batch.created

\* One message, and one more for each time that a process died, or a record was lost,
\* between the message and the record.
FewMessages == check.messages <= 1 + (MaxFaults - faults)
=============================================================================
