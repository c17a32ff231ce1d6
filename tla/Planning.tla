------------------------------- MODULE Planning -------------------------------
(***************************************************************************)
(* What is collected when: the stages of a day, the deferred stages, the   *)
(* commands of the administrator, the catalog they read, and the retries   *)
(* of a task, each for itself.  A behaviour is one of a single part, which *)
(* is drawn at the start; the variables of the other parts are None.       *)
(* Those of two parts that have one name are told apart by a prefix: of    *)
(* the day (PlanDay), of the stages (DeferredStages), of the repairs       *)
(* (RepairCommands) and of the manual plans (ManualPlans).                 *)
(***************************************************************************)
EXTENDS RetryPolicy, FiniteSets

CONSTANTS
    MaxFaults,                                          \* bound: faults of a part
    Switched, Workers,                                  \* PlanDay
    Commands, Dates, Codes,                             \* DeferredStages
    MaxRequests, MaxKeys, RepairScopes, MaxTasks, Audits,     \* RepairCommands
    MaxPlans, Slots, RepairDays,
    Clients, LastDay, Watched, MaxBatches               \* ManualPlans

VARIABLES
    part,       \* the part that is drawn
    dayClock, due, dayCalendar, batch, runs, enabled, catchup, up, check, dayFaults,
    stages, codes, stageBatches, loop, stageFaults,
    repairClock, tasks, requests, records, lock, repairFaults, audits, plans,
    calendar, published, manualBatches, active, command

D == INSTANCE PlanDay WITH clock <- dayClock, calendar <- dayCalendar, faults <- dayFaults

S == INSTANCE DeferredStages WITH batches <- stageBatches, faults <- stageFaults

R == INSTANCE RepairCommands WITH
        clock <- repairClock, faults <- repairFaults, Scopes <- RepairScopes,
        Days <- RepairDays

M == INSTANCE ManualPlans WITH batches <- manualBatches, Today <- LastDay

dayVars == <<dayClock, due, dayCalendar, batch, runs, enabled, catchup, up, check, dayFaults>>
stageVars == <<stages, codes, stageBatches, loop, stageFaults>>
repairVars == <<repairClock, tasks, requests, records, lock, repairFaults, audits, plans>>
manualVars == <<calendar, published, manualBatches, active, command>>

all == <<part, vars, dayVars, stageVars, repairVars, manualVars>>

\* The bounds are numbers, and None is neither a request nor a record of one.
ASSUME PlanningAssumption ==
    /\ MaxFaults \in Nat /\ LastDay \in Nat /\ MaxBatches \in Nat
    /\ MaxRequests \in Nat /\ MaxKeys \in Nat /\ MaxTasks \in Nat /\ Audits \in Nat
    /\ MaxPlans \in Nat /\ Slots \subseteq Nat /\ IsFiniteSet(RepairScopes)
    /\ Watched \subseteq DOMAIN M!Datasets
    /\ LET slots == [scheduled : Nat, date : RepairDays, key : Nat \cup {None}]
           kinds == {<<"all">>} \cup ({"task"} \X Nat) \cup ({"batch"} \X slots)
       IN  None \notin kinds \cup [kind : kinds \cup {None}, accepted : BOOLEAN, batches : SUBSET slots]

-----------------------------------------------------------------------------
Parts == {"retry", "plan_day", "deferred", "repair", "manual", "catalog"}

\* While another part is drawn the task of RetryPolicy is some one that is never executed.
Resting == Init /\ now = Today * DayLength /\ task = CHOOSE t \in Tasks : TRUE

NoDay ==
    /\ dayClock = None /\ due = None /\ dayCalendar = None /\ batch = None /\ runs = None
    /\ enabled = None /\ catchup = None /\ up = None /\ check = None /\ dayFaults = None

NoStages ==
    stages = None /\ codes = None /\ stageBatches = None /\ loop = None /\ stageFaults = None

NoRepairs ==
    /\ repairClock = None /\ tasks = None /\ requests = None /\ records = None /\ lock = None
    /\ repairFaults = None /\ audits = None /\ plans = None

NoManual ==
    calendar = None /\ published = None /\ manualBatches = None /\ active = None /\ command = None

\* The catalog has constant declarations: one state.
PlanningInit ==
    /\ part \in Parts
    /\ IF part = "retry" THEN Init ELSE Resting
    /\ IF part = "plan_day" THEN D!Init ELSE NoDay
    /\ IF part = "deferred" THEN S!Init ELSE NoStages
    /\ IF part = "repair" THEN R!Init ELSE NoRepairs
    /\ IF part = "manual" THEN M!Init ELSE NoManual

PlanningNext ==
    \/ part = "retry" /\ Next /\ UNCHANGED <<part, dayVars, stageVars, repairVars, manualVars>>
    \/ part = "plan_day" /\ D!Next /\ UNCHANGED <<part, vars, stageVars, repairVars, manualVars>>
    \/ part = "deferred" /\ S!Next /\ UNCHANGED <<part, vars, dayVars, repairVars, manualVars>>
    \/ part = "repair" /\ R!Next /\ UNCHANGED <<part, vars, dayVars, stageVars, manualVars>>
    \/ part = "manual" /\ M!Next /\ UNCHANGED <<part, vars, dayVars, stageVars, repairVars>>

\* The planning loop of the deferred stages is a job of the scheduler, run again and again.
PlanningSpec ==
    /\ PlanningInit /\ [][PlanningNext]_all
    /\ WF_all(part = "deferred" /\ S!Round /\ UNCHANGED <<part, vars, dayVars, repairVars, manualVars>>)

-----------------------------------------------------------------------------
(* The properties of the parts; the modules state each of the conjuncts.   *)
(* AttemptsUsedInTime is that of RetryPolicy.                              *)

\* What is planned is complete and planned once.
\* - A frozen plan of a day has every daily API, whatever order its stages ran in.
\* - A last stage recorded as a success has frozen the plan of its day.
\* - One alert message a day, and one more for each crash or lost record.
\* - A deferred stage has one batch, though its rounds are lost and repeated.
\* - Members are asked for after their boards are published.
\* - A deferred stage is marked with its own batch, after the plan of that is frozen.
PlansInOrder ==
    /\ part = "plan_day" => D!TypeOK /\ D!FrozenPlanComplete /\ D!SuccessMeansFrozen /\ D!FewMessages
    /\ part = "deferred" => S!TypeOK /\ S!OneBatchPerStage /\ S!BoardsFirst /\ S!MarkedIsPlanned

\* Commands that overlap collect nothing twice.
\* - A logical task has a second repair under way only if the failure that it repairs was
\*   scheduled no earlier than the first one.
\* - An idempotency key has one effect, and its senders are told of that.
\* - Recoveries that see each other do not collect an API of a day twice.
NothingTwice ==
    /\ part = "repair" => R!TypeOK /\ R!OneRepairUnlessOvertaken /\ R!OneEffectPerKey
    /\ part = "manual" => M!TypeOK /\ M!RecoveredOnce

\* APIs, jobs and datasets are declared far apart and fit each other.
\* - No dataset is made from itself, through however many others.
\* - Every input is declared, and looked up under the scope it is released in.
\* - What a scheduled batch makes, it has all the raw inputs of.
\* - Every API is planned by a job and read by a dataset, and the last stage of a day
\*   has all.
\* - What is retried until a cut-off is planned before it.
\* - A new master does not have the data of dates or the members made again.
\* - Every gap of a date can be recovered by date.
CatalogFits == part = "catalog" =>
    /\ D!NoCircle /\ D!InputsResolvable /\ D!BatchesSelfContained
    /\ D!EverythingPlanned /\ D!PlannedBeforeCutoff /\ D!NoNeedlessRecompute
    /\ D!GapsRecoverable

\* No stage, no missing data and no failure is passed over.
\* - A stage after the last one is an idle repetition, never refused.
\* - A check that stays silent has a complete day, or none to report.
\* - A repair of everything leaves out nothing that failed and is idle.
\* - A recovery plans what the datasets that a past day misses are made from.
NothingLeftOut ==
    [][/\ part = "plan_day" => D!StagesAccepted /\ D!JustifiedIfSilent
       /\ part = "repair" => R!NoneLeftOut
       /\ part = "manual" => M!CoveredIfRecovered]_all

\* A deferred stage whose boards are published is planned, unless one is stuck.
StagesPlanned ==
    \A i \in 1 .. S!MaxStages :
        (IF part = "deferred" THEN S!Published(i) ELSE FALSE)
            ~> (IF part = "deferred" THEN S!PlannedOrStuck(i) ELSE FALSE)
=============================================================================
