------------------------------ MODULE ManualPlans ------------------------------
(***************************************************************************)
(* The batches an operator asks for: a backfill of chosen APIs over a      *)
(* range of days, a repair of one day, and the recovery of the datasets    *)
(* the days of a range miss.  A command reads what is published and what   *)
(* is being collected before it commits its batches, and commands of       *)
(* different clients may do so at the same time.                           *)
(***************************************************************************)
EXTENDS Catalog, Sequences

CONSTANTS
    Clients,
    Today,          \* bound: the days are 1 .. Today
    Watched,        \* the datasets whose gaps are looked at
    MaxBatches,     \* bound: batches created
    None

VARIABLES
    calendar,       \* [day -> "open", "closed" or None where no row is]
    published,      \* releases of DATE datasets, <<day, dataset>>
    batches,        \* the batches created by the commands
    active,         \* their tasks that have not ended, <<batch, api>>
    command         \* [client -> what its command has read, or None]

vars == <<calendar, published, batches, active, command>>

Days == 1 .. Today

TypeOK ==
    /\ calendar \in [Days -> {"open", "closed", None}]
    /\ published \subseteq Days \X Watched
    /\ \A i \in DOMAIN batches : batches[i].apis \subseteq DOMAIN Apis /\ batches[i].apis # {}
    /\ \A t \in active : t[1] \in DOMAIN batches /\ t[2] \in batches[t[1]].apis
    /\ \A c \in Clients : command[c] = None \/ command[c].read \in 0 .. MaxBatches

Init ==
    /\ calendar \in [Days -> {"open", "closed", None}]
    /\ published = {}
    /\ batches = <<>>
    /\ active = {}
    /\ command = [c \in Clients |-> None]

-----------------------------------------------------------------------------
(* The rules of the commands.                                              *)

\* _trading_dates: only if the calendar has every day of the range.
Covered(from, to) == \A day \in from .. to : calendar[day] # None
TradingDates(from, to) == {day \in from .. to : calendar[day] = "open"}

\* The datasets of the date that are not released.
Missing(day) == {d \in Watched : Datasets[d].scope = "DATE" /\ <<day, d>> \notin published}

\* What those are made from.
Required(datasets) == UNION {Datasets[d].raw : d \in datasets}

\* The APIs of the day some batch is collecting.
ActiveApis(day) == {a \in DOMAIN Apis : \E t \in active : t[2] = a /\ batches[t[1]].day = day}

\* Past trading days that miss a dataset.
Recoverable(from, to) == {day \in TradingDates(from, to) : day < Today /\ Missing(day) # {}}

\* A batch of each day, in their order, with its APIs.
Planned(type, of, read) ==
    LET days == {day \in DOMAIN of : of[day] # {}}
        nth(n) == CHOOSE day \in days : Cardinality({k \in days : k < day}) = n - 1
    IN [n \in 1 .. Cardinality(days) |->
            [type |-> type, day |-> nth(n), apis |-> of[nth(n)], read |-> read]]

-----------------------------------------------------------------------------
(* The commands.                                                           *)

Begin(c, type, of) ==
    /\ command[c] = None
    /\ command' = [command EXCEPT ![c] = [type |-> type, of |-> of, read |-> Len(batches)]]
    /\ UNCHANGED <<calendar, published, batches, active>>

\* create_backfill.
Backfill(c, from, to, apis) ==
    /\ from <= to
    /\ Resolvable(apis)
    /\ Covered(from, to)
    /\ Begin(c, "BACKFILL", [day \in TradingDates(from, to) |-> apis])

\* create_repair, of a business date.
Repair(c, day, apis) == Begin(c, "REPAIR", [k \in {day} |-> apis])

\* recover_release_gaps: refused without a past trading day, without a gap.
Recover(c, from, to) ==
    /\ from <= to
    /\ Covered(from, to)
    /\ Recoverable(from, to) # {}
    /\ \A day \in Recoverable(from, to) : Resolvable(Required(Missing(day)))
    /\ Begin(c, "RECOVER", [day \in Recoverable(from, to) |->
                               Required(Missing(day)) \ ActiveApis(day)])

\* _create_batch for every day; nothing is created where all is being collected.
Commit(c) ==
    /\ command[c] # None
    /\ LET plan == Planned(command[c].type, command[c].of, command[c].read)
           first == Len(batches)
       IN /\ first + Len(plan) <= MaxBatches
          /\ batches' = batches \o plan
          /\ active' = active \cup UNION {{<<first + n, a>> : a \in plan[n].apis} : n \in DOMAIN plan}
    /\ command' = [command EXCEPT ![c] = None]
    /\ UNCHANGED <<calendar, published>>

-----------------------------------------------------------------------------
(* What becomes of the batches.                                            *)

TaskEnds(t) ==
    /\ active' = active \ {t}
    /\ UNCHANGED <<calendar, published, batches, command>>

\* A closed batch has its datasets made again; processing may fail.
Publish(i, d) ==
    /\ d \in Missing(batches[i].day)
    /\ \A t \in active : t[1] # i
    /\ d \in AffectedBy(batches[i].apis)
    /\ published' = published \cup {<<batches[i].day, d>>}
    /\ UNCHANGED <<calendar, batches, active, command>>

Next ==
    \/ \E c \in Clients :
        \/ \E from, to \in Days : Recover(c, from, to) \/ Backfill(c, from, to, {"suspend_d"})
        \/ \E day \in Days : Repair(c, day, {"moneyflow"})
        \/ Commit(c)
    \/ \E t \in active : TaskEnds(t)
    \/ \E i \in DOMAIN batches : \E d \in Watched : Publish(i, d)

Spec == Init /\ [][Next]_vars

-----------------------------------------------------------------------------
(* Properties.                                                             *)

\* Gap recoveries collect an API of a day twice at a time only if the later one had read
\* what is active before the other one committed.
RecoveredOnce ==
    \A t, u \in active :
        /\ t[2] = u[2] /\ t[1] < u[1]
        /\ batches[t[1]].day = batches[u[1]].day
        /\ batches[u[1]].type = "RECOVER"
        => batches[u[1]].read < t[1]

\* A recovery asks for past trading days only, and what it asks for, with what other batches
\* are collecting for the day, makes every dataset be made again that the day misses.
CoveredIfRecovered ==
    \A c \in Clients :
        command[c] = None /\ command'[c] # None /\ command'[c].type = "RECOVER" =>
            \A day \in DOMAIN command'[c].of :
                /\ calendar[day] = "open" /\ day < Today
                /\ Missing(day) \subseteq AffectedBy(command'[c].of[day] \cup ActiveApis(day))
=============================================================================
