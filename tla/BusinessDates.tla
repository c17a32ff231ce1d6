---------------------------- MODULE BusinessDates ----------------------------
(***************************************************************************)
(* Where dates must be complete.  The large tables are partitioned by      *)
(* month: the maintenance job, a historical range and every write create   *)
(* the partitions they need, each if its name is not there.  And the trade *)
(* calendar, which decides on which days anything is collected at all, is  *)
(* published by whole years of both exchanges or not at all.               *)
(***************************************************************************)
EXTENDS Naturals, FiniteSets, FiniteSetsExt

CONSTANTS
    Tables,         \* partitioned tables
    Dates,          \* the dates looked at, [year, month, day]
    MonthsAhead,    \* bound: months created in advance
    Years,          \* of the calendar
    MaxSteps        \* bound: operations

VARIABLES
    partitions,     \* [table, name, from, to], to excluded
    promised,       \* <<table, date>> that an operation said can be written
    calendar,       \* [<<exchange, year>> -> how many of its dates there are]
    steps           \* operations so far

vars == <<partitions, promised, calendar, steps>>

-----------------------------------------------------------------------------
(* Months.                                                                 *)

Before(a, b) ==
    \/ a.year < b.year
    \/ a.year = b.year /\ a.month < b.month
    \/ a.year = b.year /\ a.month = b.month /\ a.day < b.day

\* month_start: the first day of the month so many months later.
MonthStart(date, offset) ==
    LET index == date.year * 12 + date.month - 1 + offset
    IN  [year |-> index \div 12, month |-> (index % 12) + 1, day |-> 1]

\* A partition is called after the month it starts with.
PartitionOf(table, start) ==
    [table |-> table, name |-> <<start.year, start.month>>, from |-> start, to |-> MonthStart(start, 1)]

Planned(reference, ahead) ==
    {PartitionOf(t, MonthStart(reference, offset)) : t \in Tables, offset \in 0 .. ahead}

MonthCount(first, last) == (last.year * 12 + last.month) - (first.year * 12 + first.month)

PlannedForRange(first, last) == Planned(MonthStart(first, 0), MonthCount(first, last))

PlannedForTable(table, dates) == {PartitionOf(table, MonthStart(d, 0)) : d \in dates}

\* CREATE TABLE IF NOT EXISTS, one after the other.
Created(planned) ==
    partitions \cup {p \in planned : ~\E q \in partitions : q.table = p.table /\ q.name = p.name}

-----------------------------------------------------------------------------
(* The calendar.                                                           *)

Exchanges == {"SSE", "SZSE"}

Leap(year) == year % 4 = 0 /\ (year % 100 # 0 \/ year % 400 = 0)

\* The number of the last day of December.
DaysIn(year) == IF Leap(year) THEN 366 ELSE 365

\* Every year a payload has a date of is whole in both exchanges; a payload
\* without any is refused.
Complete(counts) ==
    /\ \E x \in Exchanges, y \in Years : counts[<<x, y>>] > 0
    /\ \A y \in Years :
            (\E x \in Exchanges : counts[<<x, y>>] > 0) => \A x \in Exchanges : counts[<<x, y>>] = DaysIn(y)

\* What a collection may bring: whole years, years that lack a day, and none.
Counts == [Exchanges \X Years -> {0, 364, 365, 366}]
Possible(counts) == \A x \in Exchanges, y \in Years : counts[<<x, y>>] <= IF Leap(y) THEN 366 ELSE 365

-----------------------------------------------------------------------------
Init ==
    /\ partitions = {}
    /\ promised = {}
    /\ calendar = [e \in Exchanges \X Years |-> 0]
    /\ steps = 0

Counted == steps < MaxSteps /\ steps' = steps + 1

\* The monthly maintenance.
EnsureMonthly(reference) ==
    /\ Counted
    /\ partitions' = Created(Planned(reference, MonthsAhead))
    /\ promised' = promised \cup
            {<<t, d>> : t \in Tables,
                        d \in {e \in Dates : /\ ~Before(e, reference)
                                             /\ (e.year * 12 + e.month) - (reference.year * 12 + reference.month)
                                                    \in 0 .. MonthsAhead}}
    /\ UNCHANGED calendar

\* Of a historical range, both ends included.
EnsureRange(first, last) ==
    /\ Counted
    /\ ~Before(last, first)
    /\ partitions' = Created(PlannedForRange(first, last))
    /\ promised' = promised \cup
            {<<t, d>> : t \in Tables, d \in {e \in Dates : ~Before(e, first) /\ ~Before(last, e)}}
    /\ UNCHANGED calendar

\* Before the rows of some dates are written.
EnsureForWrite(table, dates) ==
    /\ Counted
    /\ partitions' = Created(PlannedForTable(table, dates))
    /\ promised' = promised \cup {<<table, d>> : d \in dates}
    /\ UNCHANGED calendar

\* The dates of the payload join those that are there.
PublishCalendar(counts) ==
    /\ Counted
    /\ Complete(counts)
    /\ calendar' = [e \in Exchanges \X Years |-> IF counts[e] > calendar[e] THEN counts[e] ELSE calendar[e]]
    /\ UNCHANGED <<partitions, promised>>

Next ==
    \/ \E d \in Dates : EnsureMonthly(d)
    \/ \E a, b \in Dates : EnsureRange(a, b)
    \/ \E t \in Tables, ds \in UNION {kSubset(n, Dates) : n \in 1 .. 2} : EnsureForWrite(t, ds)
    \/ \E counts \in {c \in Counts : Possible(c)} : PublishCalendar(counts)

Spec == Init /\ [][Next]_vars

-----------------------------------------------------------------------------
(* Correctness.                                                            *)

TypeOK ==
    /\ \A p \in partitions : p.table \in Tables /\ p.from.day = 1 /\ p.to.day = 1 /\ p.from.month \in 1 .. 12
    /\ promised \subseteq Tables \X Dates
    /\ calendar \in [Exchanges \X Years -> 0 .. 366]
    /\ steps \in 0 .. MaxSteps

\* Whatever created the partitions, in whatever order and overlapping as it
\* may, a date that may be written is in one partition of its table, and in
\* one only: over the turn of a year as within it.
OnePartitionForDate ==
    \A w \in promised :
        Cardinality({p \in partitions : p.table = w[1] /\ ~Before(w[2], p.from) /\ Before(w[2], p.to)}) = 1

\* A year of which the calendar has a date has all its dates, of both
\* exchanges: a day that is not there would pass for a day without trading,
\* on which nothing is collected.
YearsWhole ==
    \A y \in Years :
        (\E x \in Exchanges : calendar[<<x, y>>] > 0) =>
            \A x \in Exchanges : calendar[<<x, y>>] = IF Leap(y) THEN 366 ELSE 365
=============================================================================
