----------------------------- MODULE Publication -----------------------------
(***************************************************************************)
(* How the processors write a dataset: what a processor refuses, which of  *)
(* its rows it keeps, which rows of the table it replaces, and how the     *)
(* themes of a day are pruned by the publication of their members.  A      *)
(* write is one transaction, but it reads before it writes, and the        *)
(* transactions of other tasks commit in between.                          *)
(*                                                                         *)
(* The tables of one family are examined at a time: the datasets that      *)
(* share rows, and the masters their rows refer to.                        *)
(***************************************************************************)
EXTENDS Naturals, FiniteSets, FiniteSetsExt, Declarations

CONSTANTS
    Codes,          \* of boards, themes, indices, ETFs and stocks alike
    Days,           \* the days of two months, in order
    SecondMonth,    \* the first day of the second one
    MaxTasks,       \* bound: tasks started
    MaxRows,        \* bound: rows of a payload
    Families,       \* the sets of datasets looked at
    None

VARIABLES
    family,         \* the datasets whose tables are looked at
    masters,        \* [master dataset -> the codes in its table]
    rows,           \* [dataset -> its rows]
    tasks,          \* the tasks that are running
    clock,          \* instants, one per task
    themes          \* [day -> what its latest publication of themes wrote] (history)

vars == <<family, masters, rows, tasks, clock, themes>>

-----------------------------------------------------------------------------
(* The processors.  A row has a code, and a member where the dataset pairs *)
(* two codes; of and in name the masters these must be found in, or None.  *)
(* A code of the index of boards is of one type, so of one master.         *)

Rule(name, write, of, in, refuse) ==
    [name |-> name, write |-> write, of |-> of, in |-> in, refuse |-> refuse]

ConceptRules ==
    {Rule("concept_board_daily", "day", "concept_board", None, "never"),
     Rule("concept_board_member", "all", "concept_board", "stock", "never")}

ThemeIndexRules ==
    {Rule("theme_index_daily", "day", "theme_index", None, "never"),
     Rule("theme_index_member", "all", "theme_index", "stock", "unmatched")}

HotRules == {Rule("stock_hot_rank_daily", "day", "stock", None, "never")}

ThemeRules ==
    {Rule("market_theme_daily", "keys", None, None, "never"),
     Rule("market_theme_member_daily", "day", None, "stock", "never")}

TopListRules ==
    {Rule("stock_top_list_daily", "day", "stock", None, "never"),
     Rule("stock_top_inst_daily", "day", "stock", None, "never")}

LimitRules ==
    {Rule("stock_limit_event_daily", "day", "stock", None, "never"),
     Rule("stock_limit_step_daily", "day", "stock", None, "never")}

StockRules ==
    {Rule("stock_moneyflow_daily", "day", "stock", None, "empty"),
     Rule("stock_suspend_daily", "day", "stock", None, "never")}

CompanyRules == {Rule("stock_company", "keys", "stock", None, "unmatched")}

EtfDailyRules == {Rule("etf_daily", "day", "etf", None, "unmatched")}

EtfShareRules == {Rule("etf_share_size_daily", "day", "etf", None, "rows_unmatched")}

IndexRules ==
    {Rule("market_index_daily", "day", "market_index", None, "unmatched"),
     Rule("index_daily_basic", "day", "market_index", None, "never")}

WeightRules == {Rule("market_index_weight", "month", "market_index", "stock", "never")}

FlowRules == {Rule("ths_board_moneyflow_daily", "day", None, None, "never")}

Rules == Named(
    ConceptRules \cup ThemeIndexRules \cup HotRules \cup ThemeRules \cup TopListRules
    \cup LimitRules \cup StockRules \cup CompanyRules \cup EtfDailyRules \cup EtfShareRules
    \cup IndexRules \cup WeightRules \cup FlowRules)

Masters(datasets) == ({Rules[d].of : d \in datasets} \cup {Rules[d].in : d \in datasets}) \ {None}

DateScoped(d) == Rules[d].write = "day" \/ d = "market_theme_daily"
Month(day) == IF day < SecondMonth THEN 1 ELSE 2

\* What a payload of a business date may hold; no key is in it twice, a
\* staged payload that has one is refused.
PayloadRows(d, date) ==
    [code : Codes,
     member : IF Rules[d].in = None THEN {None} ELSE Codes,
     day : IF Rules[d].write = "month" THEN {t \in Days : Month(t) = Month(date)} ELSE {date}]

InMasters(d, p) ==
    /\ Rules[d].of # None => p.code \in masters[Rules[d].of]
    /\ Rules[d].in # None => p.member \in masters[Rules[d].in]

Matched(d, payload) == {p \in payload : InMasters(d, p)}

Refused(d, payload) ==
    \/ Rules[d].refuse \in {"empty", "unmatched"} /\ payload = {}
    \/ Rules[d].refuse \in {"unmatched", "rows_unmatched"} /\ payload # {} /\ Matched(d, payload) = {}

\* The rows that make room: those of the day, of the one source there is, of
\* the month and the payload's indices, or of the payload's keys.
Replaced(d, date, payload) ==
    {r \in rows[d] :
        CASE Rules[d].write = "day" -> r.day = date
          [] Rules[d].write = "all" -> TRUE
          [] Rules[d].write = "month" ->
                Month(r.day) = Month(date) /\ \E p \in payload : p.code = r.code
          [] Rules[d].write = "keys" -> \E p \in payload : p.code = r.code /\ p.day = r.day}

Written(d, date, payload, at) ==
    (rows[d] \ Replaced(d, date, payload))
        \cup {[code |-> p.code, member |-> p.member, day |-> p.day, at |-> at] : p \in Matched(d, payload)}

-----------------------------------------------------------------------------
(* The tasks.                                                              *)

Init ==
    /\ family \in Families
    /\ masters = [m \in Masters(family) |-> {}]
    /\ rows = [d \in family |-> {}]
    /\ tasks = {}
    /\ clock = 0
    /\ themes = [day \in Days |-> {}]

Merge(m, codes) == masters[m] \cup codes

\* A master is never published empty, and nothing is ever deleted from it.
PublishMaster(m, codes) ==
    /\ codes # {}
    /\ masters' = [masters EXCEPT ![m] = Merge(m, codes)]
    /\ UNCHANGED <<family, rows, tasks, clock, themes>>

\* Of a dataset published by day one task a day may run, of another only one.
Free(d, date) ==
    \A t \in tasks : t.dataset = d => DateScoped(d) /\ t.date # date

\* A task is claimed, its rows are prepared, and the time is read that the
\* rows of its write will carry.
Begin(d, date, payload) ==
    /\ clock < MaxTasks
    /\ Free(d, date)
    /\ clock' = clock + 1
    /\ tasks' = tasks \cup {[dataset |-> d, date |-> date, payload |-> payload, at |-> clock', parent |-> None]}
    /\ UNCHANGED <<family, masters, rows, themes>>

\* It is refused, it fails, or the process ends: nothing is written.
Fail(t) ==
    /\ tasks' = tasks \ {t}
    /\ UNCHANGED <<family, masters, rows, clock, themes>>

PrunesThemes(t) == t.dataset = "market_theme_member_daily"

\* The members' write starts with the time of the day's latest themes; no
\* time is read (0) where there are none.
ReadParent(t) ==
    /\ PrunesThemes(t)
    /\ t.parent = None
    /\ LET times == {r.at : r \in {s \in rows["market_theme_daily"] : s.day = t.date}}
       IN  tasks' = (tasks \ {t}) \cup {[t EXCEPT !.parent = Max(times \cup {0})]}
    /\ UNCHANGED <<family, masters, rows, clock, themes>>

\* Variant: the themes that are not of the publication that was read.
StaleUnequal(t) == {r \in rows["market_theme_daily"] : r.day = t.date /\ t.parent # 0 /\ r.at # t.parent}

\* The themes of the day that are older than those.
Stale(t) == {r \in rows["market_theme_daily"] : r.day = t.date /\ r.at < t.parent}

\* The write commits.
Write(t) ==
    /\ ~Refused(t.dataset, t.payload)
    /\ PrunesThemes(t) => t.parent # None
    /\ rows' = [d \in family |->
            IF d = t.dataset THEN Written(d, t.date, t.payload, t.at)
            ELSE IF PrunesThemes(t) THEN rows[d] \ Stale(t) ELSE rows[d]]
    /\ themes' = IF t.dataset = "market_theme_daily" THEN [themes EXCEPT ![t.date] = t.payload] ELSE themes
    /\ tasks' = tasks \ {t}
    /\ UNCHANGED <<family, masters, clock>>

Next ==
    \/ \E m \in DOMAIN masters, codes \in SUBSET Codes : PublishMaster(m, codes)
    \/ \E d \in family, date \in Days :
            \E n \in 0 .. MaxRows : \E payload \in kSubset(n, PayloadRows(d, date)) : Begin(d, date, payload)
    \/ \E t \in tasks : Fail(t)
    \/ \E t \in tasks : ReadParent(t)
    \/ \E t \in tasks : Write(t)

Spec == Init /\ [][Next]_vars

-----------------------------------------------------------------------------
(* Correctness.                                                            *)

\* The rows are those of their datasets, written by tasks that were started.
TypeOK ==
    /\ DOMAIN rows = family
    /\ \A d \in family : \A r \in rows[d] : r.at \in 1 .. clock /\ r.day \in Days
    /\ \A t \in tasks : t.dataset \in family /\ t.at \in 1 .. clock

\* What a row refers to is in the master tables, whatever was published after
\* it: the boards, indices, ETFs and stocks that consumers join it with, and
\* that the foreign keys ask for.
RowsHaveMasters ==
    \A d \in family : \A r \in rows[d] : InMasters(d, r)

\* The rows of a scope are those of one publication: a dataset's day, the
\* members of one source, an index's month.  What a later publication leaves
\* out is not left behind by an earlier one.
OneWritePerScope ==
    \A d \in family : \A r, s \in rows[d] :
        \/ r.at = s.at
        \/ Rules[d].write = "keys"
        \/ Rules[d].write = "day" /\ r.day # s.day
        \/ Rules[d].write = "month" /\ (r.code # s.code \/ Month(r.day) # Month(s.day))

\* The themes of a day's latest publication are there, although the write of
\* their members deletes the older ones by a time that was read before, and
\* although a later publication may commit in between.
LatestThemesKept ==
    "market_theme_daily" \in family =>
        \A day \in Days : \A p \in themes[day] :
            \E r \in rows["market_theme_daily"] : r.code = p.code /\ r.day = p.day
=============================================================================
