----------------------------- MODULE MarketQuery -----------------------------
(***************************************************************************)
(* The queries of the MCP service.  A tool call runs a few statements one  *)
(* after the other, each of which sees what is committed by then: it finds *)
(* the topic it is asked about, or the newest day that all the datasets it *)
(* uses have been released for, and then reads their rows.  Datasets are   *)
(* published in between.                                                   *)
(*                                                                         *)
(* A publication commits the rows of its day with the release, so a table  *)
(* has rows of a day just when the release is there.  The limits are       *)
(* columns of the rows of the prices: a publication of the prices takes    *)
(* back the release of the limits that were made from earlier ones.        *)
(***************************************************************************)
EXTENDS Naturals, FiniteSets, FiniteSetsExt, Declarations

CONSTANTS
    Dates,          \* 1 .. n
    TradeDays,      \* the dates that datasets are published for
    FirstDays,      \* the dates that are the first of a month
    Topics,         \* the codes of boards, theme indices or themes
    None

VARIABLES
    tool,           \* the tool that is called, one of Tools
    releases,       \* <<dataset, business date>>
    names,          \* [Topics -> how the topic matches the identifier asked for]
    snapshots,      \* [FirstDays -> the dates of the snapshots of the month]
    call

vars == <<tool, releases, names, snapshots, call>>

-----------------------------------------------------------------------------
(* The tools.  needs are the datasets whose common release a tool asks     *)
(* for, shows those whose rows are in its answer.                          *)

Tool(name, form, needs, shows) ==
    [name |-> name, form |-> form, needs |-> needs, shows |-> shows, topic |-> None]
Uses(name, form, datasets) == Tool(name, form, datasets, datasets)

Quote == {"stock_daily.core", "stock_daily.limit", "stock_technical_daily", "stock_moneyflow_daily"}

StockTools == {Uses("stock_snapshot", "day", Quote)}

\* The limits of a day are shown in every history and their release is asked for in none.
HistoryTools ==
    {Tool("stock_history", "range", needs, needs \cup {"stock_daily.limit"}) :
        needs \in {{"stock_daily.core"},
                  {"stock_daily.core", "stock_technical_daily"},
                  {"stock_daily.core", "stock_moneyflow_daily"}}}

\* Variant: the list of suspensions is read, but its release is not asked for.
ScreenToolsUnasked ==
    {Uses("screen", "day", Quote),
     Tool("screen_of_the_trading", "day", Quote, Quote \cup {"stock_suspend_daily"})}

ScreenTools ==
    {Uses("screen", "day", Quote),
     Uses("screen_of_the_trading", "day", Quote \cup {"stock_suspend_daily"})}

\* The events of a stock, each kind with the released days of its own dataset.
EventTools ==
    {Uses(d, "range", {d}) :
        d \in {"stock_hot_rank_daily", "stock_top_list_daily", "stock_top_inst_daily",
               "stock_limit_event_daily", "stock_limit_step_daily", "stock_suspend_daily"}}
    \cup {Tool("market_themes", "range", {"market_theme_member_daily"},
               {"market_theme_member_daily", "market_theme_daily"})}

RankingTools ==
    {Uses("hot", "day", {"stock_hot_rank_daily"}),
     Uses("limit", "day", {"stock_limit_event_daily"}),
     Uses("limit_step", "day", {"stock_limit_step_daily"}),
     Uses("top_list", "day", {"stock_top_list_daily"}),
     Uses("board_moneyflow", "day", {"ths_board_moneyflow_daily"}),
     Uses("market_theme", "day", {"market_theme_daily"})}

\* A topic is looked up first and then a day for it; without a day asked for, none is needed.
ConceptTools ==
    {[Uses("concept", "day", {"concept_board_daily"}) EXCEPT !.topic = "first"]}

ThemeIndexTools ==
    {[Uses("theme_index", "day", {"theme_index_daily"}) EXCEPT !.topic = "first"]}

\* A theme is one of a day, so the day comes first.
ThemeTools ==
    {[Uses("topic_of_the_market", "day", {"market_theme_daily", "market_theme_member_daily"})
        EXCEPT !.topic = "of_the_day"]}

EtfTools ==
    {Uses("etf_snapshot", "day", {"etf_daily", "etf_share_size_daily"}),
     Uses("etf_history", "range", {"etf_daily"})}

IndexTools ==
    {Uses("index_snapshot", "day", {"market_index_daily", "index_daily_basic"}),
     Uses("index_history", "range", {"market_index_daily"})}

ConstituentTools == {Uses("constituents", "month", {"market_index_weight"})}

Tools == Named(
    StockTools \cup HistoryTools \cup ScreenTools \cup EventTools \cup RankingTools
    \cup ConceptTools \cup ThemeIndexTools \cup ThemeTools \cup EtfTools \cup IndexTools
    \cup ConstituentTools)

-----------------------------------------------------------------------------
(* What is released.                                                       *)

Released(d) == {r[2] : r \in {x \in releases : x[1] = d}}

\* Days that have all of the datasets; used by the properties.
Complete(datasets) == {day \in Dates : \A d \in datasets : day \in Released(d)}

\* The days with as many datasets as are required.
Common(datasets) ==
    {day \in Dates : Cardinality({r \in releases : r[1] \in datasets /\ r[2] = day}) = Cardinality(datasets)}

\* ready and withdrawn are kept for the properties: the days that were complete when the
\* call began, and those whose limits have been withdrawn since.
Idle == [phase |-> "idle", asked |-> None, ready |-> {}, withdrawn |-> {}, day |-> None,
         topic |-> None, result |-> None]

Init ==
    /\ \E t \in DOMAIN Tools : tool = Tools[t]
    /\ releases = {}
    /\ names = [t \in Topics |-> "no"]
    /\ snapshots = [m \in FirstDays |-> {}]
    /\ call = Idle

\* What a dataset of a date is made from on that date.
MadeFrom(d) ==
    CASE d \in {"stock_daily.limit", "stock_technical_daily"} -> {"stock_daily.core"}
      [] d = "market_theme_member_daily" -> {"market_theme_daily"}
      [] OTHER -> {}

\* _invalidate_stale_stock_daily_limit: the release that goes when d is published for a day.
Withdrawn(d, day) == {r \in releases : d = "stock_daily.core" /\ r = <<"stock_daily.limit", day>>}

Publish(d, day) ==
    /\ d \in tool.needs \cup tool.shows /\ tool.form # "month"
    /\ MadeFrom(d) \cap (tool.needs \cup tool.shows) \subseteq {r[1] : r \in {x \in releases : x[2] = day}}
    /\ releases' = (releases \ Withdrawn(d, day)) \cup {<<d, day>>}
    /\ call' = [call EXCEPT !.withdrawn = @ \cup {r[2] : r \in Withdrawn(d, day)}]
    /\ UNCHANGED <<tool, names, snapshots>>

\* The topics of the table change their names, come and go.
PublishTopics ==
    /\ tool.topic # None
    /\ names' \in [Topics -> {"no", "part_of_the_name", "name", "code"}]
    /\ UNCHANGED <<tool, releases, snapshots, call>>

\* The weights of a month: released under its first day, and all its snapshots replaced.
PublishWeights(m, dates) ==
    /\ tool.form = "month"
    /\ releases' = releases \cup {<<"market_index_weight", m>>}
    /\ snapshots' = [snapshots EXCEPT ![m] = dates]
    /\ UNCHANGED <<tool, names, call>>

InMonth(m) == {d \in Dates : d >= m /\ \A n \in FirstDays : n > m => d < n}

-----------------------------------------------------------------------------
(* A call.                                                                 *)

Ends(result) == call' = [call EXCEPT !.phase = "done", !.result = result]
Goes(phase) == call' = [call EXCEPT !.phase = phase]

Begin ==
    /\ call.phase = "idle"
    /\ \E asked \in Dates \cup {None} :
         call' = [call EXCEPT
                     !.phase = IF tool.topic = "first" THEN "topic" ELSE "resolve",
                     !.asked = asked,
                     !.ready = Complete(tool.needs),
                     !.withdrawn = {}]
    /\ UNCHANGED <<tool, releases, names, snapshots>>

\* _resolve_date.
Resolved(asked) ==
    LET found == {day \in Common(tool.needs) : asked = None \/ day = asked}
    IN  IF found = {} THEN None ELSE Max(found)

Resolve ==
    /\ call.phase = "resolve" /\ tool.form = "day"
    /\ LET day == Resolved(call.asked)
       IN  \/ /\ day # None
              /\ call' = [call EXCEPT !.day = day,
                                      !.phase = IF tool.topic = "of_the_day" THEN "topic" ELSE "select"]
           \/ day = None /\ tool.topic = "first" /\ call.asked = None /\ Ends("answered")
           \/ day = None /\ ~(tool.topic = "first" /\ call.asked = None) /\ Ends("not_ready")
    /\ UNCHANGED <<tool, releases, names, snapshots>>

\* Variant: the first of the topics that match is taken.
FoundFirst(t, matching) == matching # {} /\ t = Min(matching)

Found(t, matching) == matching = {t}

AfterTopic == IF tool.topic = "first" THEN "resolve" ELSE "select"

\* _resolve_unique_topic, first statement: by code or by the whole name.
FindTopic ==
    /\ call.phase = "topic"
    /\ LET exact == {t \in Topics : names[t] \in {"name", "code"}}
       IN  \/ \E t \in exact :
                Found(t, exact) /\ call' = [call EXCEPT !.topic = t, !.phase = AfterTopic]
           \/ exact = {} /\ Goes("fuzzy")
           \/ exact # {} /\ ~(\E t \in exact : Found(t, exact)) /\ Ends("ambiguous")
    /\ UNCHANGED <<tool, releases, names, snapshots>>

\* Second statement: by part of the name, which the whole name is too.
FindByPart ==
    /\ call.phase = "fuzzy"
    /\ LET similar == {t \in Topics : names[t] \in {"name", "part_of_the_name"}}
       IN  \/ \E t \in similar :
                Found(t, similar) /\ call' = [call EXCEPT !.topic = t, !.phase = AfterTopic]
           \/ similar = {} /\ Ends("not_found")
           \/ similar # {} /\ ~(\E t \in similar : Found(t, similar)) /\ Ends("ambiguous")
    /\ UNCHANGED <<tool, releases, names, snapshots>>

\* The rows of the day.
Select ==
    /\ call.phase = "select" /\ tool.form = "day"
    /\ Ends("answered")
    /\ UNCHANGED <<tool, releases, names, snapshots>>

\* One statement with the released days as a subquery; the newest row of the answer
\* stands for all, so what is asked is the last day of the range.
SelectRange ==
    /\ call.phase = "resolve" /\ tool.form = "range"
    /\ LET days == {day \in Common(tool.needs) : call.asked = None \/ day <= call.asked}
       IN  call' = [call EXCEPT !.phase = "done", !.result = "answered",
                                !.day = IF days = {} THEN None ELSE Max(days)]
    /\ UNCHANGED <<tool, releases, names, snapshots>>

\* _latest_release_at_or_before.
ResolveMonth ==
    /\ call.phase = "resolve" /\ tool.form = "month"
    /\ LET months == {m \in Released("market_index_weight") : call.asked = None \/ m <= call.asked}
       IN  \/ months = {} /\ Ends("not_ready")
           \/ months # {} /\ call' = [call EXCEPT !.phase = "pick", !.day = Max(months)]
    /\ UNCHANGED <<tool, releases, names, snapshots>>

\* Snapshots up to the first day of the newest month released.
Pickable(through) == {d \in UNION {snapshots[m] : m \in FirstDays} : d <= through}

Pick ==
    /\ call.phase = "pick"
    /\ \/ Pickable(call.day) = {} /\ Ends("not_found")
       \/ /\ Pickable(call.day) # {}
          /\ call' = [call EXCEPT !.day = Max(Pickable(call.day)), !.phase = "done", !.result = "answered"]
    /\ UNCHANGED <<tool, releases, names, snapshots>>

Next ==
    \/ \E d \in tool.needs \cup tool.shows, day \in TradeDays : Publish(d, day)
    \/ PublishTopics
    \/ \E m \in FirstDays : \E dates \in SUBSET InMonth(m) : PublishWeights(m, dates)
    \/ Begin \/ Resolve \/ FindTopic \/ FindByPart \/ Select \/ SelectRange \/ ResolveMonth \/ Pick

Spec == Init /\ [][Next]_vars

-----------------------------------------------------------------------------
(* Properties.                                                             *)

TypeOK ==
    /\ tool.form \in {"day", "range", "month"}
    /\ releases \subseteq (tool.needs \cup tool.shows) \X Dates
    /\ names \in [Topics -> {"no", "part_of_the_name", "name", "code"}]
    /\ \A m \in FirstDays : snapshots[m] \subseteq InMonth(m)
    /\ call.phase \in {"idle", "topic", "fuzzy", "resolve", "pick", "select", "done"}
    /\ call.result \in {"answered", "not_ready", "not_found", "ambiguous", None}

Answered == call.result = "answered" /\ call.day # None

\* No answer mixes what has been published for a day with what has not: every dataset
\* an answer shows, or leaves stocks out by, has been released for its day, although the
\* tool asks for the release of some of them only.  Two cases are left, both of the
\* limits: a tool that does not ask for them, and a publication of the prices that took
\* them back during the call.
NothingUnpublished ==
    Answered /\ tool.form # "month" =>
        \A d \in tool.shows :
            \/ call.day \in Released(d)
            \/ d = "stock_daily.limit" /\ (d \notin tool.needs \/ call.day \in call.withdrawn)

\* Contradicted by the tools: the days of a history are days released with all the
\* datasets it shows.
HistoryAsksForAll ==
    Answered /\ tool.form = "range" => call.day \in Complete(tool.shows) \cup call.withdrawn

\* A day that was complete when the call began is not missed, unless its limits are needed
\* and were withdrawn during the call: the answer is of that day or of a later one, and of
\* the day itself if it was asked for.
NewestComplete ==
    LET still == {d \in call.ready : "stock_daily.limit" \in tool.needs => d \notin call.withdrawn}
        wanted == {d \in still : \/ call.asked = None
                                 \/ tool.form = "range" /\ d <= call.asked
                                 \/ tool.form # "range" /\ d = call.asked}
    IN  /\ call.result \in {"answered", "not_ready"} /\ tool.form # "month" =>
             \A d \in wanted : call.day # None /\ d <= call.day
        /\ Answered /\ tool.form = "day" /\ call.asked # None => call.day = call.asked

\* A topic is never guessed: the one that is taken is the only one that matches as well as
\* it does, also when the table has changed since the first statement.  (Only a topic of
\* that very code that is new since then is missed.)
OnlyMatch ==
    call'.topic # call.topic =>
        \A t \in Topics \ {call'.topic} :
            names[t] \notin {"name", IF call.phase = "fuzzy" THEN "part_of_the_name" ELSE "code"}

\* The constituents of an index are no later than asked for and those of a released month,
\* and no snapshot of a month before the newest one released is passed over.
PickedWell ==
    call.phase = "pick" /\ call'.result = "answered" =>
        /\ call.asked # None => call'.day <= call.asked
        /\ \E m \in Released("market_index_weight") : call'.day \in InMonth(m)
        /\ \A m \in FirstDays : m < call.day => \A d \in snapshots[m] : d <= call'.day
=============================================================================
