------------------------------- MODULE Catalog -------------------------------
(***************************************************************************)
(* The declarations the pipeline is driven by: what each provider API asks *)
(* for and when, which of them a scheduled job plans together, which       *)
(* datasets are made from them, and the rule that turns the APIs of a      *)
(* closed batch into the datasets to be made again. There are no variables *)
(* here; PlanDay collects a day by these declarations.                     *)
(***************************************************************************)
EXTENDS Naturals, FiniteSets, Declarations

\* A time of day in minutes; a day has no later one than NoCutoff.
At(hour, minute) == 60 * hour + minute
NoCutoff == At(24, 0)

-----------------------------------------------------------------------------
(* The APIs.                                                               *)

\* _master_spec: not of a day, no cut-off.
Master(name, empty) == [name |-> name, group |-> "MASTER", empty |-> empty, cutoff |-> NoCutoff]

\* _daily_spec: an empty answer is asked for again until the cut-off.
Daily(name, cutoff) ==
    [name |-> name, group |-> "DAILY", empty |-> "RETRY_UNTIL_CUTOFF", cutoff |-> cutoff]

EmptyAllowed(api) == [api EXCEPT !.empty = "ALLOWED"]
OfGroup(group, api) == [api EXCEPT !.group = group]

MasterApis ==
    {Master("trade_cal", "RETRY_UNTIL_CUTOFF"),
     Master("stock_basic", "ALLOWED"),
     Master("stock_company", "ALLOWED"),
     Master("etf_basic", "ALLOWED")}

StockApis ==
    {Daily("daily", At(20, 0)),
     Daily("daily_basic", At(22, 0)),
     Daily("adj_factor", At(16, 0)),
     Daily("stk_limit", At(22, 0)),
     Daily("stk_factor", At(23, 30)),
     Daily("moneyflow", At(22, 0)),
     EmptyAllowed(Daily("suspend_d", At(22, 0)))}

FundApis ==
    {Daily("fund_daily", At(20, 0)),
     Daily("fund_adj", At(23, 0)),
     OfGroup("DELAYED", Daily("etf_share_size", NoCutoff))}

BoardApis ==
    {Master("ths_index", "FORBIDDEN"),
     Master("ths_member", "ALLOWED"),
     Daily("ths_daily", At(22, 30))}

HotApis ==
    {OfGroup("HOT", Daily("ths_hot", At(23, 0))),
     OfGroup("HOT", Daily("dc_hot", At(23, 0)))}

ThemeApis ==
    {Daily("dc_concept", At(22, 30)),
     OfGroup("DELAYED", EmptyAllowed(Daily("dc_concept_cons", NoCutoff)))}

EventApis ==
    {EmptyAllowed(Daily("top_list", At(22, 30))),
     EmptyAllowed(Daily("top_inst", At(22, 30))),
     Daily("limit_list_d", At(22, 30)),
     EmptyAllowed(Daily("limit_step", At(22, 30))),
     Daily("moneyflow_cnt_ths", At(22, 30)),
     Daily("moneyflow_ind_ths", At(22, 30))}

IndexApis ==
    {Master("index_basic", "ALLOWED"),
     Daily("index_daily", At(22, 30)),
     Daily("index_dailybasic", At(22, 30)),
     Master("index_weight", "ALLOWED")}

Apis == Named(MasterApis \cup StockApis \cup FundApis \cup BoardApis \cup HotApis
              \cup ThemeApis \cup EventApis \cup IndexApis)

-----------------------------------------------------------------------------
(* The jobs that plan them, when, and whether the plan is final.           *)

Stage(name, at, type, apis) ==
    [name |-> name, at |-> at, type |-> type, apis |-> apis, final |-> TRUE]

\* finalize=False: others append to the batch after it.
EarlyStage(name, at, type, apis) ==
    [name |-> name, at |-> at, type |-> type, apis |-> apis, final |-> FALSE]

LateApis == {"daily_basic", "stk_limit", "moneyflow", "suspend_d", "fund_adj", "ths_daily",
             "dc_concept", "top_list", "top_inst", "limit_list_d", "limit_step",
             "moneyflow_cnt_ths", "moneyflow_ind_ths", "index_daily", "index_dailybasic"}

\* plan_daily_final.
FinalApis == {a \in DOMAIN Apis : Apis[a].group = "DAILY"} \cup {"stock_basic"}

\* The stages of the daily batch.
DailyStages == Named(
    {EarlyStage("plan-daily-preopen", At(9, 25), "DAILY", {"adj_factor"}),
     EarlyStage("plan-daily-close", At(16, 10), "DAILY", {"daily", "fund_daily"}),
     EarlyStage("plan-daily-late", At(17, 30), "DAILY", LateApis),
     Stage("plan-daily-final", At(19, 0), "DAILY", FinalApis)})

\* Variant: the two hot lists are planned apart.
HotApisOfStage == {"ths_hot"}

HotStageApis == {"ths_hot", "dc_hot"}

\* The stages that are a batch of their own.
OwnStages ==
    {Stage("plan-trade-calendar", At(8, 20), "MASTER", {"trade_cal"}),
     Stage("plan-stock-master", At(8, 30), "MASTER", {"stock_basic", "stock_company"}),
     Stage("plan-etf-master", At(8, 35), "MASTER", {"etf_basic"}),
     Stage("plan-special-master", At(8, 40), "MASTER", {"ths_index", "index_basic"}),
     Stage("plan-concept-board-members", At(10, 0), "MASTER", {"ths_member"}),
     Stage("plan-monthly-index-weights", At(8, 50), "MASTER", {"index_weight"}),
     Stage("plan-etf-share-size", At(8, 45), "DELAYED", {"etf_share_size"}),
     Stage("plan-theme-members", At(20, 0), "DELAYED", {"dc_concept_cons"}),
     Stage("plan-hot-rank", At(22, 35), "HOT", HotStageApis)}

Stages == Named({DailyStages[j] : j \in DOMAIN DailyStages} \cup OwnStages)

-----------------------------------------------------------------------------
(* The datasets.                                                           *)

\* Dependencies on the releases of other datasets, under a scope: made again with them,
\* or only read.
On(names, scope) == {[name |-> n, scope |-> scope, triggers |-> TRUE] : n \in names}
Read(names, scope) == {[name |-> n, scope |-> scope, triggers |-> FALSE] : n \in names}

Global(name, raw, write, on) ==
    [name |-> name, raw |-> raw, write |-> write, scope |-> "GLOBAL", on |-> on]

\* A dataset of a date: made from the raw data of the date, the releases of GLOBAL
\* datasets and those of other datasets of the date.
Dated(name, raw, globals, dates) ==
    [name |-> name, raw |-> raw, write |-> "REPLACE_DATE", scope |-> "DATE",
     on |-> On(globals, "GLOBAL") \cup On(dates, "DATE")]

Written(write, dataset) == [dataset EXCEPT !.write = write]
OfScope(scope, dataset) == [dataset EXCEPT !.scope = scope]

MasterDatasets ==
    {Global("trade_calendar", {"trade_cal"}, "MASTER_MERGE", {}),
     Global("stock", {"stock_basic"}, "MASTER_MERGE", {}),
     Global("stock_company", {"stock_company"}, "MASTER_MERGE", On({"stock"}, "GLOBAL")),
     Global("etf", {"etf_basic"}, "MASTER_MERGE", {})}

EtfDatasets ==
    {Dated("etf_daily", {"fund_daily", "fund_adj"}, {"etf", "trade_calendar"}, {}),
     Dated("etf_share_size_daily", {"etf_share_size"}, {"etf", "trade_calendar"}, {})}

StockDatasets ==
    {Dated("stock_daily.core", {"daily", "daily_basic", "adj_factor"},
                                {"stock", "trade_calendar"}, {}),
     Written("PATCH_COLUMNS", Dated("stock_daily.limit", {"stk_limit"}, {"stock"}, {"stock_daily.core"})),
     Dated("stock_technical_daily", {"stk_factor"}, {"stock"}, {"stock_daily.core"}),
     Dated("stock_moneyflow_daily", {"moneyflow"}, {"stock", "trade_calendar"}, {}),
     Dated("stock_suspend_daily", {"suspend_d"}, {"stock", "trade_calendar"}, {})}

\* A member dataset is not made again because its board or the stocks are.
BoardDatasets ==
    {Global("concept_board", {"ths_index"}, "MASTER_MERGE", {}),
     Dated("concept_board_daily", {"ths_daily"}, {"concept_board", "trade_calendar"}, {}),
     Global("concept_board_member", {"ths_member"}, "REPLACE_ENTITY",
                                        Read({"concept_board", "stock"}, "GLOBAL"))}

ThemeIndexDatasets ==
    {Global("theme_index", {"ths_index"}, "MASTER_MERGE", {}),
     Dated("theme_index_daily", {"ths_daily"}, {"theme_index", "trade_calendar"}, {}),
     Global("theme_index_member", {"ths_member"}, "REPLACE_ENTITY",
                                      Read({"theme_index", "stock"}, "GLOBAL"))}

MarketThemeDatasets ==
    {Dated("stock_hot_rank_daily", {"ths_hot", "dc_hot"}, {"stock", "trade_calendar"}, {}),
     Written("UPSERT_KEY", Dated("market_theme_daily", {"dc_concept"}, {"trade_calendar"}, {})),
     Dated("market_theme_member_daily", {"dc_concept_cons"}, {"stock"}, {"market_theme_daily"})}

EventDatasets ==
    {Dated("stock_top_list_daily", {"top_list"}, {"stock", "trade_calendar"}, {}),
     Dated("stock_top_inst_daily", {"top_inst"}, {"stock", "trade_calendar"}, {}),
     Dated("stock_limit_event_daily", {"limit_list_d"}, {"stock", "trade_calendar"}, {}),
     Dated("stock_limit_step_daily", {"limit_step"}, {"stock", "trade_calendar"}, {}),
     Dated("ths_board_moneyflow_daily", {"moneyflow_cnt_ths", "moneyflow_ind_ths"},
                                            {"trade_calendar"}, {})}

IndexDatasets ==
    {Global("market_index", {"index_basic"}, "MASTER_MERGE", {}),
     Dated("market_index_daily", {"index_daily"}, {"market_index", "trade_calendar"}, {}),
     Dated("index_daily_basic", {"index_dailybasic"}, {"market_index", "trade_calendar"}, {}),
     OfScope("MONTH", Dated("market_index_weight", {"index_weight"}, {"market_index", "stock"}, {}))}

Datasets == Named(MasterDatasets \cup EtfDatasets \cup StockDatasets \cup BoardDatasets
                  \cup ThemeIndexDatasets \cup MarketThemeDatasets \cup EventDatasets
                  \cup IndexDatasets)

Upstream(d) == {dep.name : dep \in Datasets[d].on}

\* One round of the loop of _affected_dataset_specs.
Triggered(selected, d) ==
    \E dep \in Datasets[d].on :
        dep.triggers /\ dep.name \in selected /\ dep.scope = Datasets[d].scope

\* _affected_dataset_specs: those that read an API of the batch and, round after round,
\* those that are made from them within the same scope.
AffectedBy(apis) ==
    LET made[known \in SUBSET DOMAIN Datasets] ==
            LET more == known \cup {d \in DOMAIN Datasets : Triggered(known, d)}
            IN  IF more = known THEN known ELSE made[more]
    IN  made[{d \in DOMAIN Datasets : Datasets[d].raw \cap apis # {}}]

\* _resolve_specs with daily_only: the APIs a backfill or the recovery of a gap may plan.
Resolvable(apis) == \A a \in apis : Apis[a].group \in {"DAILY", "DELAYED", "HOT"}

\* What the jobs of the scheduler make of their APIs: the batches they plan.
Batches == {Stages[j].apis : j \in {k \in DOMAIN Stages : Stages[k].final}}

-----------------------------------------------------------------------------
(* Properties of the declarations.                                         *)

\* The datasets can be put in an order in which each comes after what it is made from:
\* no batch has tasks that wait for one another.
NoCircle ==
    LET depth[n \in Nat] ==   \* those with no chain of n upstreams above them
            IF n = 0 THEN {}
            ELSE LET before == depth[n - 1]
                 IN  {d \in DOMAIN Datasets : Upstream(d) \subseteq before}
    IN  depth[Cardinality(DOMAIN Datasets)] = DOMAIN Datasets

\* Every input exists and is looked up under the scope it is released in: another scope
\* would make the dependency row wait for ever.
InputsResolvable ==
    \A d \in DOMAIN Datasets :
        /\ Datasets[d].raw \subseteq DOMAIN Apis
        /\ \A dep \in Datasets[d].on :
             dep.name \in DOMAIN Datasets /\ dep.scope = Datasets[dep.name].scope

\* A batch the scheduler plans holds all raw inputs of the date for every dataset it
\* has an input of. (market_theme_member_daily alone is also made again by a batch
\* without its raw input, from that of an earlier batch of the date.)
BatchesSelfContained ==
    \A apis \in Batches : \A d \in AffectedBy(apis) :
        /\ Datasets[d].scope # "GLOBAL"
        /\ Datasets[d].raw \cap apis # {} \/ d # "market_theme_member_daily"
        => Datasets[d].raw \subseteq apis

\* Every declared API is planned by some job and read by some dataset, and the last
\* stage of the day has every API of the stages before it.
EverythingPlanned ==
    /\ \A a \in DOMAIN Apis : \E j \in DOMAIN Stages : Stages[j].final /\ a \in Stages[j].apis
    /\ \A a \in DOMAIN Apis : \E d \in DOMAIN Datasets : a \in Datasets[d].raw
    /\ \A j \in DOMAIN DailyStages : DailyStages[j].apis \subseteq FinalApis

\* An API whose empty answer is retried until its cut-off is first planned before it.
PlannedBeforeCutoff ==
    \A a \in DOMAIN Apis :
        Apis[a].empty = "RETRY_UNTIL_CUTOFF" =>
            \E j \in DOMAIN Stages : a \in Stages[j].apis /\ Stages[j].at < Apis[a].cutoff

\* What is made from members of a board is left alone by a new list of boards or stocks,
\* and a dataset of a date is never made again because of a GLOBAL one.
NoNeedlessRecompute ==
    \A apis \in Batches : \A d \in AffectedBy(apis) :
        \/ Datasets[d].raw \cap apis # {}
        \/ \E up \in Upstream(d) \cap AffectedBy(apis) :
             Datasets[up].scope = Datasets[d].scope /\ Datasets[d].write # "REPLACE_ENTITY"

\* No gap of a date makes the command that recovers it be refused, and recovering it has
\* the dataset made again: it is made from something, all of it collected by date.
GapsRecoverable ==
    \A d \in DOMAIN Datasets :
        Datasets[d].scope = "DATE" => Datasets[d].raw # {} /\ Resolvable(Datasets[d].raw)
=============================================================================
