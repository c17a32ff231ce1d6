------------------------------- MODULE MCData --------------------------------
(***************************************************************************)
(* Data with the values that a configuration file cannot write down.       *)
(***************************************************************************)
EXTENDS Data, TLC

\* RowQuality again, for its kinds of stock: those of U depend on the value of Gone.
K == INSTANCE RowQuality WITH
        Gone <- {}, day <- stocks, outcome <- quality, written <- qualityRows

\* The master lacks no stock, one of each kind, twenty-one of the stocks whose prices moved,
\* or all.
MCGone ==
    {[k \in K!Kinds |-> n] : n \in {0, 1, 9999}}
    \cup {[k \in K!Kinds |-> IF k.price = "moved" THEN 21 ELSE 0]}

\* 1000000.0 is close to 1000400.0 and to 999600.55, which are not close to one another;
\* 999200.0 is close to the latter only.
MCAmounts ==
    {[cents |-> 100000000, places |-> 1], [cents |-> 100040000, places |-> 1],
     [cents |-> 99960055, places |-> 2], [cents |-> 99920000, places |-> 1]}

MCEvery == "e" :> 3 @@ "all" :> 1

\* A day of each of the last two months of a year and of the first two of the next.
CalendarDates ==
    {[year |-> 2023, month |-> 11, day |-> 30], [year |-> 2023, month |-> 12, day |-> 31],
     [year |-> 2024, month |-> 1, day |-> 1], [year |-> 2024, month |-> 2, day |-> 29]}

\* Datasets that share rows or masters, one of each kind of rule.
CheckedFamilies ==
    {{"concept_board_daily"}, {"theme_index_member"}, {"etf_share_size_daily"},
     {"market_theme_daily", "market_theme_member_daily"}, {"market_index_weight"}}
=============================================================================
