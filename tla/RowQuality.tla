------------------------------ MODULE RowQuality ------------------------------
(***************************************************************************)
(* When a trading day is good enough to be published.  The processor of    *)
(* stock_daily.core puts together three APIs: a stock whose daily_basic    *)
(* row is missing or disagrees keeps its prices and loses the rest, a      *)
(* stock without the price before is left out, and too many of either      *)
(* refuse the day.  Of the Beijing exchange the whole daily_basic may be   *)
(* yesterday's.  What passed is written but for the stocks that are not in *)
(* the master table by then or are delisted in it, however many these are. *)
(*                                                                         *)
(* Stocks that look alike are treated alike, so a day is how many stocks   *)
(* of each kind it has: the bounds of the code are then checked as they    *)
(* are.                                                                    *)
(***************************************************************************)
EXTENDS Integers, FiniteSets, FiniteSetsExt

CONSTANTS
    Main,           \* of the days looked at: the numbers of good stocks,
    Lost,           \* of stocks that lack something,
    Beijing,        \* and of stocks of the Beijing exchange
    Gone,           \* numbers of the stocks of each kind that the master table may lack
    None

VARIABLES
    day,            \* [kind -> number of stocks]
    outcome,        \* what was prepared from it, or None
    written         \* [rows |-> written, gone |-> stocks that the master lacks], or None

vars == <<day, outcome, written>>

\* A kind of stock: of the Beijing exchange or not; its price in daily moved,
\* flat, without the price before, inconsistent, or no row at all; and the
\* close its row of daily_basic has: today's, the day before's, another one,
\* or no row.
Kinds ==
    {k \in [bj : BOOLEAN, price : {"moved", "flat", "no_pre_close", "invalid", "none"},
            basic : {"today", "before", "other", "none"}] :
        /\ k.basic = "before" => k.price = "moved"
        /\ k.price = "none" => k.basic = "other"}

Number(n, kinds) == MapThenSumSet(LAMBDA k : n[k], kinds)

-----------------------------------------------------------------------------
(* The rules of the stocks.                                                *)

Traded == {k \in Kinds : k.price # "none"}

\* Comparable: both closes and the price before are there.
Compared == {k \in Traded : k.bj /\ k.price # "no_pre_close" /\ k.basic # "none"}
LikeBefore == {k \in Compared : k.basic = "before" \/ (k.price = "flat" /\ k.basic = "today")}
Moved == {k \in Compared : k.price = "moved"}

\* The daily_basic of the Beijing exchange is yesterday's.
Lags(n) ==
    /\ Number(n, Compared) >= 20
    /\ Number(n, Moved \cap LikeBefore) >= 20
    /\ 100 * Number(n, LikeBefore) >= 95 * Number(n, Compared)
    /\ 100 * Number(n, Moved \cap LikeBefore) >= 95 * Number(n, Moved)

\* Variant: the segment is not looked at.
EnrichedAlone(n) == {k \in Traded : k.basic = "today"}

\* The stocks that get the fields of daily_basic.
Enriched(n) == {k \in Traded : k.basic = "today" /\ ~(k.bj /\ Lags(n))}

\* What counts against the day: stocks left without them, and rows of
\* daily_basic that have no stock.  Those of Beijing do not count.
BasicIssues(n) == {k \in Kinds : ~k.bj /\ k \notin Enriched(n)}

\* One in a hundred, at least one and at most twenty.
Allowed(number) == Min({20, Max({1, number \div 100})})

\* _validate_daily_basic_quality, _validate_daily_price_quality.
TooMany(number, valid, issues) == issues > 0 /\ (valid = 0 \/ issues > Allowed(number))

Published == {k \in Traded : k.price \in {"moved", "flat"}}

RefusedCore(n) ==
    \/ Number(n, {k \in Traded : k.price = "invalid"}) > 0
    \/ TooMany(Number(n, {k \in Traded : ~k.bj}),
               Number(n, {k \in Traded : ~k.bj /\ k \in Enriched(n)}), Number(n, BasicIssues(n)))
    \/ TooMany(Number(n, Traded), Number(n, Published), Number(n, {k \in Traded : k.price = "no_pre_close"}))
    \/ Number(n, Published) = 0

Core(n) ==
    [refused |-> RefusedCore(n),
     rows |-> {k \in Published : n[k] > 0},
     enriched |-> {k \in Published \cap Enriched(n) : n[k] > 0}]

-----------------------------------------------------------------------------
\* The days looked at: numbers of the kinds that matter, none of the others.
KindOf(bj, price, basic) == [bj |-> bj, price |-> price, basic |-> basic]

Init ==
    /\ \E m \in Main, l \in Lost \X Lost \X {0, 1} \X {0, 1}, b \in Beijing \X {0, 1, 20} \X {0, 1, 20} \X {0, 2} :
         day = [k \in Kinds |->
           CASE k = KindOf(FALSE, "moved", "today") -> m
             [] k = KindOf(FALSE, "moved", "none") -> l[1]
             [] k = KindOf(FALSE, "no_pre_close", "today") -> l[2]
             [] k = KindOf(FALSE, "none", "other") -> l[3]
             [] k = KindOf(FALSE, "invalid", "today") -> l[4]
             [] k = KindOf(TRUE, "moved", "before") -> b[1]
             [] k = KindOf(TRUE, "moved", "today") -> b[2]
             [] k = KindOf(TRUE, "flat", "today") -> b[3]
             [] k = KindOf(TRUE, "flat", "none") -> b[4]
             [] OTHER -> 0]
    /\ outcome = None
    /\ written = None

\* StockDailyCoreProcessor.prepare.
Prepare ==
    /\ outcome = None
    /\ outcome' = Core(day)
    /\ UNCHANGED <<day, written>>

\* StockDailyCoreProcessor.write: _filter_current_stock_rows drops a row whose stock the
\* master lacks, and no bound of prepare is looked at again.
Write ==
    /\ outcome # None /\ written = None
    /\ ~outcome.refused
    /\ \E lacks \in Gone :
         LET gone == [k \in Kinds |-> IF lacks[k] < day[k] THEN lacks[k] ELSE day[k]]
         IN  written' = [gone |-> gone,
                         rows |-> [k \in Kinds |-> IF k \in outcome.rows THEN day[k] - gone[k] ELSE 0]]
    /\ UNCHANGED <<day, outcome>>

Next == Prepare \/ Write

Spec == Init /\ [][Next]_vars

-----------------------------------------------------------------------------
(* Correctness.                                                            *)

\* An outcome, and what is written of it, are about stocks the day has.
TypeOK ==
    /\ DOMAIN day = Kinds /\ \A k \in Kinds : day[k] \in Nat
    /\ outcome # None => outcome.enriched \subseteq outcome.rows /\ outcome.rows \subseteq Kinds
    /\ written # None => \A k \in Kinds : written.gone[k] \in 0 .. day[k] /\ written.rows[k] \in 0 .. day[k]

\* Whatever the daily_basic of Beijing looks like, late, absent or plainly
\* wrong, it never keeps the day from being published: with every such row as
\* it should be the verdict would be the same.
Repaired(n) ==
    [k \in Kinds |->
        IF ~k.bj THEN n[k]
        ELSE IF k.basic = "today" THEN Number(n, {j \in Traded : j.bj /\ j.price = k.price})
        ELSE 0]

BeijingNeverBlocks == outcome # None => outcome.refused = RefusedCore(Repaired(day))

\* No stock is published with the figures of another day: not one whose own
\* close gives it away, and, once the whole of Beijing is seen to be late, not
\* one whose price did not move and whose close gives nothing away.
NothingOfYesterday ==
    outcome # None /\ ~outcome.refused =>
        /\ \A k \in outcome.enriched : k.basic = "today"
        /\ (/\ Number(day, Compared) = Number(day, LikeBefore)
            /\ Number(day, Moved) >= 20) => \A k \in outcome.enriched : ~k.bj

\* A segment that is not late is not emptied: where nothing moved, all closes
\* are the closes before, and that says nothing.
TodayKept ==
    outcome # None /\ Number(day, {k \in Compared : k.basic = "before"}) = 0 =>
        \A k \in outcome.rows : k.basic = "today" => k \in outcome.enriched

\* Of the stocks that the master has, what a published day lost is bounded: twenty
\* stocks, one in a hundred of those delivered on the larger days and one on the smaller;
\* and so are the stocks that were published without the fields of daily_basic.  The
\* stocks that the master lacks are not bounded: none may be left.
FewLost ==
    written # None =>
        LET main == Number(day, {k \in Traded : ~k.bj})
            bare == Number(written.rows, {k \in Published : ~k.bj /\ k \notin outcome.enriched})
            lost == Number([k \in Kinds |-> day[k] - written.gone[k] - written.rows[k]], Traded)
        IN  /\ bare <= 20 /\ (bare > 1 => 100 * bare <= main)
            /\ lost <= 20 /\ (lost > 1 => 100 * lost <= Number(day, Traded))
=============================================================================
