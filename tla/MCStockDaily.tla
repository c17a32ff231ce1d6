---------------------------- MODULE MCStockDaily ----------------------------
(* Instances of StockDaily for TLC: deliveries of one business date.         *)
EXTENDS StockDaily

CONSTANTS b1, b2, b3, w1, w2

\* The daily data and two repairs, or limits before the market opens, the daily
\* data and a repair; the first two deliveries bring limits.
MCDeliveries == {b1, b2, b3}
MCCores == {b2, b3}
MCLimits == {b1, b2}
MCSealed == [b \in MCLimits |-> IF b = b1 THEN 1 ELSE 2]

MCWorkers == {w1, w2}

\* A fault or a command in a behaviour, not both.
OneDisturbance == faults' + commands' >= MaxFaults + MaxCommands - 1

MCSpec == Init /\ [][Next /\ OneDisturbance]_vars /\ Fairness
=============================================================================
