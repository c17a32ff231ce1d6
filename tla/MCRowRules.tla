------------------------------ MODULE MCRowRules ------------------------------
(***************************************************************************)
(* RowRules with the values that a configuration file cannot write down.   *)
(***************************************************************************)
EXTENDS RowRules

\* 1000000.0 is close to 1000400.0 and to 999600.55, which are not close to one another.
MCAmounts ==
    {[cents |-> 100000000, places |-> 1], [cents |-> 100040000, places |-> 1],
     [cents |-> 99960055, places |-> 2]}
=============================================================================
