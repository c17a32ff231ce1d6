------------------------------- MODULE RowRules -------------------------------
(***************************************************************************)
(* What becomes of rows that come more than once.  A stock of the Beijing  *)
(* exchange may be there under its old code and its present one; a hot     *)
(* list holds the snapshots of a whole day, of which the last one that is  *)
(* complete is wanted; the top list repeats a key with fields missing,     *)
(* less precise, or in conflict.                                           *)
(***************************************************************************)
EXTENDS Integers, Sequences, FiniteSets, Functions, FiniteSetsExt, SequencesExt

CONSTANTS
    Codes, Times,
    Amounts,        \* of rows of the top list: [cents |-> value, places |-> decimals it has]
    MaxRows,        \* bound: rows of one key
    None

VARIABLES
    input,          \* [rule |-> .., rows |-> .., made |-> snapshots the rows are made of]
    output          \* what was prepared from it, None before

vars == <<input, output>>

-----------------------------------------------------------------------------
(* Codes: the rows of one key, [alias, value].                             *)

\* kept is what is published so far: None before the first row, else a set
\* with one row, or with none once the rows are refused.
Refuses(kept, row) == kept = {} \/ \E k \in kept : k.alias = row.alias /\ k.value # row.value

\* A present code replaces an old one, and is not replaced; two rows under
\* codes of one kind must agree.
Keep(kept, row) ==
    IF kept = None THEN {row}
    ELSE IF Refuses(kept, row) THEN {}
    ELSE IF \E k \in kept : k.alias THEN {row}
    ELSE kept

Normalized(rows) == FoldLeft(Keep, None, rows)

-----------------------------------------------------------------------------
(* Hot lists: rows [code, rank, time].                                     *)

Repeats(rows, row) == \E i \in DOMAIN rows : rows[i].code = row.code \/ rows[i].rank = row.rank

\* THS: a snapshot ends before the row that repeats a stock or a rank of it.
Split(rows) ==
    FoldLeft(LAMBDA parts, row :
                IF parts # <<>> /\ ~Repeats(Last(parts), row)
                THEN Front(parts) \o <<Append(Last(parts), row)>>
                ELSE Append(parts, <<row>>),
             <<>>, rows)

Latest(rows) == Max({rows[i].time : i \in DOMAIN rows})

\* The complete snapshots are the longest; of these the one with the latest
\* time, the first of several.
Wanted(parts) ==
    LET size == Max({Len(parts[i]) : i \in DOMAIN parts})
        whole == {i \in DOMAIN parts : Len(parts[i]) = size}
        latest == Max({Latest(parts[i]) : i \in whole})
    IN  parts[Min({i \in whole : Latest(parts[i]) = latest})]

ThsSnapshot(rows) == IF rows = <<>> THEN <<>> ELSE Wanted(Split(rows))

\* DC: a snapshot is the rows of one time, in their order.
RowsAt(rows, t) ==
    FoldLeft(LAMBDA taken, row : IF row.time = t THEN Append(taken, row) ELSE taken, <<>>, rows)

DcSnapshot(rows) ==
    LET times == {rows[i].time : i \in DOMAIN rows}
        size == Max({Len(RowsAt(rows, t)) : t \in times})
        latest == Max({t \in times : Len(RowsAt(rows, t)) = size})
    IN  IF rows = <<>> THEN <<>> ELSE RowsAt(rows, latest)

\* Refused (nothing is left) if it has a stock or a rank twice.
Validated(rows) ==
    IF \E i, j \in DOMAIN rows : i < j /\ (rows[i].code = rows[j].code \/ rows[i].rank = rows[j].rank)
    THEN <<>>
    ELSE rows

-----------------------------------------------------------------------------
(* The top list: the rows of one key, [name, amount].                      *)

Abs(x) == IF x < 0 THEN -x ELSE x

\* _decimal_values_close, of monetary fields: no further apart than 500 yuan and than a
\* thousandth of the larger.  Two amounts close to a third need not be close.
Close(a, b) ==
    LET difference == Abs(a.cents - b.cents)
    IN  /\ difference <= 50000
        /\ 1000 * difference <= Abs(a.cents) \/ 1000 * difference <= Abs(b.cents)

\* _more_precise_decimal: the one with more decimals, the first of two with as many.
Precise(a, b) == IF b.places > a.places THEN b ELSE a

\* Two rows of a key make one: each field from the row that has it, the name
\* of the first, the more precise amount.  A row that is part of the other is
\* a case of this.
Merged(first, second) ==
    [name |-> IF first.name = None THEN second.name ELSE first.name,
     amount |-> IF first.amount = None THEN second.amount
                ELSE IF second.amount = None THEN first.amount
                ELSE Precise(first.amount, second.amount)]

Conflict(first, second) ==
    first.amount # None /\ second.amount # None /\ ~Close(first.amount, second.amount)

\* A key in conflict is published no more, whatever comes after.
Added(kept, row) ==
    IF kept = None THEN {row} ELSE {Merged(k, row) : k \in {j \in kept : ~Conflict(j, row)}}

Deduplicated(rows) == FoldLeft(Added, None, rows)

-----------------------------------------------------------------------------
(* The inputs looked at.                                                   *)

Coded == [alias : BOOLEAN, value : {1, 2}]
Listed == [name : {None, "x", "y"}, amount : Amounts \cup {None}]

SeqsOf(set) == UNION {[1 .. n -> set] : n \in 1 .. MaxRows}

\* Snapshots of n stocks in any order, each with the ranks 1 .. n and a time.
Snapshots(n) ==
    {[i \in 1 .. n |-> [code |-> codes[i], rank |-> ranks[i], time |-> t]] :
        codes \in {f \in [1 .. n -> Codes] : IsInjective(f)},
        ranks \in {f \in [1 .. n -> 1 .. n] : IsInjective(f)}, t \in Times}

Init ==
    /\ output = None
    /\ \/ \E rows \in SeqsOf(Coded) :
            input = [rule |-> "codes", rows |-> rows, made |-> None]
       \/ \E rows \in SeqsOf(Listed) :
            input = [rule |-> "top_list", rows |-> rows, made |-> None]
       \/ \E n \in 1 .. 2 : \E a, b, c \in Snapshots(n), m \in 0 .. n - 1, rule \in {"ths_hot", "dc_hot"} :
            LET rest == SubSeq(c, 1, m)     \* the beginning of one more
            IN  input = [rule |-> rule, rows |-> (a \o b) \o rest, made |-> <<a, b, rest>>]

\* The part of a processor's prepare that settles repeated rows.
Prepare ==
    /\ output = None
    /\ output' = CASE input.rule = "codes" -> Normalized(input.rows)
                   [] input.rule = "top_list" -> Deduplicated(input.rows)
                   [] input.rule = "ths_hot" -> Validated(ThsSnapshot(input.rows))
                   [] input.rule = "dc_hot" -> Validated(DcSnapshot(input.rows))
    /\ UNCHANGED input

Next == Prepare

Spec == Init /\ [][Next]_vars

-----------------------------------------------------------------------------
(* Correctness.                                                            *)

Done(rule) == input.rule = rule /\ output # None

\* What is prepared is a row or rows of the kind that went in, or a verdict.
TypeOK ==
    /\ Done("codes") => output \subseteq Coded
    /\ Done("top_list") => output \subseteq Listed
    /\ Done("ths_hot") => output # <<>>

\* In whatever order the rows come: where a stock is there under its present
\* code, its row is the one that is published, or all are refused.
PresentCodeWins ==
    Done("codes") /\ output # {} =>
        \A i \in DOMAIN input.rows : ~input.rows[i].alias => output = {input.rows[i]}

\* From the rows of a whole day one whole snapshot is found again, none of the
\* complete ones being later: not the one that was cut off, and not a mixture
\* of two.  DC tells its snapshots apart by their times, which differ then.
LatestWholeSnapshot ==
    LET made == input.made
        whole == {i \in DOMAIN made : Len(made[i]) = Len(made[1])}
    IN  Done("ths_hot") \/ (Done("dc_hot") /\ \A i, j \in DOMAIN made :
                                i # j /\ made[i] # <<>> /\ made[j] # <<>> => Latest(made[i]) # Latest(made[j]))
        => \E i \in whole : output = made[i] /\ \A j \in whole : Latest(made[j]) <= Latest(made[i])

\* What any row of a published key knows is not lost to a row that does not, and the
\* amount is that of one of the rows, none of which has more decimals.
KnownOf(rows) == {rows[i].amount : i \in DOMAIN rows} \ {None}

NothingKnownLost ==
    Done("top_list") =>
        \A row \in output :
            /\ (\E i \in DOMAIN input.rows : input.rows[i].name # None) => row.name # None
            /\ KnownOf(input.rows) # {} => row.amount \in KnownOf(input.rows)
            /\ \A a \in KnownOf(input.rows) : a.places <= row.amount.places

\* A key is refused in every order if its amounts fall into two groups none of the one
\* close to any of the other, and is published in every order if all of them are close.
\* Between these the order decides.
ApartOut ==
    Done("top_list") =>
        LET known == KnownOf(input.rows)
        IN  /\ output # {} =>
                  \A group \in (SUBSET known) \ {{}, known} :
                      \E a \in group, b \in known \ group : Close(a, b)
            /\ output = {} => \E a, b \in known : ~Close(a, b)

\* Contradicted by the fold: rows of which two are in conflict are not published.
ConflictsOut ==
    Done("top_list") /\ output # {} => \A a, b \in KnownOf(input.rows) : Close(a, b)
=============================================================================
